--------------------------- MODULE ReadFileProofs ---------------------------
(* Theorems about ReadFile for every width of size_t and int. *)
EXTENDS ReadFile, TLAPS

\* A length that size_t represents is converted to itself.
LEMMA SizeExact ==
  \A n \in 0..(SizeRange - 1) : ToSize(n) = n
BY ReadFileAssumption, SMTT(30) DEF ToSize

LEMMA SizeType ==
  \A n \in Int : ToSize(n) \in 0..(SizeRange - 1)
BY ReadFileAssumption, SMTT(30) DEF ToSize

\* So is a length in the positive half of int.
LEMMA IntExact ==
  \A n \in Nat : 2 * n < IntRange => ToInt(n) = n
BY ReadFileAssumption, SMTT(30) DEF ToInt

-----------------------------------------------------------------------------
(* The inductive invariant *)

\* A string is as long as the file was when it was measured, if int can represent that.
AsMeasured ==
  pc = "returned" /\ result # Empty /\ 2 * size < IntRange
    => i = size /\ result = size

\* What ReadFile has settled at every place it can be: nothing is read before the
\* buffer is there, and the buffer was measured for the file.
ProgressInv ==
  /\ pc \in {"open", "measure", "allocate"} => buffer = 0 /\ i = 0
  /\ pc = "allocate" /\ seekable => size <= MaxLength
  /\ pc = "string" => i = size
  /\ pc \in {"open", "string"} => ~handle
  /\ pc # "returned" => result = Empty

IInv == TypeOK /\ InBounds /\ StreamClosed /\ LeakedByShell /\ AsMeasured
          /\ ProgressInv

\* What NewFromUtf8 makes of a size.
LEMMA StringLength ==
  ASSUME NEW r, NEW n \in Nat, NewString(ToInt(n), r)
  PROVE  /\ r \in {Empty} \cup 0..MaxString
         /\ r # Empty /\ 2 * n < IntRange => r = n
<1>1. r \in {Empty} \cup 0..MaxString
  BY ReadFileAssumption DEF NewString
<1>2. ASSUME r # Empty, 2 * n < IntRange PROVE r = n
  <2>1. ToInt(n) = n
    BY <1>2, IntExact
  <2>2. QED
    BY <1>2, <2>1 DEF NewString
<1>3. QED
  BY <1>1, <1>2

LEMMA InitIInv == ASSUME Init PROVE IInv
<1>1. /\ seekable \in BOOLEAN /\ eof \in BOOLEAN /\ handle \in BOOLEAN
      /\ shrunk \in BOOLEAN
  BY DEF Init
<1>2. ~handle
  BY DEF Init
<1>3. /\ pc = "open" /\ copy \in {"shell", "xnode"} /\ length \in 0..MaxLength
      /\ size = 0 /\ buffer = 0 /\ i = 0 /\ result = Empty /\ changes = 0
  BY DEF Init
<1>4. TypeOK
  BY <1>1, <1>3, ReadFileAssumption DEF TypeOK
<1>5. QED
  BY <1>2, <1>3, <1>4 DEF IInv, InBounds, StreamClosed, LeakedByShell,
     AsMeasured, ProgressInv

LEMMA ReaderIInv == ASSUME IInv, Reader PROVE IInv'
<1> USE ReadFileAssumption DEF fixed, file, Empty, Ended
<1>1. CASE CannotOpen \/ Open
  <2>1. CASE CannotOpen
    BY <2>1 DEF CannotOpen, IInv, TypeOK, InBounds, StreamClosed,
                LeakedByShell, AsMeasured, ProgressInv
  <2>2. CASE Open
    BY <2>2 DEF Open, IInv, TypeOK, InBounds, StreamClosed, LeakedByShell,
                AsMeasured, ProgressInv
  <2>3. QED
    BY <1>1, <2>1, <2>2
<1>2. CASE Measure
  <2>1. size' \in 0..(SizeRange - 1) /\ (seekable => size' <= MaxLength)
    <3>1. length \in 0..(SizeRange - 1) /\ length <= MaxLength
      BY DEF IInv, TypeOK
    <3>2. size' = ToSize(IF seekable THEN length ELSE -1)
      BY <1>2 DEF Measure
    <3>3. QED
      BY <3>1, <3>2, SizeExact, SizeType
  <2>2. QED
    BY <1>2, <2>1 DEF Measure, IInv, TypeOK, InBounds, StreamClosed,
                      LeakedByShell, AsMeasured, ProgressInv
<1>3. CASE Allocate
  <2>1. buffer' = ToSize(size + 1) /\ buffer' \in 0..(SizeRange - 1)
    BY <1>3, SizeType DEF Allocate, IInv, TypeOK
  <2>2. seekable => buffer' = size + 1
    BY <1>3, <2>1, SizeExact DEF Allocate, IInv, TypeOK, ProgressInv
  <2>3. pc' = IF size < buffer' THEN "read" ELSE "undefined"
    BY <1>3 DEF Allocate
  <2>4. QED
    BY <1>3, <2>1, <2>2, <2>3 DEF Allocate, IInv, TypeOK, InBounds, StreamClosed,
                      LeakedByShell, AsMeasured, ProgressInv
<1>4. CASE OutOfMemory \/ FatalString
  BY <1>4 DEF OutOfMemory, FatalString, IInv, TypeOK, InBounds, StreamClosed,
              LeakedByShell, AsMeasured, ProgressInv
<1>5. CASE Receive
  <2>1. i' \in 0..(SizeRange - 1) /\ i' <= size
    BY <1>5 DEF Receive, IInv, TypeOK
  <2>2. QED
    BY <1>5, <2>1 DEF Receive, IInv, TypeOK, InBounds, StreamClosed,
                      LeakedByShell, AsMeasured, ProgressInv
<1>6. CASE MeetEnd \/ ReadNothing \/ ReadAll
  <2>1. CASE MeetEnd
    BY <2>1 DEF MeetEnd, IInv, TypeOK, InBounds, StreamClosed, LeakedByShell,
                AsMeasured, ProgressInv
  <2>2. CASE ReadNothing
    BY <2>2 DEF ReadNothing, vars, IInv, TypeOK, InBounds, StreamClosed,
                LeakedByShell, AsMeasured, ProgressInv
  <2>3. CASE ReadAll
    <3>1. handle' = FALSE /\ pc' = "string" /\ i = size
          /\ UNCHANGED <<copy, length, seekable, size, buffer, i, eof, result,
                         changes, shrunk>>
      BY <2>3 DEF ReadAll
    <3>2. TypeOK'
      BY <3>1 DEF IInv, TypeOK
    <3>3. pc = "read"
      BY <2>3 DEF ReadAll
    <3>4. (InBounds /\ StreamClosed /\ LeakedByShell /\ AsMeasured)'
      BY <3>1, <3>3 DEF IInv, InBounds, StreamClosed, LeakedByShell, AsMeasured
    <3>5. ProgressInv'
      BY <3>1, <3>3 DEF IInv, ProgressInv
    <3>6. QED
      BY <3>2, <3>4, <3>5 DEF IInv
  <2>4. QED
    BY <1>6, <2>1, <2>2, <2>3
<1>7. CASE ReadError
  <2>1. /\ handle' = FALSE /\ pc' = "returned" /\ result' = Empty
        /\ buffer' = IF copy = "shell" THEN buffer ELSE 0
        /\ UNCHANGED <<copy, length, seekable, size, i, eof, changes, shrunk>>
    BY <1>7 DEF ReadError
  <2>2. i < size
    BY <1>7 DEF ReadError
  <2>3. TypeOK'
    <3>1. buffer' \in 0..(SizeRange - 1)
      BY <2>1 DEF IInv, TypeOK
    <3>2. handle' \in BOOLEAN /\ UNCHANGED <<seekable, eof, shrunk>>
      BY <2>1
    <3>3. QED
      BY <2>1, <3>1, <3>2 DEF IInv, TypeOK
  <2>4. (InBounds /\ StreamClosed /\ LeakedByShell /\ AsMeasured /\ ProgressInv)'
    BY <2>1, <2>2 DEF IInv, TypeOK, InBounds, StreamClosed, LeakedByShell,
                      AsMeasured, ProgressInv
  <2>5. QED
    BY <2>3, <2>4 DEF IInv
<1>8. CASE MakeString
  <2>1. /\ result' \in {Empty} \cup 0..MaxString
        /\ result' # Empty /\ 2 * size < IntRange => result' = size
    BY <1>8, StringLength DEF MakeString, IInv, TypeOK
  <2>2. QED
    BY <1>8, <2>1 DEF MakeString, IInv, TypeOK, InBounds, StreamClosed,
                      LeakedByShell, AsMeasured, ProgressInv
<1>9. QED
  BY <1>1, <1>2, <1>3, <1>4, <1>5, <1>6, <1>7, <1>8 DEF Reader

\* What other processes do to the file disturbs nothing.
LEMMA ChangeIInv == ASSUME IInv, Change PROVE IInv'
BY ReadFileAssumption DEF Change, fixed, IInv, TypeOK, InBounds, StreamClosed,
   LeakedByShell, AsMeasured, ProgressInv, Empty, Ended

\* The inductive invariant holds in every reachable state.
THEOREM ReadFileInvariant == Safety => []IInv
<1>1. IInv /\ UNCHANGED vars => IInv'
  BY DEF vars, IInv, TypeOK, InBounds, StreamClosed, LeakedByShell, AsMeasured,
         ProgressInv
<1>2. IInv /\ [Next]_vars => IInv'
  BY <1>1, ReaderIInv, ChangeIInv DEF Next
<1>3. QED
  BY <1>2, InitIInv, PTL DEF Safety

\* Memory outside the buffer is written only if ftell failed (both copies of the
\* loop), for every width of size_t and every interference with the file.
THEOREM ReadFileBounds == Safety => []InBounds
BY ReadFileInvariant, PTL DEF IInv

\* The stream is closed and only the shell's copy leaks, in the error path.
THEOREM ReadFileReleases == Safety => []Released
BY ReadFileInvariant, PTL DEF IInv, Released

\* Every variable of the reader keeps its type.
THEOREM ReadFileTyped == Safety => []TypeOK
BY ReadFileInvariant, PTL DEF IInv

-----------------------------------------------------------------------------
(* One reading of the length *)

\* A file without a position is never read, only a measured one is; and until it
\* shrinks the file has what was measured, so that its end is not met.
SeekInv ==
  /\ pc \in {"read", "string"} \/ result # Empty => seekable
  /\ pc = "allocate" /\ ~seekable => size = SizeRange - 1
  /\ pc \in {"open", "measure", "allocate"} => ~eof
  /\ pc \in {"allocate", "read"} /\ seekable /\ ~shrunk => size <= length /\ ~eof

\* The size that ftell's -1 becomes is the largest one, and one more wraps to 0.
LEMMA SizeWraps == ToSize(-1) = SizeRange - 1 /\ ToSize((SizeRange - 1) + 1) = 0
<1>1. PICK n \in Nat : n = SizeRange /\ n > 1
  BY ReadFileAssumption
<1>2. (-1) % n = n - 1
  BY <1>1, SMTT(30)
<1>3. n % n = 0
  BY <1>1, SMTT(30)
<1>4. QED
  BY <1>1, <1>2, <1>3 DEF ToSize

LEMMA SeekKeeps == ASSUME IInv, SeekInv, Next PROVE SeekInv'
<1>1. CASE CannotOpen \/ Open
  BY <1>1 DEF CannotOpen, Open, fixed, file, SeekInv, IInv, ProgressInv
<1>2. CASE Measure
  <2>1. /\ pc = "measure" /\ pc' = "allocate" /\ eof' = eof /\ shrunk' = shrunk
        /\ seekable' = seekable /\ length' = length /\ result' = result
        /\ size' = ToSize(IF seekable THEN length ELSE -1)
    BY <1>2 DEF Measure, fixed, file
  <2>2. CASE seekable
    <3>1. length \in 0..(SizeRange - 1) /\ length \in Int
      BY ReadFileAssumption DEF IInv, TypeOK
    <3>2. size' = length
      BY <2>1, <2>2, <3>1, SizeExact
    <3>3. QED
      BY <2>1, <2>2, <3>1, <3>2 DEF SeekInv, IInv, ProgressInv
  <2>3. CASE ~seekable
    <3>1. size' = SizeRange - 1
      BY <2>1, <2>3, SizeWraps
    <3>2. SizeRange' = SizeRange
      OBVIOUS
    <3>3. QED
      BY <2>1, <2>3, <3>1 DEF SeekInv, IInv, ProgressInv
  <2>4. QED
    BY <2>2, <2>3
<1>3. CASE Allocate
  <2>1. /\ pc = "allocate" /\ eof' = eof /\ shrunk' = shrunk /\ size' = size
        /\ seekable' = seekable /\ length' = length /\ result' = result
        /\ buffer' = ToSize(size + 1)
        /\ pc' = IF size < buffer' THEN "read" ELSE "undefined"
    BY <1>3 DEF Allocate, fixed, file
  <2>2. ~seekable => pc' = "undefined"
    <3>1. ~seekable => buffer' = 0 /\ size = SizeRange - 1
      BY <2>1, SizeWraps DEF SeekInv
    <3>2. SizeRange > 1 /\ SizeRange \in Nat
      BY ReadFileAssumption
    <3>3. QED
      BY <2>1, <3>1, <3>2
  <2>3. QED
    BY <2>1, <2>2 DEF SeekInv
<1>4. CASE OutOfMemory \/ Receive \/ ReadNothing \/ ReadError \/ ReadAll \/ FatalString
  BY <1>4 DEF OutOfMemory, Receive, ReadNothing, ReadError, ReadAll, FatalString, fixed,
              file, vars, SeekInv
<1>5. CASE MeetEnd
  <2>1. size \in Int /\ length \in Int /\ i \in Int
    BY ReadFileAssumption DEF IInv, TypeOK
  <2>2. QED
    BY <1>5, <2>1 DEF MeetEnd, fixed, file, SeekInv
<1>6. CASE MakeString
  BY <1>6 DEF MakeString, fixed, file, SeekInv
<1>7. CASE Change
  <2>1. PICK n \in 0..MaxLength :
          length' = n /\ shrunk' = (shrunk \/ (pc \in {"allocate", "read"} /\ n < size))
    BY <1>7 DEF Change
  <2>2. n \in Int /\ size \in Int
    BY <2>1, ReadFileAssumption DEF IInv, TypeOK
  <2>3. UNCHANGED <<pc, seekable, size, eof, result>>
    BY <1>7 DEF Change, fixed
  <2>4. ASSUME ~shrunk', pc \in {"allocate", "read"}
        PROVE  ~shrunk /\ size <= length'
    <3>1. ~(shrunk \/ (pc \in {"allocate", "read"} /\ n < size))
      BY <2>1, <2>4
    <3>2. ~(n < size) => size <= n
      BY <2>2
    <3>3. QED
      BY <2>1, <2>4, <3>1, <3>2
  <2>5. QED
    BY <2>3, <2>4 DEF SeekInv
<1>8. QED
  BY <1>1, <1>2, <1>3, <1>4, <1>5, <1>6, <1>7 DEF Next, Reader

LEMMA ReadFileSeeks == Safety => []SeekInv
<1>1. Init => SeekInv
  BY DEF Init, SeekInv
<1>2. IInv /\ SeekInv /\ [Next]_vars => SeekInv'
  <2>1. SeekInv /\ UNCHANGED vars => SeekInv'
    BY DEF vars, SeekInv
  <2>2. QED
    BY <2>1, SeekKeeps
<1>3. QED
  BY <1>1, <1>2, ReadFileInvariant, PTL DEF Safety

LEMMA ReadingInitially == ASSUME Init PROVE Reading!ReadingInit
BY DEF Init, Reading!ReadingInit, Reading!Nothing, Seen, Outcome, Empty

\* Every step of ReadFile, and of the others, is one of the one reading, or none.
LEMMA ReadingStep ==
  ASSUME IInv, SeekInv, IInv', SeekInv', Next
  PROVE  \/ Reading!Fluctuate \/ Reading!Look \/ Reading!Answer \/ Reading!GiveUp
         \/ UNCHANGED Reading!readingVars
<1>1. CASE CannotOpen
  <2>1. Outcome = "pending" /\ Outcome' = "nothing" /\ Seen' = Empty
        /\ UNCHANGED <<length, result>>
    BY <1>1 DEF CannotOpen, fixed, file, Outcome, Seen, IInv, ProgressInv
  <2>2. QED
    BY <2>1 DEF Reading!GiveUp, Reading!Nothing, Empty
<1>2. CASE Measure
  <2>1. /\ pc = "measure" /\ pc' = "allocate" /\ result = Empty
        /\ UNCHANGED <<seekable, length, result>>
        /\ size' = ToSize(IF seekable THEN length ELSE -1)
    BY <1>2 DEF Measure, fixed, file, IInv, ProgressInv
  <2>2. Outcome = "pending" /\ Outcome' = "pending" /\ Seen = Empty
    BY <2>1 DEF Outcome, Seen
  <2>3. CASE seekable
    <3>1. length \in 0..(SizeRange - 1)
      BY ReadFileAssumption DEF IInv, TypeOK
    <3>2. Seen' = length
      BY <2>1, <2>3, <3>1, SizeExact DEF Seen
    <3>3. QED
      BY <2>1, <2>2, <3>2 DEF Reading!Look, Reading!Nothing, Empty
  <2>4. CASE ~seekable
    <3>1. Seen' = Empty
      BY <2>1, <2>4 DEF Seen
    <3>2. QED
      BY <2>1, <2>2, <3>1 DEF Reading!readingVars
  <2>5. QED
    BY <2>3, <2>4
<1>3. CASE Allocate
  <2>1. /\ pc = "allocate" /\ pc' \in {"read", "undefined"} /\ result = Empty
        /\ UNCHANGED <<seekable, length, result, size>>
    BY <1>3 DEF Allocate, fixed, file, IInv, ProgressInv
  <2>2. CASE pc' = "read"
    <3>1. Outcome' = Outcome /\ Seen' = Seen
      BY <2>1, <2>2 DEF Outcome, Seen
    <3>2. QED
      BY <2>1, <3>1 DEF Reading!readingVars
  <2>3. CASE pc' = "undefined"
    <3>1. Outcome = "pending" /\ Outcome' = "ended" /\ Seen' = Empty
      BY <2>1, <2>3 DEF Outcome, Seen
    <3>2. QED
      BY <2>1, <3>1 DEF Reading!GiveUp, Reading!Nothing, Empty
  <2>4. QED
    BY <2>1, <2>2, <2>3
<1>4. CASE OutOfMemory \/ FatalString
  <2>1. /\ pc \in {"allocate", "string"} /\ pc' = "aborted" /\ result = Empty
        /\ UNCHANGED <<seekable, length, result>>
    BY <1>4 DEF OutOfMemory, FatalString, fixed, file, IInv, ProgressInv
  <2>2. Outcome = "pending" /\ Outcome' = "ended" /\ Seen' = Empty
    BY <2>1 DEF Outcome, Seen
  <2>3. QED
    BY <2>1, <2>2 DEF Reading!GiveUp, Reading!Nothing, Empty
<1>5. CASE ReadError
  <2>1. Outcome = "pending" /\ Outcome' = "nothing" /\ Seen' = Empty
        /\ UNCHANGED <<length, result>>
    BY <1>5 DEF ReadError, fixed, file, Outcome, Seen, IInv, ProgressInv
  <2>2. QED
    BY <2>1 DEF Reading!GiveUp, Reading!Nothing, Empty
<1>6. CASE Open \/ Receive \/ MeetEnd \/ ReadNothing \/ ReadAll
  <2>1. /\ \/ pc = "open" /\ pc' = "measure"
           \/ pc = "read" /\ pc' \in {"read", "string"}
        /\ UNCHANGED <<seekable, length, result, size>>
    BY <1>6 DEF Open, Receive, MeetEnd, ReadNothing, ReadAll, fixed, file, vars
  <2>2. Outcome' = Outcome /\ Seen' = Seen
    BY <2>1 DEF Outcome, Seen
  <2>3. QED
    BY <2>1, <2>2 DEF Reading!readingVars
<1>7. CASE MakeString
  <2>1. /\ pc = "string" /\ pc' = "returned" /\ result = Empty /\ seekable
        /\ UNCHANGED <<seekable, length, size>>
        /\ size \in Nat /\ NewString(ToInt(size), result')
    BY <1>7, ReadFileAssumption DEF MakeString, fixed, file, IInv, ProgressInv, SeekInv, TypeOK
  <2>2. Outcome = "pending" /\ Seen = size
    BY <2>1 DEF Outcome, Seen
  <2>3. CASE result' = Empty
    <3>1. Outcome' = "nothing" /\ Seen' = Empty
      BY <2>1, <2>3 DEF Outcome, Seen
    <3>2. QED
      BY <2>1, <2>2, <2>3, <3>1 DEF Reading!GiveUp, Reading!Nothing, Empty
  <2>4. CASE result' # Empty
    <3>1. Outcome' = "string" /\ Seen' = size
      BY <2>1, <2>4 DEF Outcome, Seen
    <3>2. result' \in Nat /\ (2 * size < IntRange => result' = size)
      <4>1. result' \in {Empty} \cup 0..MaxString
            /\ (result' # Empty /\ 2 * size < IntRange => result' = size)
        BY <2>1, StringLength
      <4>2. QED
        BY <2>4, <4>1, ReadFileAssumption
    <3>3. Seen # Empty
      BY <2>1, <2>2 DEF Empty
    <3>4. QED
      BY <2>1, <2>2, <3>1, <3>2, <3>3 DEF Reading!Answer, Reading!Nothing, Empty
  <2>5. QED
    BY <2>3, <2>4
<1>8. CASE Change
  <2>1. /\ pc \notin Ended /\ length' \in 0..MaxLength
        /\ UNCHANGED <<seekable, pc, result, size>>
    BY <1>8 DEF Change, fixed
  <2>2. Outcome = "pending" /\ Outcome' = Outcome /\ Seen' = Seen
    BY <2>1 DEF Outcome, Seen, Ended
  <2>3. QED
    BY <2>1, <2>2 DEF Reading!Fluctuate
<1>9. QED
  BY <1>1, <1>2, <1>3, <1>4, <1>5, <1>6, <1>7, <1>8 DEF Next, Reader

\* The string of ReadFile is that of one reading of the length at one moment of the
\* call, whatever the others do meanwhile, for every width of size_t and int.
THEOREM ReadFileReadsOnce == Safety => ReadsOnce
<1>1. IInv /\ SeekInv /\ IInv' /\ SeekInv' /\ [Next]_vars
        => [Reading!Fluctuate \/ Reading!Look \/ Reading!Answer \/ Reading!GiveUp]_Reading!readingVars
  <2>1. UNCHANGED vars => UNCHANGED Reading!readingVars
    BY DEF vars, Reading!readingVars, Seen, Outcome
  <2>2. QED
    BY <2>1, ReadingStep
<1>2. QED
  BY <1>1, ReadingInitially, ReadFileInvariant, ReadFileSeeks, PTL
     DEF Safety, ReadsOnce, Reading!ReadingSpec

-----------------------------------------------------------------------------
(* ReadFile gets on *)

\* How many of its places ReadFile has still to go through, and how many bytes it has
\* still to read at the place where it is.
Stage == IF pc = "open" THEN 5 ELSE IF pc = "measure" THEN 4
         ELSE IF pc = "allocate" THEN 3 ELSE IF pc = "read" THEN 2
         ELSE IF pc = "string" THEN 1 ELSE 0
Left == size - i

GetsOn == \/ Stage' < Stage
          \/ Stage' = Stage /\ Left \in Nat /\ Left' \in Nat /\ Left' < Left

LEMMA ReaderGetsOn ==
  ASSUME IInv, SeekInv, IInv', Reader, ~shrunk
  PROVE  GetsOn
<1>1. CASE Receive
  <2>1. PICK n \in 1..(size - i) : i' = i + n
    BY <1>1 DEF Receive
  <2>2. /\ pc = "read" /\ pc' = "read" /\ size' = size
        /\ size \in Int /\ i \in Int /\ i < size
    BY <1>1, ReadFileAssumption DEF Receive, fixed, file, IInv, TypeOK
  <2>3. Stage' = Stage
    BY <2>2 DEF Stage
  <2>4. Left \in Nat /\ Left' \in Nat /\ Left' < Left
    BY <2>1, <2>2 DEF Left
  <2>5. QED
    BY <2>3, <2>4 DEF GetsOn
<1>2. ASSUME MeetEnd \/ ReadNothing PROVE FALSE
  <2>1. pc = "read" /\ i < size /\ (eof \/ i >= length)
    BY <1>2 DEF MeetEnd, ReadNothing
  <2>2. size <= length /\ ~eof
    BY <2>1 DEF SeekInv
  <2>3. size \in Int /\ length \in Int /\ i \in Int
    BY ReadFileAssumption DEF IInv, TypeOK
  <2>4. QED
    BY <2>1, <2>2, <2>3
<1>3. CASE Allocate
  BY <1>3 DEF Allocate, GetsOn, Stage
<1>4. CASE ReadAll \/ ReadError \/ MakeString \/ FatalString
  BY <1>4 DEF ReadAll, ReadError, MakeString, FatalString, GetsOn, Stage
<1>5. CASE CannotOpen \/ Open \/ Measure \/ OutOfMemory
  BY <1>5 DEF CannotOpen, Open, Measure, OutOfMemory, GetsOn, Stage
<1>6. QED
  BY <1>1, <1>2, <1>3, <1>4, <1>5 DEF Reader

\* Unless the file has lost bytes, ReadFile never goes round its loop in vain: each of
\* its steps leaves fewer places or fewer bytes, and others cannot take that back.
THEOREM ReadFileGetsOn ==
  Safety => [][/\ Reader /\ ~shrunk => GetsOn
               /\ Change => UNCHANGED <<Stage, Left>>]_vars
<1>1. Change => UNCHANGED <<Stage, Left>>
  BY DEF Change, fixed, Stage, Left
<1>2. QED
  BY <1>1, ReaderGetsOn, ReadFileInvariant, ReadFileSeeks, PTL DEF Safety
=============================================================================
