------------------------------ MODULE ReadFile ------------------------------
(***************************************************************************)
(* ReadFile, which both the shell (src/shell.cc) and the program proper    *)
(* (src/xnode.cc) have a copy of: the file is measured, then read into a   *)
(* buffer of that size, while other processes may change its length.  A    *)
(* file is as good as its length here; size_t and int keep their widths as *)
(* the moduli SizeRange and IntRange.                                      *)
(***************************************************************************)
EXTENDS Integers

CONSTANTS
  SizeRange,  \* the number of values of size_t
  IntRange,   \* the number of values of int
  MaxString,  \* String::kMaxLength of V8
  MaxLength,  \* bound: the longest file
  MaxChanges  \* bound: how often other processes change the length

ASSUME ReadFileAssumption ==
  /\ SizeRange \in Nat /\ IntRange \in Nat /\ MaxString \in Nat
  /\ MaxLength \in Nat /\ MaxChanges \in Nat
  /\ MaxLength + 1 < SizeRange
  /\ 2 * MaxString < IntRange

VARIABLES
  pc,        \* where ReadFile is
  copy,      \* which copy of ReadFile runs: the shell's or xnode's
  length,    \* the length of the file now
  seekable,  \* whether ftell can measure the file
  size,      \* size
  buffer,    \* how many bytes of memory chars has, 0 if there is none
  i,         \* how many bytes are read, i in the loop
  eof,       \* the end-of-file indicator of the stream
  handle,    \* whether the stream is open
  result,    \* the length of the string returned, Empty for an empty handle
  changes,   \* how often the length was changed
  shrunk     \* history: the file lost bytes after it was measured

vars == <<pc, copy, length, seekable, size, buffer, i, eof, handle, result,
          changes, shrunk>>
fixed == <<copy, seekable>>
file == <<length, changes, shrunk>>

Empty == -1
Ended == {"returned", "aborted", "undefined"}

TypeOK ==
  /\ pc \in {"open", "measure", "allocate", "read", "string"} \cup Ended
  /\ copy \in {"shell", "xnode"}
  /\ length \in 0..MaxLength
  /\ seekable \in BOOLEAN /\ eof \in BOOLEAN /\ handle \in BOOLEAN
  /\ shrunk \in BOOLEAN
  /\ size \in 0..(SizeRange - 1)
  /\ buffer \in 0..(SizeRange - 1)
  /\ i \in 0..(SizeRange - 1)
  /\ result \in {Empty} \cup 0..MaxString
  /\ changes \in 0..MaxChanges

Init ==
  /\ pc = "open"
  /\ copy \in {"shell", "xnode"}
  /\ length \in 0..MaxLength
  /\ seekable \in BOOLEAN
  /\ size = 0 /\ buffer = 0 /\ i = 0 /\ result = Empty /\ changes = 0
  /\ eof = FALSE /\ handle = FALSE /\ shrunk = FALSE

\* Conversions to size_t and int.
ToSize(n) == n % SizeRange
ToInt(n) == IF 2 * (n % IntRange) < IntRange THEN n % IntRange
            ELSE (n % IntRange) - IntRange

-----------------------------------------------------------------------------
(* The reader *)

\* fopen fails: an empty handle is returned.
CannotOpen ==
  /\ pc = "open"
  /\ pc' = "returned" /\ result' = Empty
  /\ UNCHANGED <<fixed, file, size, buffer, i, eof, handle>>

Open ==
  /\ pc = "open"
  /\ pc' = "measure" /\ handle' = TRUE
  /\ UNCHANGED <<fixed, file, size, buffer, i, eof, result>>

\* Mutant of Measure: the size keeps the sign of ftell.
MeasureSigned ==
  /\ pc = "measure"
  /\ size' = IF seekable THEN length ELSE -1
  /\ pc' = "allocate"
  /\ UNCHANGED <<fixed, file, buffer, i, eof, handle, result>>

\* Mutant of Measure: the size is one too large.
MeasureOneMore ==
  /\ pc = "measure"
  /\ size' = ToSize(IF seekable THEN length + 1 ELSE -1)
  /\ pc' = "allocate"
  /\ UNCHANGED <<fixed, file, buffer, i, eof, handle, result>>

\* fseek, ftell and rewind; ftell is -1 for a file that has no position.
Measure ==
  /\ pc = "measure"
  /\ size' = ToSize(IF seekable THEN length ELSE -1)
  /\ pc' = "allocate"
  /\ UNCHANGED <<fixed, file, buffer, i, eof, handle, result>>

\* new throws, and nothing catches it.
OutOfMemory ==
  /\ pc = "allocate"
  /\ pc' = "aborted"
  /\ UNCHANGED <<fixed, file, size, buffer, i, eof, handle, result>>

\* The buffer, and its last byte set: without bounds if size + 1 wraps to 0.
Allocate ==
  /\ pc = "allocate"
  /\ buffer' = ToSize(size + 1)
  /\ pc' = IF size < buffer' THEN "read" ELSE "undefined"
  /\ UNCHANGED <<fixed, file, size, i, eof, handle, result>>

\* Mutant of Receive: fread is asked for size bytes, not for the rest of them.
ReceiveTooMany ==
  /\ pc = "read" /\ i < size /\ ~eof
  /\ \E n \in 1..size : /\ i + n <= length
                        /\ i' = i + n
  /\ UNCHANGED <<fixed, file, pc, size, buffer, eof, handle, result>>

\* fread gets bytes from the file, as many as are asked for or fewer.
Receive ==
  /\ pc = "read" /\ i < size /\ ~eof
  /\ \E n \in 1..(size - i) : /\ i + n <= length
                              /\ i' = i + n
  /\ UNCHANGED <<fixed, file, pc, size, buffer, eof, handle, result>>

\* fread meets the end of the file; the indicator stays set from then on.
MeetEnd ==
  /\ pc = "read" /\ i < size /\ ~eof
  /\ i >= length
  /\ eof' = TRUE
  /\ UNCHANGED <<fixed, file, pc, size, buffer, i, handle, result>>

\* The loop goes round once more, and fread returns 0.
ReadNothing ==
  /\ pc = "read" /\ i < size /\ eof
  /\ UNCHANGED vars

\* Mutant of ReadError: the buffer is given to nobody.
ReadErrorLeaks ==
  /\ pc = "read" /\ i < size /\ ~eof
  /\ handle' = FALSE
  /\ pc' = "returned" /\ result' = Empty
  /\ UNCHANGED <<fixed, file, size, buffer, i, eof>>

\* fread fails: only xnode's buffer has an owner that deletes it.
ReadError ==
  /\ pc = "read" /\ i < size /\ ~eof
  /\ handle' = FALSE
  /\ buffer' = IF copy = "shell" THEN buffer ELSE 0
  /\ pc' = "returned" /\ result' = Empty
  /\ UNCHANGED <<fixed, file, size, i, eof>>

ReadAll ==
  /\ pc = "read" /\ i = size
  /\ handle' = FALSE
  /\ pc' = "string"
  /\ UNCHANGED <<fixed, file, size, buffer, i, eof, result>>

\* String::NewFromUtf8 with a length: an empty handle if it is too long, and the
\* bytes before the first null, or a fatal error, if it is negative.
NewString(n, r) ==
  \/ n \in 0..MaxString /\ r = n
  \/ n > MaxString /\ r = Empty
  \/ n < 0 /\ r \in 0..MaxString

\* Mutant of MakeString: the terminating null is part of the string.
MakeStringWithNull ==
  /\ pc = "string"
  /\ NewString(ToInt(size + 1), result')
  /\ buffer' = 0
  /\ pc' = "returned"
  /\ UNCHANGED <<fixed, file, size, i, eof, handle>>

MakeString ==
  /\ pc = "string"
  /\ NewString(ToInt(size), result')
  /\ buffer' = 0
  /\ pc' = "returned"
  /\ UNCHANGED <<fixed, file, size, i, eof, handle>>

FatalString ==
  /\ pc = "string" /\ ToInt(size) < 0
  /\ pc' = "aborted"
  /\ UNCHANGED <<fixed, file, size, buffer, i, eof, handle, result>>

Reader ==
  \/ CannotOpen \/ Open \/ Measure \/ OutOfMemory \/ Allocate
  \/ Receive \/ MeetEnd \/ ReadNothing \/ ReadError \/ ReadAll
  \/ MakeString \/ FatalString

\* Other processes append to the file or truncate it.
Change ==
  /\ changes < MaxChanges /\ pc \notin Ended
  /\ \E n \in 0..MaxLength :
       /\ length' = n
       /\ shrunk' = (shrunk \/ (pc \in {"allocate", "read"} /\ n < size))
  /\ changes' = changes + 1
  /\ UNCHANGED <<fixed, pc, size, buffer, i, eof, handle, result>>

Next == Reader \/ Change

Safety == Init /\ [][Next]_vars

\* The thread that reads is not suspended for ever; nothing is asked of others.
Spec == Safety /\ WF_vars(Reader)

-----------------------------------------------------------------------------
(* Properties *)

\* Memory outside the buffer is written only if ftell failed, whatever happens to
\* the file meanwhile (chars[size] = 0 and the fread of the loop).
InBounds ==
  /\ pc = "undefined" => ~seekable
  /\ pc \in {"read", "string"} => i <= size /\ size < buffer

\* However ReadFile returns, the stream is closed.
StreamClosed == pc = "returned" => ~handle

\* Only the shell's copy can lose the buffer, and only where fread failed.
LeakedByShell ==
  pc = "returned" /\ buffer # 0 => copy = "shell" /\ result = Empty /\ i < size

\* However ReadFile returns, it has released the stream, and the buffer but for the one
\* case of the shell's copy.
Released == StreamClosed /\ LeakedByShell

\* What ftell said counts as long as the call can answer for it.
Seen == IF seekable /\ (pc \in {"allocate", "read", "string"} \/ result # Empty)
        THEN size ELSE Empty
Outcome == IF pc \in {"aborted", "undefined"} THEN "ended"
           ELSE IF pc # "returned" THEN "pending"
           ELSE IF result = Empty THEN "nothing" ELSE "string"

Reading == INSTANCE OneReading WITH
  Lengths <- 0..MaxLength,
  Exact   <- {n \in 0..MaxLength : 2 * n < IntRange},
  seen    <- Seen,
  outcome <- Outcome,
  answer  <- result

\* A string has the length that the file had at one moment between the call and the
\* return, whatever happens to the file before and after it, if int can represent that
\* length; a file that has no length is never returned as a string.
ReadsOnce == Reading!ReadingSpec

\* ReadFile returns unless the file lost bytes after it was measured.
ReturnsUnlessShrunk == <>(pc \in Ended \/ shrunk)

\* "Reads a file into a v8 string" (src/shell.cc:226): a string that is returned
\* for a file nobody changed has the length of the file.
ContentLoaded ==
  pc = "returned" /\ result # Empty /\ changes = 0 => result = length

\* "This function loads the content of the file named in the argument into a
\* JavaScript string" (src/shell.cc:149): ReadFile comes to an end.
AlwaysReturns == <>(pc \in Ended)
=============================================================================
