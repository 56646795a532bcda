-------------------------- MODULE LineReaderProofs --------------------------
(* What the prompt makes of its input, for every input and every size of the *)
(* buffer.                                                                   *)
EXTENDS LineReader, TLAPS

\* What is known of one piece: it has a newline at most at its end, and ends there, at
\* the end of the buffer or at the end of stdin.
PieceOK(p) ==
  /\ p.first <= p.last /\ p.last <= pos
  /\ p.text >= p.first - 1 /\ p.text <= p.last
  /\ p.last - p.first + 1 <= BufferSize - 1
  /\ \A k \in p.first .. p.last - 1 : input[k] # "newline"
  /\ input[p.last] = "newline" \/ Filled(p.first, p.last) \/ p.last = Len(input)
  /\ IsText(p.first, p.last, p.text)

PiecesOK == \A n \in DOMAIN pieces : PieceOK(pieces[n])

\* The pieces cover what was read.
Covered ==
  \A k \in 1..pos : \E n \in DOMAIN pieces : pieces[n].first <= k /\ k <= pieces[n].last

IInv == TypeOK /\ PiecesOK /\ Covered

LEMMA InitInvariant == Init => IInv
  BY InputsAssumption DEF Init, IInv, TypeOK, PiecesOK, Covered

\* A piece is as long as the buffer at most: one that is longer was filled before.
LEMMA PieceFits ==
  ASSUME NEW first \in Int, NEW last \in Int, first <= last,
         \A k \in first .. last - 1 : ~Filled(first, k)
  PROVE  last - first + 1 <= BufferSize - 1
  <1>1. SUFFICES ASSUME last - first + 1 > BufferSize - 1 PROVE FALSE
    BY BufferAssumption
  <1>2. first + BufferSize - 2 \in first .. last - 1
    BY <1>1, BufferAssumption
  <1>3. Filled(first, first + BufferSize - 2)
    BY BufferAssumption DEF Filled
  <1>4. QED BY <1>2, <1>3

\* The records of the history.
LEMMA PieceTyped ==
  ASSUME TypeOK, NEW n \in DOMAIN pieces
  PROVE  pieces[n] \in [first : 1..Len(input), last : 1..Len(input), text : 0..Len(input)]
  <1> DEFINE Piece == [first : 1..Len(input), last : 1..Len(input), text : 0..Len(input)]
  <1>1. pieces \in Seq(Piece)
    BY DEF TypeOK
  <1> HIDE DEF Piece
  <1>2. pieces[n] \in Piece
    BY <1>1
  <1>3. QED BY <1>2 DEF Piece

\* The step of fgets keeps the invariant: it appends one piece.
LEMMA FgetsInvariant == IInv /\ Fgets => IInv'
  <1> SUFFICES ASSUME IInv, Fgets PROVE IInv'
    OBVIOUS
  <1>0. /\ input \in Inputs /\ input \in Seq({"byte", "null", "newline"})
        /\ Len(input) \in Nat /\ pos \in 0..Len(input) /\ input' = input
    BY InputsAssumption DEF IInv, TypeOK, Fgets
  <1>1. PICK last \in pos + 1 .. Len(input), text \in pos .. Len(input) :
          /\ input[last] = "newline" \/ Filled(pos + 1, last) \/ last = Len(input)
          /\ \A k \in pos + 1 .. last - 1 : input[k] # "newline" /\ ~Filled(pos + 1, k)
          /\ text <= last /\ IsText(pos + 1, last, text)
          /\ pieces' = Append(pieces, [first |-> pos + 1, last |-> last, text |-> text])
          /\ pos' = last
    BY DEF Fgets
  <1>a. PICK new : new = [first |-> pos + 1, last |-> last, text |-> text]
    OBVIOUS
  <1>2. /\ DOMAIN pieces = 1..Len(pieces) /\ Len(pieces) \in Nat
        /\ DOMAIN pieces' = 1 .. Len(pieces) + 1
        /\ \A n \in DOMAIN pieces : pieces'[n] = pieces[n] /\ n \in DOMAIN pieces'
        /\ pieces'[Len(pieces) + 1] = new
    <2> DEFINE Piece == [first : 1..Len(input), last : 1..Len(input), text : 0..Len(input)]
    <2>1. pieces \in Seq(Piece) /\ new \in Piece
      BY <1>0, <1>1, <1>a DEF IInv, TypeOK
    <2>2. pieces' = Append(pieces, new)
      BY <1>1, <1>a
    <2> HIDE DEF Piece
    <2>3. QED BY <2>1, <2>2
  <1>3. TypeOK'
    <2>1. new \in [first : 1..Len(input), last : 1..Len(input), text : 0..Len(input)]
      BY <1>0, <1>1, <1>a
    <2>2. pieces' \in Seq([first : 1..Len(input), last : 1..Len(input), text : 0..Len(input)])
      BY <2>1, <1>1, <1>a DEF IInv, TypeOK
    <2>3. pos' \in 0..Len(input)
      BY <1>0, <1>1
    <2>4. QED BY <1>0, <2>2, <2>3 DEF TypeOK, Fgets
  <1>4. PiecesOK'
    <2>1. PieceOK(new)'
      <3>1. last - (pos + 1) + 1 <= BufferSize - 1
        <4>1. pos + 1 \in Int /\ last \in Int /\ pos + 1 <= last
          BY <1>0, <1>1
        <4>2. \A k \in pos + 1 .. last - 1 : ~Filled(pos + 1, k)
          BY <1>1
        <4>3. QED BY <4>1, <4>2, PieceFits
      <3>2. QED BY <3>1, <1>0, <1>1, <1>a DEF PieceOK, Filled, IsText
    <2>2. ASSUME NEW n \in DOMAIN pieces PROVE PieceOK(pieces[n])'
      <3>1. PieceOK(pieces[n]) /\ pieces'[n] = pieces[n]
        BY <1>2 DEF IInv, PiecesOK
      <3>2. pieces[n].last \in Int
        BY PieceTyped, <1>0 DEF IInv
      <3>3. QED BY <3>1, <3>2, <1>0, <1>1 DEF PieceOK, IsText, Filled
    <2>3. QED
      <3>1. ASSUME NEW n \in DOMAIN pieces' PROVE PieceOK(pieces[n])'
        <4>1. CASE n \in DOMAIN pieces BY <4>1, <2>2
        <4>2. CASE n = Len(pieces) + 1
          <5>1. pieces'[n] = new
            BY <4>2, <1>2
          <5>2. QED BY <5>1, <2>1 DEF PieceOK, IsText, Filled
        <4>3. QED BY <4>1, <4>2, <1>2
      <3>2. QED BY <3>1 DEF PiecesOK
  <1>5. Covered'
    <2>1. ASSUME NEW k \in 1..last
          PROVE  \E n \in DOMAIN pieces' : pieces'[n].first <= k /\ k <= pieces'[n].last
      <3>1. CASE k <= pos
        <4>1. k \in 1..pos
          BY <1>0, <3>1
        <4>2. PICK n \in DOMAIN pieces : pieces[n].first <= k /\ k <= pieces[n].last
          BY <4>1 DEF IInv, Covered
        <4>3. QED BY <1>2, <4>2
      <3>2. CASE k > pos
        BY <3>2, <1>0, <1>1, <1>2, <1>a
      <3>3. QED BY <3>1, <3>2, <1>0
    <2>2. QED BY <2>1, <1>1 DEF Covered
  <1>6. QED BY <1>3, <1>4, <1>5 DEF IInv

LEMMA StepInvariant == IInv /\ [RunShell]_vars => IInv'
  <1> SUFFICES ASSUME IInv, [RunShell]_vars PROVE IInv'
    OBVIOUS
  <1>1. CASE Fgets
    BY <1>1, FgetsInvariant
  <1>2. CASE Executed \/ EndOfInput \/ ReadError \/ UNCHANGED vars
    BY <1>2 DEF Executed, EndOfInput, ReadError, vars, IInv, TypeOK, PiecesOK, PieceOK,
                Covered, Filled, IsText
  <1>3. QED BY <1>1, <1>2 DEF RunShell

\* The inductive invariant: every piece is what fgets and the conversion make it, and
\* together they hold every byte that was read.
THEOREM LineReaderInvariant == Spec => []IInv
  <1>1. QED BY InitInvariant, StepInvariant, PTL DEF Spec

\* Every variable of the reader keeps its type: no read goes past the end of stdin.
THEOREM LineReaderTyped == Spec => []TypeOK
  <1>1. IInv => TypeOK
    BY DEF IInv
  <1>2. QED BY <1>1, LineReaderInvariant, PTL

\* The piece that holds the first byte of such a line starts there, for a newline is
\* before it, and ends with the line, which fits.
LEMMA Whole == IInv => ShortLinesWhole
  <1> SUFFICES ASSUME IInv, NEW a \in 1..pos, NEW b \in a..pos, IsLine(a, b),
                      b - a + 1 <= BufferSize - 1, \A k \in a..b : input[k] # "null"
               PROVE  \E n \in DOMAIN pieces :
                        pieces[n] = [first |-> a, last |-> b, text |-> b]
    BY DEF ShortLinesWhole
  <1>0. Len(input) \in Nat /\ pos \in 0..Len(input) /\ a \in Int /\ b \in Int /\ a <= b
        /\ b <= pos /\ BufferSize \in Int
    BY InputsAssumption, BufferAssumption DEF IInv, TypeOK
  <1>1. PICK n \in DOMAIN pieces : pieces[n].first <= a /\ a <= pieces[n].last
    BY DEF IInv, Covered
  <1> DEFINE p == pieces[n]
  <1>2. /\ p \in [first : 1..Len(input), last : 1..Len(input), text : 0..Len(input)]
        /\ PieceOK(p)
    BY PieceTyped DEF IInv, PiecesOK
  <1> HIDE DEF p
  <1>3. /\ p.first \in Int /\ p.last \in Int /\ p.text \in Int
        /\ p.first <= a /\ a <= p.last /\ 1 <= p.first
        /\ p = [first |-> p.first, last |-> p.last, text |-> p.text]
    <2>1. p.first <= a /\ a <= p.last
      BY <1>1 DEF p
    <2>2. QED BY <2>1, <1>2, <1>0
  <1>4. p.first = a
    <2>1. SUFFICES ASSUME p.first < a PROVE FALSE
      BY <1>3, <1>0
    <2>2. a - 1 \in p.first .. p.last - 1
      <3>1. PICK first \in Int, last \in Int : first = p.first /\ last = p.last
        BY <1>3
      <3>2. first < a /\ a <= last
        BY <1>3, <2>1, <3>1
      <3>3. a - 1 \in first .. last - 1
        BY <1>0, <3>2
      <3>4. QED BY <3>1, <3>3
    <2>3. input[a - 1] # "newline"
      BY <2>2, <1>2 DEF PieceOK
    <2>4. QED BY <2>1, <2>3, <1>3, <1>0 DEF IsLine
  <1>5. p.last = b
    <2>1. p.last <= b
      <3>1. SUFFICES ASSUME b < p.last PROVE FALSE
        BY <1>3, <1>0
      <3>2. b \in p.first .. p.last - 1
        BY <3>1, <1>4, <1>3, <1>0
      <3>3. QED BY <3>2, <1>2 DEF PieceOK, IsLine
    <2>2. ~(p.last < b)
      <3>1. SUFFICES ASSUME p.last < b PROVE FALSE
        OBVIOUS
      <3>2. input[p.last] # "newline"
        <4>1. p.last \in a .. b - 1
          BY <3>1, <1>3, <1>0
        <4>2. QED BY <4>1 DEF IsLine
      <3>3. ~Filled(p.first, p.last)
        BY <3>1, <1>4, <1>3, <1>0 DEF Filled
      <3>4. p.last # Len(input)
        BY <3>1, <1>0
      <3>5. QED BY <3>2, <3>3, <3>4, <1>2 DEF PieceOK
    <2>3. QED BY <2>1, <2>2, <1>3, <1>0
  <1>6. p.text = b
    <2>1. p.text >= a - 1 /\ p.text <= b /\ IsText(a, b, p.text)
      BY <1>2, <1>4, <1>5 DEF PieceOK
    <2>2. SUFFICES ASSUME p.text # b PROVE FALSE
      OBVIOUS
    <2>3. p.text + 1 \in a..b
      BY <2>1, <2>2, <1>3, <1>0
    <2>4. QED BY <2>1, <2>2, <2>3 DEF IsText
  <1>7. QED BY <1>3, <1>4, <1>5, <1>6 DEF p

\* A line that fits into the buffer and holds no null character is one script, whole and
\* alone, whatever was read before it and for every size of the buffer.
THEOREM LineReaderWhole == Spec => []ShortLinesWhole
  <1>1. QED BY Whole, LineReaderInvariant, PTL

-----------------------------------------------------------------------------
(* Where a line is cut *)

\* A full buffer, without the null at its end.
Room == BufferSize - 1

\* The line that byte k is of starts at byte a.
StartsLine(a, k) ==
  /\ a \in 1..k
  /\ a = 1 \/ input[a - 1] = "newline"
  /\ \A j \in a .. k - 1 : input[j] # "newline"

\* A piece starts a number of full buffers after the start of its line ...
Aligned(first) == \E m \in Nat : StartsLine(first - m * Room, first)

\* ... and the newest piece ends where the reader is.
CutInv ==
  /\ \A n \in DOMAIN pieces : Aligned(pieces[n].first)
  /\ pos > 0 => pieces # <<>> /\ pieces[Len(pieces)].last = pos

LEMMA Multiple == ASSUME NEW w \in Nat \ {0}, NEW m \in Int, m >= 1 PROVE m * w >= w
  <1>1. PICK k \in Nat : m = k + 1
    <2>1. m - 1 \in Nat /\ m = (m - 1) + 1
      OBVIOUS
    <2>2. QED BY <2>1
  <1>2. m * w = k * w + w
    BY <1>1
  <1>3. k * w \in Nat
    OBVIOUS
  <1>4. QED BY <1>2, <1>3

LEMMA DivMod ==
  ASSUME NEW w \in Nat \ {0}, NEW x \in Int
  PROVE  x \div w \in Int /\ x % w \in 0 .. w - 1 /\ x = (x \div w) * w + (x % w)
  OBVIOUS

\* After m full buffers, r bytes more are a multiple of the buffer when they fill it.
LEMMA FullBuffers ==
  ASSUME NEW w \in Nat \ {0}, NEW m \in Nat, NEW r \in 1..w
  PROVE  (m * w + r) % w = 0 <=> r = w
  <1>1. PICK x \in Int : x = m * w + r
    OBVIOUS
  <1>2. PICK q \in Int, d \in 0 .. w - 1 : x = q * w + d /\ x % w = d
    BY DivMod
  <1>3. PICK e \in Int : e = m - q
    OBVIOUS
  <1>4. e * w = d - r
    <2>1. e * w = m * w - q * w
      BY <1>3
    <2>2. QED BY <1>1, <1>2, <2>1
  <1>5. d - r < w /\ r - d <= w /\ d \in Int /\ r \in Int
    OBVIOUS
  <1>6. CASE e >= 1
    BY <1>4, <1>5, <1>6, Multiple
  <1>7. CASE e = 0
    BY <1>1, <1>2, <1>4, <1>7
  <1>8. CASE e <= -1
    <2>1. PICK f \in Int : f = -e /\ f >= 1
      BY <1>8
    <2>2. f * w = r - d
      BY <1>4, <1>5, <2>1
    <2>3. f * w >= w
      BY <2>1, Multiple
    <2>4. r = w /\ d = 0
      BY <1>5, <2>2, <2>3
    <2>5. QED BY <1>1, <1>2, <2>4
  <1>9. QED BY <1>6, <1>7, <1>8

\* There is one start of a line, the one of LineStart.
LEMMA LineStartIs ==
  ASSUME NEW k \in Nat, NEW a \in Int, StartsLine(a, k)
  PROVE  LineStart(k) = a
  <1> DEFINE S == {0} \cup {j \in 1 .. k - 1 : input[j] = "newline"}
  <1>1. a - 1 \in S
    BY DEF StartsLine
  <1>2. \A y \in S : a - 1 >= y
    BY DEF StartsLine
  <1>3. \A x \in S : (\A y \in S : x >= y) => x = a - 1
    BY <1>1, <1>2
  <1> HIDE DEF S
  <1>4. Max(S) = a - 1
    BY <1>1, <1>2, <1>3 DEF Max
  <1>5. QED BY <1>4 DEF LineStart, S

LEMMA CutBegins == Init => CutInv
  BY DEF Init, CutInv

\* A line that has begun goes on over bytes that do not end it.
LEMMA LineGoesOn ==
  ASSUME NEW a \in Int, NEW first \in Nat, NEW last \in Nat, first <= last,
         StartsLine(a, first), \A k \in first..last : input[k] # "newline"
  PROVE  StartsLine(a, last + 1)
  <1>1. a \in 1..first /\ (a = 1 \/ input[a - 1] = "newline")
        /\ \A k \in a .. first - 1 : input[k] # "newline"
    BY DEF StartsLine
  <1>2. a \in 1 .. last + 1
    BY <1>1
  <1>3. ASSUME NEW k \in a .. (last + 1) - 1
        PROVE  k \in a .. first - 1 \/ k \in first..last
    BY <1>1
  <1>4. \A k \in a .. (last + 1) - 1 : input[k] # "newline"
    BY <1>1, <1>3
  <1>5. QED BY <1>1, <1>2, <1>4 DEF StartsLine

\* One full buffer more leads back to the same place.
LEMMA OneRoomMore ==
  ASSUME NEW m \in Nat, NEW room \in Nat, NEW first \in Int, NEW next \in Int,
         next = first + room
  PROVE  next - (m + 1) * room = first - m * room
  <1>1. PICK whole \in Int : whole = m * room
    OBVIOUS
  <1>2. (m + 1) * room = m * room + room
    OBVIOUS
  <1>3. next - (whole + room) = first - whole
    OBVIOUS
  <1>4. QED BY <1>1, <1>2, <1>3

\* fgets goes on where the newest piece ended: behind a newline a line starts, behind a
\* full buffer the line goes on.
LEMMA CutFgets == IInv /\ CutInv /\ Fgets => CutInv'
  <1> SUFFICES ASSUME IInv, CutInv, Fgets PROVE CutInv'
    OBVIOUS
  <1>1. /\ Len(input) \in Nat /\ pos \in 0..Len(input) /\ input' = input
        /\ Room \in Nat \ {0} /\ BufferSize = Room + 1
    BY InputsAssumption, BufferAssumption DEF IInv, TypeOK, Fgets, Room
  <1>2. PICK last \in pos + 1 .. Len(input),
             new \in [first : 1..Len(input), last : 1..Len(input), text : 0..Len(input)] :
          /\ pieces' = Append(pieces, new) /\ pos' = last
          /\ new.first = pos + 1 /\ new.last = last
    <2>1. PICK last \in pos + 1 .. Len(input), text \in pos .. Len(input) :
            /\ pieces' = Append(pieces, [first |-> pos + 1, last |-> last, text |-> text])
            /\ pos' = last
      BY DEF Fgets
    <2>2. [first |-> pos + 1, last |-> last, text |-> text]
            \in [first : 1..Len(input), last : 1..Len(input), text : 0..Len(input)]
      BY <1>1
    <2>3. QED BY <2>1, <2>2
  <1>3. /\ DOMAIN pieces = 1..Len(pieces) /\ Len(pieces) \in Nat
        /\ DOMAIN pieces' = 1 .. Len(pieces) + 1 /\ Len(pieces') = Len(pieces) + 1
        /\ pieces' # <<>>
        /\ \A n \in DOMAIN pieces : pieces'[n] = pieces[n]
        /\ pieces'[Len(pieces) + 1] = new
    <2> DEFINE Piece == [first : 1..Len(input), last : 1..Len(input), text : 0..Len(input)]
    <2>1. pieces \in Seq(Piece) /\ new \in Piece
      BY <1>2 DEF IInv, TypeOK
    <2> HIDE DEF Piece
    <2>2. QED BY <1>2, <2>1
  <1>4. Aligned(pos + 1)
    <2>1. CASE pos = 0
      <3>1. StartsLine(1, 1) /\ 0 * Room = 0
        BY <1>1 DEF StartsLine
      <3>2. pos + 1 = 1 /\ 1 - 0 * Room = 1 /\ 0 \in Nat
        BY <2>1, <3>1
      <3>3. QED BY <3>1, <3>2 DEF Aligned
    <2>2. CASE pos > 0
      <3>1. PICK p : p = pieces[Len(pieces)] /\ p.last = pos /\ Len(pieces) \in DOMAIN pieces
        <4>1. pieces # <<>> /\ pieces[Len(pieces)].last = pos
          BY <2>2 DEF CutInv
        <4>2. Len(pieces) \in DOMAIN pieces
          <5>1. Len(pieces) # 0
            BY <4>1 DEF IInv, TypeOK
          <5>2. QED BY <1>3, <5>1
        <4>3. QED BY <4>1, <4>2
      <3>2. /\ p.first \in Nat /\ p.first <= pos /\ PieceOK(p) /\ Aligned(p.first)
        <4>1. PieceOK(p) /\ Aligned(p.first)
          BY <3>1 DEF IInv, PiecesOK, CutInv
        <4>2. p \in [first : 1..Len(input), last : 1..Len(input), text : 0..Len(input)]
          BY <3>1, PieceTyped DEF IInv
        <4>3. p.first \in 1..Len(input)
          BY <4>2
        <4>4. p.first \in Nat
          BY <1>1, <4>3
        <4>5. p.first <= p.last
          BY <4>1 DEF PieceOK
        <4>6. QED BY <3>1, <4>1, <4>4, <4>5
      <3>3. CASE input[pos] = "newline"
        <4>1. StartsLine(pos + 1, pos + 1) /\ 0 * Room = 0
          BY <1>1, <3>3 DEF StartsLine
        <4>2. (pos + 1) - 0 * Room = pos + 1 /\ 0 \in Nat
          BY <1>1, <4>1
        <4>3. QED BY <4>1, <4>2 DEF Aligned
      <3>4. CASE input[pos] # "newline"
        <4>1. PICK first \in Nat : first = p.first /\ first <= pos
          BY <3>2
        <4>2. pos + 1 = first + Room
          <5>1. Filled(p.first, pos)
            <6>1. pos # Len(input)
              BY <1>1, <1>2
            <6>2. QED BY <3>1, <3>2, <3>4, <6>1 DEF PieceOK
          <5>2. pos - first + 1 = BufferSize - 1
            BY <4>1, <5>1 DEF Filled
          <5>3. QED BY <1>1, <4>1, <5>2
        <4>3. PICK m \in Nat : StartsLine(first - m * Room, first)
          BY <3>2, <4>1 DEF Aligned
        <4>4. PICK a \in Int : a = first - m * Room
          BY <1>1, <4>1
        <4>5. a = (pos + 1) - (m + 1) * Room
          <5>1. Room \in Nat /\ first \in Int /\ pos + 1 \in Int
            BY <1>1
          <5>2. QED BY <4>2, <4>4, <5>1, OneRoomMore
        <4>6. \A k \in first..pos : input[k] # "newline"
          <5>1. \A k \in first .. pos - 1 : input[k] # "newline"
            BY <3>1, <3>2, <4>1 DEF PieceOK
          <5>2. \A k \in first..pos : k = pos \/ k \in first .. pos - 1
            BY <1>1, <4>1
          <5>3. QED BY <3>4, <5>1, <5>2
        <4>7. StartsLine(a, pos + 1)
          <5>1. StartsLine(a, first) /\ pos \in Nat
            BY <1>1, <4>3, <4>4
          <5>2. QED BY <4>1, <4>6, <5>1, LineGoesOn
        <4>8. m + 1 \in Nat /\ StartsLine((pos + 1) - (m + 1) * Room, pos + 1)
          BY <4>5, <4>7
        <4>9. QED BY <4>8 DEF Aligned
      <3>5. QED BY <3>3, <3>4
    <2>3. QED BY <1>1, <2>1, <2>2
  <1>5. ASSUME NEW n \in DOMAIN pieces' PROVE Aligned(pieces[n].first)'
    <2>1. PICK first : first = pieces'[n].first /\ Aligned(first)
      <3>1. CASE n \in DOMAIN pieces
        BY <1>3, <3>1 DEF CutInv
      <3>2. CASE n = Len(pieces) + 1
        BY <1>2, <1>3, <1>4, <3>2
      <3>3. QED BY <1>3, <3>1, <3>2
    <2>2. QED BY <1>1, <2>1 DEF Aligned, StartsLine, Room
  <1>6. pieces'[Len(pieces')].last = pos'
    BY <1>2, <1>3
  <1>7. QED BY <1>3, <1>5, <1>6 DEF CutInv

LEMMA CutKeeps == IInv /\ CutInv /\ [RunShell]_vars => CutInv'
  <1> SUFFICES ASSUME IInv, CutInv, [RunShell]_vars PROVE CutInv'
    OBVIOUS
  <1>1. CASE Fgets
    BY <1>1, CutFgets
  <1>2. CASE Executed \/ EndOfInput \/ ReadError \/ UNCHANGED vars
    BY <1>2 DEF Executed, EndOfInput, ReadError, vars, CutInv, Aligned, StartsLine, Room
  <1>3. QED BY <1>1, <1>2 DEF RunShell

\* In the piece that holds byte k, the bytes from the start of the line are full buffers
\* and what the piece has up to k.
LEMMA Multiples ==
  ASSUME IInv, CutInv, NEW n \in DOMAIN pieces,
         NEW k \in pieces[n].first .. pieces[n].last
  PROVE  (k - LineStart(k) + 1) % (BufferSize - 1) = 0 <=> Filled(pieces[n].first, k)
  <1>1. PICK p : p = pieces[n] /\ PieceOK(p) /\ Aligned(p.first)
                 /\ p.first \in Nat \ {0} /\ p.last \in Nat
    <2>1. Len(input) \in Nat
      BY InputsAssumption DEF IInv, TypeOK
    <2>2. QED BY <2>1, PieceTyped DEF IInv, PiecesOK, CutInv
  <1>2. Room \in Nat \ {0} /\ BufferSize - 1 = Room /\ BufferSize \in Nat
    BY BufferAssumption DEF Room
  <1>3. k \in Nat /\ p.first <= k /\ k <= p.last
    BY <1>1
  <1>4. PICK m \in Nat : StartsLine(p.first - m * Room, p.first)
    BY <1>1 DEF Aligned
  <1>5. PICK a \in Int : a = p.first - m * Room
    BY <1>1, <1>2
  <1>6. LineStart(k) = a
    <2>1. StartsLine(a, k)
      <3>1. \A j \in p.first .. k - 1 : input[j] # "newline"
        BY <1>1, <1>3 DEF PieceOK
      <3>2. QED BY <1>1, <1>3, <1>4, <1>5, <3>1 DEF StartsLine
    <2>2. QED BY <1>3, <2>1, LineStartIs
  <1>7. PICK r \in 1..Room : r = k - p.first + 1
    BY <1>1, <1>2, <1>3 DEF PieceOK
  <1>8. k - LineStart(k) + 1 = m * Room + r
    <2>1. m * Room \in Int
      BY <1>2
    <2>2. QED BY <1>1, <1>3, <1>5, <1>6, <1>7, <2>1
  <1>9. (m * Room + r) % Room = 0 <=> r = Room
    BY <1>2, FullBuffers
  <1>10. QED BY <1>1, <1>2, <1>7, <1>8, <1>9 DEF Filled

\* The cuts of a line are where its own bytes say.
LEMMA Cuts == IInv /\ CutInv => CutExactly
  <1> SUFFICES ASSUME IInv, CutInv, NEW k \in 1..pos
               PROVE  (\E n \in DOMAIN pieces : pieces[n].last = k) <=>
                        \/ input[k] = "newline" \/ k = Len(input)
                        \/ (k - LineStart(k) + 1) % (BufferSize - 1) = 0
    BY DEF CutExactly
  <1>1. Len(input) \in Nat /\ pos \in 0..Len(input) /\ BufferSize \in Nat
    BY InputsAssumption, BufferAssumption DEF IInv, TypeOK
  <1>2. \A n \in DOMAIN pieces : /\ pieces[n].first \in Nat /\ pieces[n].last \in Nat
                                 /\ pieces[n].last <= Len(input) /\ PieceOK(pieces[n])
    BY <1>1, PieceTyped DEF IInv, PiecesOK
  <1>3. ASSUME NEW n \in DOMAIN pieces, pieces[n].last = k
        PROVE  \/ input[k] = "newline" \/ k = Len(input)
               \/ (k - LineStart(k) + 1) % (BufferSize - 1) = 0
    <2>1. k \in pieces[n].first .. pieces[n].last
      BY <1>2, <1>3 DEF PieceOK
    <2>2. input[k] = "newline" \/ Filled(pieces[n].first, k) \/ k = Len(input)
      BY <1>2, <1>3 DEF PieceOK
    <2>3. QED BY <2>1, <2>2, Multiples
  <1>4. PICK n \in DOMAIN pieces : pieces[n].first <= k /\ k <= pieces[n].last
    BY DEF IInv, Covered
  <1>5. k \in pieces[n].first .. pieces[n].last
    BY <1>1, <1>2, <1>4
  <1>6. CASE input[k] = "newline" \/ k = Len(input)
    <2>1. k = pieces[n].last
      BY <1>1, <1>2, <1>5, <1>6 DEF PieceOK
    <2>2. QED BY <1>6, <2>1
  <1>7. CASE (k - LineStart(k) + 1) % (BufferSize - 1) = 0
    <2>1. Filled(pieces[n].first, k)
      BY <1>5, <1>7, Multiples
    <2>2. k = pieces[n].last
      BY <1>1, <1>2, <1>5, <2>1 DEF PieceOK, Filled
    <2>3. QED BY <1>7, <2>2
  <1>8. QED BY <1>3, <1>6, <1>7

\* The pieces of a line end at every multiple of BufferSize - 1 bytes, at its newline, and
\* where stdin ends, and nowhere else, whatever the lines before it were.
THEOREM LineReaderCuts == Spec => []CutExactly
  <1>1. CutInv /\ IInv /\ [RunShell]_vars => CutInv'
    BY CutKeeps
  <1>2. QED BY <1>1, CutBegins, Cuts, LineReaderInvariant, PTL DEF Spec

-----------------------------------------------------------------------------
(* The loop of RunShell gets on *)

\* The steps that are left at most: two for each byte that was not read, a line to be
\* executed, and the end.
Remaining ==
  2 * (Len(input) - pos)
    + (IF state = "execute" THEN 2 ELSE IF state = "read" THEN 1 ELSE 0)

GetsOn == Remaining \in Nat /\ Remaining' \in Nat /\ Remaining' < Remaining

LEMMA ReaderGetsOn == ASSUME IInv, RunShell PROVE GetsOn
  <1>1. Len(input) \in Nat /\ pos \in 0..Len(input)
    BY InputsAssumption DEF IInv, TypeOK
  <1>2. CASE Fgets
    <2>1. PICK last \in pos + 1 .. Len(input) : pos' = last
      BY <1>2 DEF Fgets
    <2>2. state = "read" /\ state' = "execute" /\ input' = input
      BY <1>2 DEF Fgets
    <2>3. Remaining = 2 * (Len(input) - pos) + 1
      BY <2>2 DEF Remaining
    <2>4. Remaining' = 2 * (Len(input) - last) + 2
      BY <2>1, <2>2 DEF Remaining
    <2>5. QED BY <1>1, <2>3, <2>4 DEF GetsOn
  <1>3. CASE Executed
    BY <1>1, <1>3 DEF Executed, GetsOn, Remaining
  <1>4. CASE EndOfInput \/ ReadError
    BY <1>1, <1>4 DEF EndOfInput, ReadError, GetsOn, Remaining
  <1>5. QED BY <1>2, <1>3, <1>4 DEF RunShell

\* Every step of the loop uses up input or a line that was read, whatever is in them: it
\* cannot go round for ever.
THEOREM LineReaderGetsOn == Spec => [][GetsOn]_vars
  <1>1. IInv /\ [RunShell]_vars => [GetsOn]_vars
    BY ReaderGetsOn
  <1>2. QED BY <1>1, LineReaderInvariant, PTL DEF Spec
=============================================================================
