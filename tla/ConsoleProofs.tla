--------------------------- MODULE ConsoleProofs ---------------------------
(* What node-mini delivers of its output, for any number of calls, arguments *)
(* and lines.                                                                *)
EXTENDS Console, SequenceTheorems, FiniteSetTheorems, TLAPS

Kinds == {"script", "result", "exception", "origin", "trace"}
Tokens == [call : Nat, is : Conversions \cup {"Error: ", " ", "newline"}]
Frames == [call : Nat, for : Printers \cup Kinds, left : Int]

\* The parts of TypeOK that the proof needs.
Typed ==
  /\ calls \in Seq([fn : Printers, args : 0..MaxArgs])
  /\ stack \in Seq(Frames)
  /\ out \in Seq(Tokens)
  /\ sent \in Nat

\* The outermost frame is the script, or what the shell or main does with its outcome;
\* every other one is a call of print or print_error.
Shape == \A k \in DOMAIN stack : stack[k].for \in Printers <=> k > 1

\* Where no call is active, only results of the prompt are in the buffer.
Unsent == Len(stack) <= 1 => \A k \in DOMAIN out : k > sent => out[k].call = 0

IInv == Typed /\ Shape /\ Unsent /\ LinesDelivered

-----------------------------------------------------------------------------
(* The sequences *)

\* A frame is pushed.
LEMMA Push ==
  ASSUME NEW s \in Seq(Frames), NEW x \in Frames
  PROVE  /\ Append(s, x) \in Seq(Frames) /\ Len(Append(s, x)) = Len(s) + 1
         /\ \A k \in DOMAIN Append(s, x) :
              Append(s, x)[k] = IF k = Len(s) + 1 THEN x ELSE s[k]
  OBVIOUS

\* The innermost frame is popped.
LEMMA Pop ==
  ASSUME NEW s \in Seq(Frames), s # <<>>
  PROVE  /\ Front(s) \in Seq(Frames) /\ Len(Front(s)) = Len(s) - 1
         /\ \A k \in DOMAIN Front(s) : Front(s)[k] = s[k]
         /\ Last(s) \in Frames /\ Last(s) = s[Len(s)] /\ Len(s) \in Nat \ {0}
  <1>1. Len(s) \in Nat \ {0}
    BY EmptySeq
  <1>2. PICK n \in Nat : n = Len(s) - 1 /\ Front(s) = SubSeq(s, 1, n)
    BY <1>1 DEF Front
  <1>3. /\ SubSeq(s, 1, n) \in Seq(Frames) /\ Len(SubSeq(s, 1, n)) = n
        /\ \A k \in 1..n : SubSeq(s, 1, n)[k] = s[k]
    <2>1. /\ SubSeq(s, 1, n) \in Seq(Frames)
          /\ Len(SubSeq(s, 1, n)) = IF 1 <= n THEN n - 1 + 1 ELSE 0
          /\ \A k \in 1..(n - 1 + 1) : SubSeq(s, 1, n)[k] = s[1 + k - 1]
      BY <1>2, SubSeqProperties
    <2>2. \A k \in 1..n : k \in 1..(n - 1 + 1) /\ 1 + k - 1 = k
      OBVIOUS
    <2>3. (IF 1 <= n THEN n - 1 + 1 ELSE 0) = n
      OBVIOUS
    <2>4. QED BY <2>1, <2>2, <2>3
  <1>4. DOMAIN SubSeq(s, 1, n) = 1..n
    BY <1>3
  <1>5. s[Len(s)] \in Frames
    BY <1>1
  <1>6. QED
    BY <1>1, <1>2, <1>3, <1>4, <1>5 DEF Last

\* A frame has an argument less to convert.
LEMMA Lowers ==
  ASSUME NEW s \in Seq(Frames), NEW n \in 1..Len(s), NEW t,
         t = [s EXCEPT ![n].left = @ - 1]
  PROVE  /\ t \in Seq(Frames) /\ Len(t) = Len(s) /\ DOMAIN t = DOMAIN s
         /\ \A k \in DOMAIN t : t[k].call = s[k].call /\ t[k].for = s[k].for
         /\ \A k \in DOMAIN t : k # n => t[k].left = s[k].left
         /\ t[n].left = s[n].left - 1
  <1>1. ASSUME NEW f \in Frames
        PROVE  \E y \in Frames : /\ y = [f EXCEPT !.left = @ - 1] /\ y.for = f.for
                                 /\ y.call = f.call /\ y.left = f.left - 1
    <2>1. PICK c \in Nat, what \in Printers \cup Kinds, left \in Int :
            f = [call |-> c, for |-> what, left |-> left]
      BY DEF Frames
    <2>2. left - 1 \in Int
      OBVIOUS
    <2>3. PICK y : y = [call |-> c, for |-> what, left |-> left - 1]
      OBVIOUS
    <2>4. y \in Frames
      BY <2>2, <2>3 DEF Frames
    <2>5. y = [f EXCEPT !.left = @ - 1]
      BY <2>1, <2>3
    <2>6. QED BY <2>1, <2>3, <2>4, <2>5
  <1>2. PICK y \in Frames : /\ y = [s[n] EXCEPT !.left = @ - 1] /\ y.for = s[n].for
                            /\ y.call = s[n].call /\ y.left = s[n].left - 1
    <2>1. s[n] \in Frames
      OBVIOUS
    <2>2. QED BY <1>1, <2>1
  <1>3. t = [s EXCEPT ![n] = y]
    BY <1>2
  <1>4. /\ t \in Seq(Frames) /\ Len(t) = Len(s)
        /\ \A k \in 1..Len(s) : t[k] = IF k = n THEN y ELSE s[k]
    BY <1>3, ExceptSeq
  <1>5. DOMAIN t = 1..Len(s) /\ DOMAIN s = 1..Len(s)
    BY <1>4
  <1>6. ASSUME NEW k \in DOMAIN t
        PROVE  /\ t[k].call = s[k].call /\ t[k].for = s[k].for
               /\ k # n => t[k].left = s[k].left
    BY <1>2, <1>4, <1>5
  <1>7. t[n].left = s[n].left - 1
    BY <1>2, <1>4
  <1>8. QED BY <1>4, <1>5, <1>6, <1>7

\* Tokens are written behind what is there.
LEMMA Writes ==
  ASSUME NEW s \in Seq(Tokens), NEW t \in Seq(Tokens)
  PROVE  /\ s \o t \in Seq(Tokens) /\ Len(s \o t) = Len(s) + Len(t)
         /\ \A k \in DOMAIN (s \o t) :
              (s \o t)[k] = IF k <= Len(s) THEN s[k] ELSE t[k - Len(s)]
  OBVIOUS
-----------------------------------------------------------------------------
(* What the actions do to the stack and to the stream *)

\* fflush leaves nothing in the buffer.
LEMMA Flushed ==
  ASSUME Typed, NEW tokens \in Seq(Tokens), NEW c \in Nat, EndLine(tokens, c)
  PROVE  /\ out' \in Seq(Tokens) /\ sent' \in Nat
         /\ \A k \in DOMAIN out' : k <= sent'
  <1>1. Token(c, "newline") \in Tokens
    BY DEF Token, Tokens
  <1>2. out \o tokens \in Seq(Tokens) /\ <<Token(c, "newline")>> \in Seq(Tokens)
    BY <1>1, Writes DEF Typed
  <1>3. out' = (out \o tokens) \o <<Token(c, "newline")>> /\ sent' = Len(out')
    BY DEF EndLine
  <1>4. out' \in Seq(Tokens)
    BY <1>2, <1>3, Writes
  <1>5. QED
    BY <1>3, <1>4

\* So a step that ends a line keeps what is said of the stream.
LEMMA FlushKeeps ==
  ASSUME out' \in Seq(Tokens), \A k \in DOMAIN out' : k <= sent', sent' \in Nat
  PROVE  Unsent' /\ LinesDelivered'
  <1>1. \A k \in DOMAIN out' : ~(k > sent')
    <2> TAKE k \in DOMAIN out'
    <2>1. k \in Nat /\ k <= sent'
      OBVIOUS
    <2>2. QED BY <2>1
  <1>2. QED
    BY <1>1 DEF Unsent, LinesDelivered

\* Tokens that end no line of a call, written and left in the buffer.
LEMMA WritesKeep ==
  ASSUME Typed, LinesDelivered, NEW t \in Seq(Tokens), out' = out \o t, sent' = sent,
         \A k \in DOMAIN t : t[k].call = 0 \/ t[k].is # "newline"
  PROVE  out' \in Seq(Tokens) /\ LinesDelivered'
  <1> USE DEF Typed
  <1>1. /\ out' \in Seq(Tokens) /\ Len(out') = Len(out) + Len(t)
        /\ \A k \in DOMAIN out' : out'[k] = IF k <= Len(out) THEN out[k]
                                                          ELSE t[k - Len(out)]
    BY Writes
  <1>2. ASSUME NEW k \in DOMAIN out', out'[k].call # 0, out'[k].is = "newline"
        PROVE  k <= sent
    <2>1. k \in 1..(Len(out) + Len(t)) /\ Len(out) \in Nat /\ Len(t) \in Nat
      BY <1>1
    <2>2. CASE k <= Len(out)
      BY <1>1, <1>2, <2>1, <2>2 DEF LinesDelivered
    <2>3. CASE ~(k <= Len(out))
      <3>1. k - Len(out) \in DOMAIN t
        BY <2>1, <2>3
      <3>2. out'[k] = t[k - Len(out)]
        BY <1>1, <2>3
      <3>3. QED BY <1>2, <3>1, <3>2
    <2>4. QED BY <2>2, <2>3
  <1>3. QED
    BY <1>1, <1>2 DEF LinesDelivered

\* A token is what it was made of.
LEMMA TokenTyped ==
  ASSUME NEW c \in Nat, NEW text \in Conversions \cup {"Error: ", " ", "newline"}
  PROVE  /\ Token(c, text) \in Tokens
         /\ Token(c, text).call = c /\ Token(c, text).is = text
  BY DEF Token, Tokens

\* One or two tokens are a sequence of them.
LEMMA FewTokens ==
  ASSUME NEW x \in Tokens, NEW y \in Tokens
  PROVE  /\ <<x>> \in Seq(Tokens) /\ DOMAIN <<x>> = {1} /\ <<x>>[1] = x
         /\ <<x, y>> \in Seq(Tokens) /\ DOMAIN <<x, y>> = {1, 2}
         /\ <<x, y>>[1] = x /\ <<x, y>>[2] = y
  OBVIOUS

\* A frame is what it was made of.
LEMMA FrameTyped ==
  ASSUME NEW c \in Nat, NEW what \in Printers \cup Kinds, NEW n \in Int
  PROVE  Frame(c, what, n) \in Frames /\ Frame(c, what, n).for = what
  BY DEF Frame, Frames

\* What is not a call of print waits alone.
LEMMA WaitsAlone ==
  ASSUME Typed, Shape, NEW what \in Kinds, Waiting(what)
  PROVE  Len(stack) = 1 /\ stack # <<>>
  <1>1. stack # <<>> /\ Last(stack).for = what
    BY DEF Waiting, JavaScript
  <1>2. Last(stack) = stack[Len(stack)] /\ Len(stack) \in Nat \ {0}
    BY <1>1, Pop DEF Typed
  <1>3. Len(stack) \in DOMAIN stack /\ what \notin Printers
    BY <1>2 DEF Typed, Kinds, Printers
  <1>4. ~(Len(stack) > 1)
    BY <1>1, <1>2, <1>3 DEF Shape
  <1>5. ASSUME NEW n \in Nat \ {0}, ~(n > 1) PROVE n = 1
    BY <1>5
  <1>6. QED
    BY <1>1, <1>2, <1>4, <1>5

\* Its frame goes, or another of its kind takes its place.
LEMMA AloneKeeps ==
  ASSUME Typed, Shape, Len(stack) = 1, stack # <<>>, NEW what \in Kinds,
         stack' = Front(stack) \/ BecomesTop(what)
  PROVE  stack' \in Seq(Frames) /\ Shape' /\ Len(stack') <= 1
  <1>1. /\ Front(stack) \in Seq(Frames) /\ Len(Front(stack)) = 0
    <2>1. Front(stack) \in Seq(Frames) /\ Len(Front(stack)) = Len(stack) - 1
      BY Pop DEF Typed
    <2>2. QED BY <2>1
  <1>2. CASE stack' = Front(stack)
    <2>1. stack' \in Seq(Frames) /\ Len(stack') = 0
      BY <1>1, <1>2
    <2>2. DOMAIN stack' = {}
      BY <2>1
    <2>3. QED BY <2>1, <2>2 DEF Shape
  <1>3. CASE BecomesTop(what)
    <2>1. PICK x \in Frames : x = Frame(0, what, 0) /\ x.for = what
      BY FrameTyped
    <2>2. stack' = Append(Front(stack), x)
      BY <1>3, <2>1 DEF BecomesTop
    <2>3. /\ stack' \in Seq(Frames) /\ Len(stack') = 1
          /\ \A k \in DOMAIN stack' : stack'[k] = IF k = 1 THEN x ELSE Front(stack)[k]
      BY <1>1, <2>2, Push
    <2>4. DOMAIN stack' = {1}
      BY <2>3
    <2>5. what \notin Printers
      BY DEF Printers, Kinds
    <2>6. QED BY <2>1, <2>3, <2>4, <2>5 DEF Shape
  <1>4. QED BY <1>2, <1>3

-----------------------------------------------------------------------------
(* The invariant *)

LEMMA InitInvariant == Init => IInv
  <1> SUFFICES ASSUME Init PROVE IInv
    OBVIOUS
  <1>1. Frame(0, "script", 0) \in Frames /\ Frame(0, "script", 0).for = "script"
    BY FrameTyped DEF Kinds
  <1>2. stack \in Seq(Frames) /\ Shape
    <2>1. CASE stack = <<>>
      BY <2>1 DEF Shape
    <2>2. CASE stack = <<Frame(0, "script", 0)>>
      BY <1>1, <2>2 DEF Shape, Printers
    <2>3. QED BY <2>1, <2>2 DEF Init
  <1>3. calls \in Seq([fn : Printers, args : 0..MaxArgs]) /\ out \in Seq(Tokens)
        /\ sent \in Nat /\ DOMAIN out = {}
    BY DEF Init
  <1>4. QED
    BY <1>2, <1>3 DEF IInv, Typed, Unsent, LinesDelivered

\* A call of print is a frame above the one that called it.
LEMMA CallInvariant ==
  ASSUME IInv, NEW fn \in Printers, NEW n \in 0..MaxArgs, CallPrint(fn, n)
  PROVE  IInv'
  <1> USE DEF IInv
  <1>1. PICK c \in Nat : c = Len(calls) + 1
    BY DEF Typed
  <1>2. Start(fn, c) \in Seq(Tokens)
        /\ \A k \in DOMAIN Start(fn, c) : Start(fn, c)[k].is # "newline"
    <2>1. PICK x \in Tokens : x = Token(c, "Error: ") /\ x.is = "Error: "
      BY TokenTyped
    <2>2. /\ <<x>> \in Seq(Tokens) /\ DOMAIN <<x>> = {1} /\ <<x>>[1] = x
          /\ <<>> \in Seq(Tokens)
      BY FewTokens
    <2>3. Start(fn, c) = <<x>> \/ Start(fn, c) = <<>>
      BY <2>1 DEF Start
    <2>4. CASE Start(fn, c) = <<x>>
      <3>1. \A k \in {1} : <<x>>[k].is # "newline"
        BY <2>1, <2>2
      <3>2. QED BY <2>2, <2>4, <3>1
    <2>5. CASE Start(fn, c) = <<>>
      BY <2>2, <2>5
    <2>6. QED BY <2>3, <2>4, <2>5
  <1>3. calls' \in Seq([fn : Printers, args : 0..MaxArgs])
    BY DEF CallPrint, Typed
  <1>4. CASE n = 0
    <2>1. EndLine(Start(fn, c), c) /\ stack' = stack
      BY <1>1, <1>4 DEF CallPrint
    <2>2. /\ out' \in Seq(Tokens) /\ sent' \in Nat
          /\ \A k \in DOMAIN out' : k <= sent'
      BY <1>2, <2>1, Flushed
    <2>3. QED
      BY <1>3, <2>1, <2>2, FlushKeeps DEF Typed, Shape
  <1>5. CASE n # 0
    <2>1. out' = out \o Start(fn, c) /\ sent' = sent
      BY <1>1, <1>5 DEF CallPrint
    <2>2. PICK x \in Frames : x = Frame(c, fn, n) /\ x.for = fn
      <3>1. n \in Int
        BY ConsoleAssumption
      <3>2. QED BY <3>1, FrameTyped
    <2>3. stack' = Append(stack, x) /\ stack # <<>>
      BY <1>1, <1>5, <2>2 DEF CallPrint, JavaScript
    <2>4. /\ stack' \in Seq(Frames) /\ Len(stack') = Len(stack) + 1
          /\ \A k \in DOMAIN stack' : stack'[k] = IF k = Len(stack) + 1 THEN x ELSE stack[k]
      BY <2>3, Push DEF Typed
    <2>5. Len(stack) \in Nat \ {0}
      BY <2>3, Pop DEF Typed
    <2>6. Shape'
      <3>1. ASSUME NEW k \in DOMAIN stack' PROVE stack'[k].for \in Printers <=> k > 1
        <4>1. CASE k = Len(stack) + 1
          BY <4>1, <2>2, <2>4, <2>5
        <4>2. CASE k # Len(stack) + 1
          <5>1. k \in DOMAIN stack /\ stack'[k] = stack[k]
            BY <4>2, <2>4, <2>5 DEF Typed
          <5>2. QED BY <5>1 DEF Shape
        <4>3. QED BY <4>1, <4>2
      <3>2. QED BY <3>1 DEF Shape
    <2>7. ~(Len(stack') <= 1)
      BY <2>4, <2>5
    <2>8. out' \in Seq(Tokens) /\ LinesDelivered'
      BY <1>2, <2>1, WritesKeep
    <2>9. QED
      BY <1>3, <2>1, <2>4, <2>6, <2>7, <2>8 DEF Typed, Unsent
  <1>6. QED BY <1>4, <1>5

\* An argument is written; with the last one the line ends and the call returns.
LEMMA ConvertedInvariant == ASSUME IInv, Converted PROVE IInv'
  <1> USE DEF IInv
  <1>1. PICK text \in Conversions, top \in Frames :
          /\ top = Last(stack) /\ top = stack[Len(stack)] /\ top.for \in Printers
          /\ stack # <<>> /\ Len(stack) \in Nat \ {0}
          /\ IF top.left = 1
               THEN EndLine(<<Token(top.call, text)>>, top.call) /\ stack' = Front(stack)
               ELSE /\ out' = out \o <<Token(top.call, text), Token(top.call, " ")>>
                    /\ stack' = [stack EXCEPT ![Len(stack)].left = @ - 1]
                    /\ UNCHANGED sent
    <2>1. stack # <<>> /\ Last(stack).for \in Printers
      BY DEF Converted, JavaScript
    <2>2. Last(stack) \in Frames /\ Last(stack) = stack[Len(stack)]
          /\ Len(stack) \in Nat \ {0}
      BY <2>1, Pop DEF Typed
    <2>3. QED BY <2>1, <2>2 DEF Converted
  <1>2. calls' = calls
    BY DEF Converted
  <1>3. top.call \in Nat /\ top.left \in Int
    BY DEF Frames
  <1>7. PICK n \in Nat \ {0} : n = Len(stack) /\ DOMAIN stack = 1..n /\ stack[n] = top
    <2>1. Len(stack) \in Nat \ {0} /\ top = stack[Len(stack)]
      BY <1>1
    <2>2. QED BY <2>1 DEF Typed
  <1>8. n > 1 /\ stack \in Seq(Frames)
    <2>1. top.for \in Printers
      BY <1>1
    <2>2. QED BY <1>7, <2>1 DEF Typed, Shape
  <1>4. CASE top.left = 1
    <2>1. <<Token(top.call, text)>> \in Seq(Tokens)
      BY <1>3, TokenTyped, FewTokens
    <2>2. /\ out' \in Seq(Tokens) /\ sent' \in Nat
          /\ \A k \in DOMAIN out' : k <= sent'
      BY <1>1, <1>3, <1>4, <2>1, Flushed
    <2>3. /\ stack' \in Seq(Frames) /\ Len(stack') = Len(stack) - 1
          /\ \A k \in DOMAIN stack' : stack'[k] = stack[k]
      BY <1>1, <1>4, Pop DEF Typed
    <2>4. DOMAIN stack' \subseteq DOMAIN stack
      <3>1. DOMAIN stack' = 1..(n - 1)
        BY <1>7, <2>3
      <3>2. 1..(n - 1) \subseteq 1..n
        OBVIOUS
      <3>3. QED BY <1>7, <3>1, <3>2
    <2>5. Shape'
      BY <2>3, <2>4 DEF Shape
    <2>6. QED
      BY <1>2, <2>2, <2>3, <2>5, FlushKeeps DEF Typed
  <1>5. CASE top.left # 1
    <2>1. PICK t \in Seq(Tokens) :
            t = <<Token(top.call, text), Token(top.call, " ")>>
            /\ \A k \in DOMAIN t : t[k].is # "newline"
      <3>1. Token(top.call, text) \in Tokens /\ Token(top.call, " ") \in Tokens
            /\ Token(top.call, text).is # "newline" /\ Token(top.call, " ").is # "newline"
        <4>1. /\ Token(top.call, text) \in Tokens /\ Token(top.call, text).is = text
              /\ Token(top.call, " ") \in Tokens /\ Token(top.call, " ").is = " "
          BY <1>3, TokenTyped
        <4>2. QED BY <4>1 DEF Conversions
      <3>2. PICK x \in Tokens, y \in Tokens :
              /\ x = Token(top.call, text) /\ y = Token(top.call, " ")
              /\ x.is # "newline" /\ y.is # "newline"
        BY <3>1
      <3>3. /\ <<x, y>> \in Seq(Tokens) /\ DOMAIN <<x, y>> = {1, 2}
            /\ <<x, y>>[1] = x /\ <<x, y>>[2] = y
        BY FewTokens
      <3>4. \A k \in DOMAIN <<x, y>> : <<x, y>>[k].is # "newline"
        BY <3>2, <3>3
      <3>5. QED BY <3>2, <3>3, <3>4
    <2>2. out' \in Seq(Tokens) /\ LinesDelivered'
      BY <1>1, <1>5, <2>1, WritesKeep
    <2>3. /\ stack' \in Seq(Frames) /\ Len(stack') = Len(stack)
          /\ \A k \in DOMAIN stack' : stack'[k].for = stack[k].for
      <3>1. stack' = [stack EXCEPT ![n].left = @ - 1]
        BY <1>1, <1>5, <1>7
      <3>2. n \in 1..Len(stack)
        BY <1>7
      <3>3. /\ stack' \in Seq(Frames) /\ Len(stack') = Len(stack)
            /\ DOMAIN stack' = DOMAIN stack
            /\ \A k \in DOMAIN stack' : stack'[k].call = stack[k].call
                                       /\ stack'[k].for = stack[k].for
        BY <1>8, <3>1, <3>2, Lowers
      <3>4. QED BY <3>3
    <2>4. Shape'
      <3>1. DOMAIN stack' = DOMAIN stack
        BY <1>8, <2>3
      <3>2. QED BY <2>3, <3>1 DEF Shape, Typed
    <2>5. ~(Len(stack') <= 1)
      BY <1>7, <1>8, <2>3
    <2>6. QED
      BY <1>1, <1>2, <1>5, <2>2, <2>3, <2>4, <2>5 DEF Typed, Unsent
  <1>6. QED BY <1>4, <1>5

\* The steps between a script and the prompt: no call of print is active there.
LEMMA OutcomeInvariant ==
  ASSUME IInv, Evaluated \/ PrintResult \/ Threw \/ ReportStep
  PROVE  IInv'
  <1> USE DEF IInv
  <1>1. PICK what \in Kinds : Waiting(what)
    BY DEF Evaluated, PrintResult, Threw, ReportStep, ReportBare, NameOrigin,
           ReportHead, ReportTrace, Kinds
  <1>2. Len(stack) = 1 /\ stack # <<>>
    BY <1>1, WaitsAlone
  <1>3. PICK next \in Kinds : stack' = Front(stack) \/ BecomesTop(next)
    BY DEF Evaluated, PrintResult, Threw, ReportStep, ReportBare, NameOrigin,
           ReportHead, ReportTrace, Kinds
  <1>4. stack' \in Seq(Frames) /\ Shape'
    BY <1>2, <1>3, AloneKeeps
  <1>5. calls' = calls /\ sent' = sent
    BY DEF Evaluated, PrintResult, Threw, ReportStep, ReportBare, NameOrigin,
           ReportHead, ReportTrace
  <1>6. CASE PrintResult
    <2>1. PICK text \in Conversions :
            out' = out \o <<Token(0, text), Token(0, "newline")>>
      BY <1>6 DEF PrintResult
    <2>2. PICK x \in Tokens, y \in Tokens :
            /\ x = Token(0, text) /\ y = Token(0, "newline")
            /\ x.call = 0 /\ y.call = 0
      <3>1. /\ Token(0, text) \in Tokens /\ Token(0, text).call = 0
            /\ Token(0, "newline") \in Tokens /\ Token(0, "newline").call = 0
        BY TokenTyped
      <3>2. QED BY <3>1
    <2>3. PICK t \in Seq(Tokens) : t = <<x, y>> /\ \A k \in DOMAIN t : t[k].call = 0
      <3>1. \A k \in {1, 2} : <<x, y>>[k].call = 0
        BY <2>2, FewTokens
      <3>2. <<x, y>> \in Seq(Tokens) /\ DOMAIN <<x, y>> = {1, 2}
        BY FewTokens
      <3>3. \A k \in DOMAIN <<x, y>> : <<x, y>>[k].call = 0
        BY <3>1, <3>2
      <3>4. QED BY <3>2, <3>3
    <2>4. out' \in Seq(Tokens) /\ LinesDelivered'
      BY <1>5, <2>1, <2>2, <2>3, WritesKeep
    <2>5. ASSUME NEW k \in DOMAIN out', k > sent PROVE out'[k].call = 0
      <3>1. /\ DOMAIN out' = 1..(Len(out) + Len(t))
            /\ out'[k] = IF k <= Len(out) THEN out[k] ELSE t[k - Len(out)]
            /\ Len(out) \in Nat /\ Len(t) \in Nat /\ DOMAIN t = 1..Len(t)
        BY <2>1, <2>2, <2>3, Writes DEF Typed
      <3>2. CASE k <= Len(out)
        <4>1. k \in DOMAIN out
          BY <3>1, <3>2 DEF Typed
        <4>2. QED BY <1>2, <2>5, <3>1, <3>2, <4>1 DEF Unsent
      <3>3. CASE ~(k <= Len(out))
        <4>1. k - Len(out) \in DOMAIN t
          BY <3>1, <3>3
        <4>2. QED BY <2>3, <3>1, <3>3, <4>1
      <3>4. QED BY <3>2, <3>3
    <2>6. QED
      BY <1>4, <1>5, <2>4, <2>5 DEF Typed, Unsent
  <1>7. CASE out' = out
    BY <1>2, <1>4, <1>5, <1>7 DEF Typed, Unsent, LinesDelivered
  <1>8. QED
    BY <1>6, <1>7 DEF Evaluated, Threw, ReportStep, ReportBare, NameOrigin,
                      ReportHead, ReportTrace

\* The prompt, the ways the process ends, and a part of the buffer that goes out.
LEMMA ProcessInvariant ==
  ASSUME IInv, ReadLine \/ Exit \/ Quit \/ Abort \/ Drain
  PROVE  IInv'
  <1> USE DEF IInv
  <1>1. calls' = calls /\ out' = out
    BY DEF ReadLine, Exit, Quit, Abort, Drain
  <1>2. CASE ReadLine
    <2>1. PICK x \in Frames : x = Frame(0, "script", 0) /\ x.for = "script"
      <3>1. "script" \in Printers \cup Kinds /\ 0 \in Nat /\ 0 \in Int
        BY DEF Kinds
      <3>2. QED BY <3>1, FrameTyped
    <2>2. stack = <<>> /\ stack' = <<x>> /\ sent' = sent
      BY <1>2, <2>1 DEF ReadLine
    <2>3. stack' \in Seq(Frames) /\ Len(stack) = 0
      BY <2>2
    <2>4. Shape'
      BY <2>1, <2>2 DEF Shape, Printers
    <2>5. QED
      BY <1>1, <2>2, <2>3, <2>4 DEF Typed, Unsent, LinesDelivered
  <1>3. CASE Abort
    BY <1>1, <1>3 DEF Abort, Typed, Shape, Unsent, LinesDelivered
  <1>4. CASE Exit \/ Quit
    <2>1. stack' = stack /\ sent' = Len(out)
      BY <1>4 DEF Exit, Quit
    <2>2. Len(out) \in Nat /\ \A k \in DOMAIN out : k <= Len(out)
      BY DEF Typed
    <2>3. Unsent' /\ LinesDelivered'
      <3>1. out' \in Seq(Tokens) /\ sent' \in Nat /\ \A k \in DOMAIN out' : k <= sent'
        BY <1>1, <2>1, <2>2 DEF Typed
      <3>2. QED BY <3>1, FlushKeeps
    <2>4. QED
      BY <1>1, <2>1, <2>2, <2>3 DEF Typed, Shape
  <1>5. CASE Drain
    <2>1. stack' = stack /\ sent' \in Nat /\ sent' > sent
      BY <1>5 DEF Drain, Typed
    <2>2. \A k \in DOMAIN out : (k > sent' => k > sent) /\ (k <= sent => k <= sent')
      BY <2>1 DEF Typed
    <2>3. QED
      BY <1>1, <2>1, <2>2 DEF Typed, Shape, Unsent, LinesDelivered
  <1>6. QED BY <1>2, <1>3, <1>4, <1>5

LEMMA StepInvariant == IInv /\ [Next]_vars => IInv'
  <1> SUFFICES ASSUME IInv, [Next]_vars PROVE IInv'
    OBVIOUS
  <1>1. CASE UNCHANGED vars
    BY <1>1 DEF vars, IInv, Typed, Shape, Unsent, LinesDelivered
  <1>2. ASSUME NEW n \in 0..MaxArgs,
               (\E fn \in Printers : CallPrint(fn, n)) \/ ConsoleLog(n) \/ ConsoleError(n)
        PROVE  IInv'
    <2>1. PICK fn \in Printers : CallPrint(fn, n)
      BY <1>2 DEF ConsoleLog, ConsoleError, Printers
    <2>2. QED BY <2>1, CallInvariant
  <1>3. CASE ReportException \/ parseException
    BY <1>3, OutcomeInvariant DEF ReportException, parseException
  <1>4. QED
    BY <1>1, <1>2, <1>3, ConvertedInvariant, OutcomeInvariant, ProcessInvariant DEF Next

\* The inductive invariant: what is on the stack, and what the buffer may hold.
THEOREM ConsoleInvariant == Safety => []IInv
  <1>1. QED BY InitInvariant, StepInvariant, PTL DEF Safety

-----------------------------------------------------------------------------
(* The properties *)

\* Whatever runs within its conversions: the line of a call that has returned is
\* delivered, with everything that was written before it.
THEOREM ConsoleDelivers == Safety => []LinesDelivered
  <1>1. IInv => LinesDelivered
    BY DEF IInv
  <1>2. QED BY <1>1, ConsoleInvariant, PTL

\* stderr is written where no call is active.
LEMMA ErrAlone ==
  ASSUME IInv, Next, err' # err
  PROVE  Len(stack) <= 1
  <1> USE DEF IInv
  <1>1. ReportStep \/ ReadLine \/ Exit
    BY DEF Next, CallPrint, ConsoleLog, ConsoleError, Converted, Evaluated, PrintResult,
           Threw, ReportException, parseException, Quit, Abort, Drain
  <1>2. CASE ReportStep
    <2>1. PICK what \in Kinds : Waiting(what)
      BY <1>2 DEF ReportStep, ReportBare, NameOrigin, ReportHead, ReportTrace, Kinds
    <2>2. Len(stack) = 1
      BY <2>1, WaitsAlone
    <2>3. QED BY <2>2
  <1>3. CASE ReadLine \/ Exit
    <2>1. stack = <<>>
      BY <1>3 DEF ReadLine, Exit
    <2>2. QED BY <2>1
  <1>4. QED BY <1>1, <1>2, <1>3

\* What goes to stderr overtakes no output of print.
THEOREM ConsoleOrdered == Safety => InProgramOrder
  <1>1. IInv /\ [Next]_vars =>
          [err' # err => \A k \in (sent + 1)..Len(out) : out[k].call = 0]_vars
    <2> SUFFICES ASSUME IInv, Next, err' # err, NEW k \in (sent + 1)..Len(out)
                 PROVE  out[k].call = 0
      BY DEF vars
    <2>1. k \in DOMAIN out /\ k > sent
      BY DEF IInv, Typed
    <2>2. QED BY <2>1, ErrAlone DEF IInv, Unsent
  <1>2. QED BY <1>1, ConsoleInvariant, PTL DEF Safety, InProgramOrder

-----------------------------------------------------------------------------
(* The lines *)

Mine(s, c) == {k \in DOMAIN s : s[k].call = c}
Count(s, c) == Cardinality(Mine(s, c))

\* What call c wrote to s are the parts of a line, in order.
Fits(s, c, line) ==
  \A k \in Mine(s, c) : Part(s[k]) = line[Cardinality({j \in Mine(s, c) : j <= k})]

\* Prefix, Length and Line of a call r.
PrefixOf(r) == IF r.fn = "print_error" THEN 1 ELSE 0
LengthOf(r) == PrefixOf(r) + (IF r.args = 0 THEN 1 ELSE 2 * r.args)
LineOf(r) ==
  [k \in 1..LengthOf(r) |-> CASE k <= PrefixOf(r) -> "Error: "
                              [] k = LengthOf(r) -> "newline"
                              [] OTHER -> IF (k - PrefixOf(r)) % 2 = 1 THEN "argument" ELSE " "]

\* The outermost frame is of no call, and any other of a call of its own, which has
\* arguments left.
FramesInv ==
  \A k \in DOMAIN stack :
    /\ stack[k].left \in 0..MaxArgs
    /\ k = 1 => stack[k].call = 0
    /\ k > 1 => /\ stack[k].call \in DOMAIN calls
                /\ stack[k].left \in 1..calls[stack[k].call].args
    /\ \A j \in DOMAIN stack : stack[j].call = stack[k].call => j = k

TokensInv == \A k \in DOMAIN out : out[k].call \in 0..Len(calls)

\* A call has written the parts of its line up to the next argument, or all of them.
ProgressInv ==
  \A c \in DOMAIN calls :
    /\ Fits(out, c, LineOf(calls[c]))
    /\ \A k \in DOMAIN stack : stack[k].call = c =>
         Count(out, c) = PrefixOf(calls[c]) + 2 * (calls[c].args - stack[k].left)
    /\ ~Active(c) => Count(out, c) = LengthOf(calls[c])

\* The parts of TypeOK that nothing else depends on.
RestTyped ==
  /\ mode \in {"shell", "file"} /\ Len(calls) <= MaxCalls /\ sent <= Len(out)
  /\ err \in Seq({"prompt", "report", "trace", "newline"})
  /\ lines \in 0..MaxLines
  /\ status \in {"running", "exited", "aborted"}

LInv == IInv /\ FramesInv /\ TokensInv /\ ProgressInv /\ RestTyped

\* One token more: it is counted for the call it is of, and is the next part of its line.
LEMMA OneMore ==
  ASSUME NEW s \in Seq(Tokens), NEW x \in Tokens, NEW c
  PROVE  /\ Count(s, c) \in Nat
         /\ Count(Append(s, x), c) = Count(s, c) + IF x.call = c THEN 1 ELSE 0
         /\ \A line : Fits(s, c, line) /\ (x.call = c => Part(x) = line[Count(s, c) + 1])
                        => Fits(Append(s, x), c, line)
  <1>1. PICK n \in Nat : /\ n = Len(s) /\ DOMAIN s = 1..n
                         /\ DOMAIN Append(s, x) = 1 .. n + 1
                         /\ \A k \in 1..n : Append(s, x)[k] = s[k]
                         /\ Append(s, x)[n + 1] = x
    OBVIOUS
  <1>2. PICK old \in SUBSET (1..n) : old = Mine(s, c)
    BY <1>1 DEF Mine
  <1>3. IsFiniteSet(old) /\ Cardinality(old) \in Nat /\ n + 1 \notin old
    <2>1. IsFiniteSet(1..n) /\ n + 1 \notin 1..n
      BY FS_Interval
    <2>2. IsFiniteSet(old)
      BY <2>1, FS_Subset
    <2>3. QED BY <2>1, <2>2, FS_CardinalityType
  <1>4. PICK new : new = Mine(Append(s, x), c)
                   /\ new = IF x.call = c THEN old \cup {n + 1} ELSE old
    <2>1. 1 .. n + 1 = 1..n \cup {n + 1}
      OBVIOUS
    <2>2. Mine(Append(s, x), c) = IF x.call = c THEN old \cup {n + 1} ELSE old
      BY <1>1, <1>2, <2>1 DEF Mine
    <2>3. QED BY <2>2
  <1>5. Cardinality(new) = Cardinality(old) + IF x.call = c THEN 1 ELSE 0
    <2>1. Cardinality(old \cup {n + 1}) = Cardinality(old) + 1
      BY <1>3, FS_AddElement
    <2>2. QED BY <1>3, <1>4, <2>1
  <1>6. ASSUME NEW line, Fits(s, c, line), x.call = c => Part(x) = line[Count(s, c) + 1],
               NEW k \in new
        PROVE  Part(Append(s, x)[k]) = line[Cardinality({j \in new : j <= k})]
    <2>1. CASE k \in old
      <3>1. {j \in new : j <= k} = {j \in old : j <= k}
        BY <1>2, <1>4, <2>1
      <3>2. Part(s[k]) = line[Cardinality({j \in old : j <= k})]
        BY <1>2, <1>6, <2>1 DEF Fits
      <3>3. QED BY <1>1, <1>2, <2>1, <3>1, <3>2
    <2>2. CASE k \notin old
      <3>1. k = n + 1 /\ x.call = c
        BY <1>4, <1>6, <2>2
      <3>2. {j \in new : j <= k} = new
        BY <1>2, <1>4, <3>1
      <3>3. Cardinality(new) = Count(s, c) + 1
        BY <1>2, <1>5, <3>1 DEF Count
      <3>4. QED BY <1>1, <1>6, <3>1, <3>2, <3>3
    <2>3. QED BY <2>1, <2>2
  <1>7. \A line : Fits(s, c, line) /\ (x.call = c => Part(x) = line[Count(s, c) + 1])
                    => Fits(Append(s, x), c, line)
    BY <1>4, <1>6 DEF Fits
  <1>8. QED BY <1>2, <1>3, <1>4, <1>5, <1>7 DEF Count

\* Nothing is written of a call that no token is of.
LEMMA NoneYet ==
  ASSUME NEW s, NEW c, \A k \in DOMAIN s : s[k].call # c
  PROVE  Count(s, c) = 0 /\ \A line : Fits(s, c, line)
  <1>1. Mine(s, c) = {}
    BY DEF Mine
  <1>2. QED BY <1>1, FS_EmptySet DEF Count, Fits

Call == [fn : Printers, args : 0..MaxArgs]

\* The parts of a line.
LEMMA LineParts ==
  ASSUME NEW r \in Call
  PROVE  /\ r.args \in Nat /\ PrefixOf(r) \in {0, 1} /\ LengthOf(r) \in Nat
         /\ PrefixOf(r) < LengthOf(r)
         /\ LineOf(r)[LengthOf(r)] = "newline"
         /\ r.fn = "print_error" => PrefixOf(r) = 1 /\ LineOf(r)[1] = "Error: "
         /\ r.fn # "print_error" => PrefixOf(r) = 0
         /\ r.args = 0 => LengthOf(r) = PrefixOf(r) + 1
         /\ \A n \in 0 .. r.args - 1 :
              /\ LineOf(r)[PrefixOf(r) + 2 * n + 1] = "argument"
              /\ n < r.args - 1 => LineOf(r)[PrefixOf(r) + 2 * n + 2] = " "
              /\ n = r.args - 1 => LengthOf(r) = PrefixOf(r) + 2 * n + 2
              /\ PrefixOf(r) + 2 * n < LengthOf(r)
  <1>1. r.args \in Nat
    BY ConsoleAssumption DEF Call
  <1>2. PICK p \in Nat : p = PrefixOf(r) /\ p \in {0, 1}
    BY DEF PrefixOf
  <1>3. PICK l \in Nat : /\ l = LengthOf(r) /\ p < l
                         /\ l = p + (IF r.args = 0 THEN 1 ELSE 2 * r.args)
    BY <1>1, <1>2 DEF LengthOf
  <1>4. ASSUME NEW k \in 1..l
        PROVE  LineOf(r)[k] = IF k <= p THEN "Error: " ELSE IF k = l THEN "newline"
                              ELSE IF (k - p) % 2 = 1 THEN "argument" ELSE " "
    <2>1. LineOf(r)[k] = CASE k <= p -> "Error: " [] k = l -> "newline"
                           [] OTHER -> IF (k - p) % 2 = 1 THEN "argument" ELSE " "
      BY <1>2, <1>3 DEF LineOf
    <2>2. ~(k <= p /\ k = l)
      BY <1>2, <1>3
    <2>3. QED BY <2>1, <2>2
  <1>5. LineOf(r)[l] = "newline"
    <2>1. l \in 1..l /\ ~(l <= p)
      BY <1>2, <1>3
    <2>2. QED BY <1>4, <2>1
  <1>6. r.fn = "print_error" => p = 1 /\ LineOf(r)[1] = "Error: "
    <2>1. r.fn = "print_error" => p = 1 /\ 1 \in 1..l /\ 1 <= p
      BY <1>2, <1>3 DEF PrefixOf
    <2>2. QED BY <1>4, <2>1
  <1>7. ASSUME NEW n \in 0 .. r.args - 1
        PROVE  /\ LineOf(r)[p + 2 * n + 1] = "argument"
               /\ n < r.args - 1 => LineOf(r)[p + 2 * n + 2] = " "
               /\ n = r.args - 1 => l = p + 2 * n + 2
               /\ p + 2 * n < l
    <2>1. n \in Nat /\ l = p + 2 * r.args /\ p \in Int /\ n <= r.args - 1
      BY <1>1, <1>2, <1>3
    <2>2. p + 2 * n + 1 \in 1..l /\ ~(p + 2 * n + 1 <= p) /\ p + 2 * n + 1 # l
          /\ ((p + 2 * n + 1) - p) % 2 = 1
      BY <1>1, <2>1
    <2>3. n < r.args - 1 =>
            /\ p + 2 * n + 2 \in 1..l /\ ~(p + 2 * n + 2 <= p) /\ p + 2 * n + 2 # l
            /\ ((p + 2 * n + 2) - p) % 2 # 1
      BY <1>1, <2>1
    <2>4. LineOf(r)[p + 2 * n + 1] = "argument"
      BY <1>4, <2>2
    <2>5. n < r.args - 1 => LineOf(r)[p + 2 * n + 2] = " "
      BY <1>4, <2>3
    <2>6. (n = r.args - 1 => l = p + 2 * n + 2) /\ p + 2 * n < l
      BY <1>1, <2>1
    <2>7. QED BY <2>4, <2>5, <2>6
  <1>8. QED BY <1>1, <1>2, <1>3, <1>5, <1>6, <1>7 DEF PrefixOf

\* t is s and tokens of call c behind it.
Adds(s, t, c) ==
  /\ t \in Seq(Tokens)
  /\ \A k \in DOMAIN t : t[k].call = c \/ \E j \in DOMAIN s : s[j].call = t[k].call
  /\ \A d : d # c => /\ Count(t, d) = Count(s, d)
                     /\ \A line : Fits(s, d, line) => Fits(t, d, line)

LEMMA AddsOne ==
  ASSUME NEW s \in Seq(Tokens), NEW x \in Tokens
  PROVE  Adds(s, Append(s, x), x.call)
  <1>1. Append(s, x) \in Seq(Tokens)
    OBVIOUS
  <1>2. PICK n \in Nat : /\ DOMAIN s = 1..n /\ DOMAIN Append(s, x) = 1 .. n + 1
                         /\ \A k \in 1..n : Append(s, x)[k] = s[k]
                         /\ Append(s, x)[n + 1] = x
    OBVIOUS
  <1>3. ASSUME NEW k \in DOMAIN Append(s, x)
        PROVE  Append(s, x)[k].call = x.call
               \/ \E j \in DOMAIN s : s[j].call = Append(s, x)[k].call
    <2>1. k = n + 1 \/ k \in 1..n
      BY <1>2
    <2>2. QED BY <1>2, <2>1
  <1>4. ASSUME NEW d, d # x.call
        PROVE  /\ Count(Append(s, x), d) = Count(s, d)
               /\ \A line : Fits(s, d, line) => Fits(Append(s, x), d, line)
    BY <1>4, OneMore
  <1>5. QED BY <1>1, <1>3, <1>4 DEF Adds

LEMMA AddsMore ==
  ASSUME NEW s, NEW t, NEW u, NEW c, Adds(s, t, c), Adds(t, u, c)
  PROVE  Adds(s, u, c)
  <1>1. ASSUME NEW k \in DOMAIN u
        PROVE  u[k].call = c \/ \E j \in DOMAIN s : s[j].call = u[k].call
    <2>1. CASE u[k].call = c
      BY <2>1
    <2>2. CASE u[k].call # c
      <3>1. PICK i \in DOMAIN t : t[i].call = u[k].call
        BY <2>2 DEF Adds
      <3>2. QED BY <2>2, <3>1 DEF Adds
    <2>3. QED BY <2>1, <2>2
  <1>2. QED BY <1>1 DEF Adds

\* One or two tokens are written one after the other.
LEMMA OneByOne ==
  ASSUME NEW s \in Seq(Tokens), NEW x \in Tokens, NEW y \in Tokens
  PROVE  /\ s \o <<>> = s /\ s \o <<x>> = Append(s, x)
         /\ s \o <<x, y>> = Append(Append(s, x), y)
  <1>1. s \o <<>> = s
    BY ConcatEmptySeq
  <1>2. s \o <<x>> = Append(s, x)
    BY AppendIsConcat
  <1>3. s \o <<x, y>> = Append(Append(s, x), y)
    <2>1. /\ s \o <<x, y>> \in Seq(Tokens) /\ Append(Append(s, x), y) \in Seq(Tokens)
          /\ Len(s \o <<x, y>>) = Len(s) + 2 /\ Len(Append(Append(s, x), y)) = Len(s) + 2
      OBVIOUS
    <2>2. ASSUME NEW k \in 1 .. Len(s) + 2
          PROVE  (s \o <<x, y>>)[k] = Append(Append(s, x), y)[k]
      OBVIOUS
    <2>3. QED BY <2>1, <2>2, SeqEqual
  <1>4. QED BY <1>1, <1>2, <1>3

\* A call writes its prefix ...
LEMMA WritesPrefix ==
  ASSUME NEW s \in Seq(Tokens), NEW c \in Nat, NEW r \in Call,
         \A k \in DOMAIN s : s[k].call # c, NEW t, t = s \o Start(r.fn, c)
  PROVE  Adds(s, t, c) /\ Count(t, c) = PrefixOf(r) /\ Fits(t, c, LineOf(r))
  <1>1. Count(s, c) = 0 /\ Fits(s, c, LineOf(r))
    BY NoneYet
  <1>2. CASE r.fn = "print_error"
    <2>1. PICK x \in Tokens : x = Token(c, "Error: ") /\ x.call = c /\ x.is = "Error: "
      BY TokenTyped
    <2>2. s \o Start(r.fn, c) = Append(s, x)
      <3>1. Start(r.fn, c) = <<x>>
        BY <1>2, <2>1 DEF Start
      <3>2. QED BY <3>1, OneByOne
    <2>3. Part(x) = "Error: " /\ PrefixOf(r) = 1 /\ LineOf(r)[1] = "Error: "
      BY <1>2, <2>1, LineParts DEF Part, Conversions
    <2>4. Count(s, c) + 1 = 1
      BY <1>1
    <2>5. Count(Append(s, x), c) = Count(s, c) + 1
      <3>1. x.call = c
        BY <2>1
      <3>2. QED BY <3>1, OneMore
    <2>6. Fits(Append(s, x), c, LineOf(r))
      <3>1. Part(x) = LineOf(r)[Count(s, c) + 1]
        BY <2>3, <2>4
      <3>2. QED BY <1>1, <3>1, OneMore
    <2>7. QED BY <2>1, <2>2, <2>3, <2>5, <2>6, <2>4, AddsOne
  <1>3. CASE r.fn # "print_error"
    <2>1. Start(r.fn, c) = <<>>
      BY <1>3 DEF Start
    <2>2. s \o Start(r.fn, c) = s
      BY <2>1, ConcatEmptySeq
    <2>3. PrefixOf(r) = 0
      BY <1>3, LineParts
    <2>4. Adds(s, s, c)
      BY DEF Adds
    <2>5. QED BY <1>1, <2>2, <2>3, <2>4
  <1>4. QED BY <1>2, <1>3

\* ... a part of its line ...
LEMMA WritesPart ==
  ASSUME NEW s \in Seq(Tokens), NEW x \in Tokens, NEW line, Fits(s, x.call, line),
         Part(x) = line[Count(s, x.call) + 1]
  PROVE  /\ Adds(s, Append(s, x), x.call) /\ Append(s, x) \in Seq(Tokens)
         /\ Count(s, x.call) \in Nat /\ Count(Append(s, x), x.call) = Count(s, x.call) + 1
         /\ Fits(Append(s, x), x.call, line)
  <1>1. /\ Count(s, x.call) \in Nat /\ Count(Append(s, x), x.call) = Count(s, x.call) + 1
        /\ Fits(Append(s, x), x.call, line)
    BY OneMore
  <1>2. Adds(s, Append(s, x), x.call)
    BY AddsOne
  <1>3. QED BY <1>1, <1>2 DEF Adds

\* ... as its tokens are.
LEMMA TokenParts ==
  ASSUME NEW c
  PROVE  /\ \A text \in Conversions : Part(Token(c, text)) = "argument"
         /\ Part(Token(c, " ")) = " " /\ Part(Token(c, "newline")) = "newline"
  BY DEF Part, Token, Conversions

-----------------------------------------------------------------------------
(* The steps and the lines *)

\* What is known of any state between two steps.
LEMMA Known ==
  ASSUME LInv
  PROVE  /\ calls \in Seq(Call) /\ out \in Seq(Tokens) /\ stack \in Seq(Frames)
         /\ Len(calls) \in Nat /\ DOMAIN calls = 1..Len(calls)
         /\ Len(stack) \in Nat /\ DOMAIN stack = 1..Len(stack)
         /\ Len(out) \in Nat /\ \A c \in DOMAIN calls : calls[c] \in Call
         /\ \A k \in DOMAIN stack : stack[k].call \in 0..Len(calls)
  <1>1. calls \in Seq(Call) /\ out \in Seq(Tokens) /\ stack \in Seq(Frames)
    BY DEF LInv, IInv, Typed, Call
  <1>2. ASSUME NEW k \in DOMAIN stack PROVE stack[k].call \in 0..Len(calls)
    <2>1. k \in 1..Len(stack) /\ Len(stack) \in Nat /\ Len(calls) \in Nat
          /\ DOMAIN calls = 1..Len(calls)
      BY <1>1
    <2>2. CASE k = 1
      BY <2>1, <2>2 DEF LInv, FramesInv
    <2>3. CASE k > 1
      BY <2>1, <2>3 DEF LInv, FramesInv
    <2>4. QED BY <2>1, <2>2, <2>3
  <1>3. QED BY <1>1, <1>2

\* What a step keeps that writes for call c only, and makes no call.
LEMMA LinesKeep ==
  ASSUME LInv, NEW c \in 0..Len(calls), Adds(out, out', c), calls' = calls
  PROVE  /\ TokensInv'
         /\ \A d \in DOMAIN calls : d # c =>
              /\ Fits(out', d, LineOf(calls[d])) /\ Count(out', d) = Count(out, d)
  <1>1. ASSUME NEW k \in DOMAIN out' PROVE out'[k].call \in 0..Len(calls)
    BY DEF Adds, LInv, TokensInv
  <1>2. QED BY <1>1 DEF Adds, TokensInv, LInv, ProgressInv

\* A call of print: one call more, with its prefix, or with its whole line.
LEMMA CallLines ==
  ASSUME LInv, NEW fn \in Printers, NEW n \in 0..MaxArgs, CallPrint(fn, n)
  PROVE  FramesInv' /\ TokensInv' /\ ProgressInv'
  <1>1. PICK c \in Nat, r \in Call : c = Len(calls) + 1 /\ r = [fn |-> fn, args |-> n]
                                     /\ r.fn = fn /\ r.args = n
    <2>1. [fn |-> fn, args |-> n] \in Call
      BY DEF Call
    <2>2. Len(calls) + 1 \in Nat
      BY Known
    <2>3. QED BY <2>1, <2>2
  <1>2. /\ c \notin DOMAIN calls /\ DOMAIN calls' = DOMAIN calls \cup {c}
        /\ Len(calls') = c /\ Len(calls) = c - 1
        /\ calls'[c] = r /\ \A d \in DOMAIN calls : calls'[d] = calls[d]
    <2>1. calls' = Append(calls, r)
      BY <1>1 DEF CallPrint
    <2>2. QED BY <1>1, <2>1, Known
  <1>3. PICK t : /\ t = out \o Start(fn, c) /\ Adds(out, t, c) /\ t \in Seq(Tokens)
                 /\ Count(t, c) = PrefixOf(r) /\ Fits(t, c, LineOf(r))
    <2>1. \A k \in DOMAIN out : out[k].call # c
      BY <1>2, Known DEF LInv, TokensInv
    <2>2. PICK t : t = out \o Start(r.fn, c)
      OBVIOUS
    <2>3. Adds(out, t, c) /\ Count(t, c) = PrefixOf(r) /\ Fits(t, c, LineOf(r))
      BY <2>1, <2>2, Known, WritesPrefix
    <2>4. QED BY <1>1, <2>2, <2>3 DEF Adds
  <1>4. \A k \in DOMAIN stack : stack[k].call # c
    BY <1>2, Known
  <1>5. Adds(out, out', c) /\ Fits(out', c, LineOf(r))
        /\ IF n = 0 THEN stack' = stack /\ Count(out', c) = LengthOf(r)
           ELSE stack' = Append(stack, Frame(c, fn, n)) /\ Count(out', c) = PrefixOf(r)
    <2>1. CASE n = 0
      <3>1. out' = Append(t, Token(c, "newline")) /\ stack' = stack
        <4>1. out' = t \o <<Token(c, "newline")>> /\ stack' = stack
          BY <1>1, <1>3, <2>1 DEF CallPrint, EndLine
        <4>2. Token(c, "newline") \in Tokens
          BY TokenTyped
        <4>3. QED BY <1>3, <4>1, <4>2, OneByOne
      <3>2. LengthOf(r) = PrefixOf(r) + 1 /\ LineOf(r)[LengthOf(r)] = "newline"
        BY <1>1, <2>1, LineParts
      <3>3. LineOf(r)[Count(t, c) + 1] = Part(Token(c, "newline"))
        BY <1>3, <3>2, TokenParts
      <3>4. Adds(t, out', c) /\ Count(out', c) = Count(t, c) + 1 /\ Fits(out', c, LineOf(r))
        <4>1. PICK x \in Tokens : x = Token(c, "newline") /\ x.call = c
          BY <1>1, TokenTyped
        <4>2. t \in Seq(Tokens) /\ Fits(t, x.call, LineOf(r))
              /\ Part(x) = LineOf(r)[Count(t, x.call) + 1]
          BY <1>3, <3>3, <4>1
        <4>3. /\ Adds(t, Append(t, x), x.call) /\ Fits(Append(t, x), x.call, LineOf(r))
              /\ Count(Append(t, x), x.call) = Count(t, x.call) + 1
          BY <4>2, WritesPart
        <4>4. QED BY <3>1, <4>1, <4>3
      <3>5. QED BY <1>3, <2>1, <3>1, <3>2, <3>4, AddsMore
    <2>2. CASE n # 0
      BY <1>1, <1>3, <2>2 DEF CallPrint
    <2>3. QED BY <2>1, <2>2
  <1>6. TokensInv'
    <2>1. ASSUME NEW k \in DOMAIN out' PROVE out'[k].call \in 0..c
      <3>1. CASE out'[k].call = c
        BY <1>1, <3>1
      <3>2. ASSUME NEW j \in DOMAIN out, out[j].call = out'[k].call PROVE out'[k].call \in 0..c
        BY <1>1, <1>2, <3>2, Known DEF LInv, TokensInv
      <3>3. QED BY <1>5, <3>1, <3>2 DEF Adds
    <2>2. QED BY <1>2, <2>1 DEF TokensInv
  <1>7. /\ stack # <<>> /\ Len(stack) \in Nat \ {0}
        /\ n # 0 => /\ DOMAIN stack' = DOMAIN stack \cup {Len(stack) + 1}
                    /\ stack'[Len(stack) + 1] = Frame(c, fn, n)
                    /\ \A k \in DOMAIN stack : stack'[k] = stack[k]
    <2>1. stack # <<>> /\ stack \in Seq(Frames)
      BY Known DEF CallPrint, JavaScript
    <2>2. Len(stack) \in Nat \ {0}
      BY <2>1, Pop
    <2>3. Frame(c, fn, n) \in Frames
      <3>1. n \in Int
        BY ConsoleAssumption
      <3>2. QED BY <3>1, FrameTyped
    <2>4. PICK x \in Frames, m \in Nat : x = Frame(c, fn, n) /\ m = Len(stack)
      BY <2>2, <2>3
    <2>5. /\ DOMAIN stack = 1..m /\ DOMAIN Append(stack, x) = 1 .. m + 1
          /\ Append(stack, x)[m + 1] = x /\ \A k \in 1..m : Append(stack, x)[k] = stack[k]
      BY <2>1, <2>4
    <2>6. 1 .. m + 1 = 1..m \cup {m + 1}
      OBVIOUS
    <2>7. n # 0 => stack' = Append(stack, x)
      BY <1>5, <2>4
    <2>8. QED BY <2>1, <2>2, <2>4, <2>5, <2>6, <2>7
  <1>8. Frame(c, fn, n).call = c /\ Frame(c, fn, n).left = n
    BY DEF Frame
  <1>9. FramesInv'
    <2>1. ASSUME NEW k \in DOMAIN stack
          PROVE  /\ stack[k].left \in 0..MaxArgs
                 /\ k = 1 => stack[k].call = 0
                 /\ k > 1 => /\ stack[k].call \in DOMAIN calls'
                             /\ stack[k].left \in 1..calls'[stack[k].call].args
                 /\ \A j \in DOMAIN stack : stack[j].call = stack[k].call => j = k
      BY <1>2 DEF LInv, FramesInv
    <2>2. CASE n = 0
      BY <1>5, <2>1, <2>2 DEF FramesInv
    <2>3. CASE n # 0
      <3>1. n \in 1..n /\ n \in 0..MaxArgs /\ Len(stack) + 1 # 1 /\ Len(stack) + 1 > 1
            /\ Len(stack) + 1 \notin DOMAIN stack
        BY <1>7, <2>3, ConsoleAssumption, Known
      <3>2. ASSUME NEW k \in DOMAIN stack'
            PROVE  /\ stack'[k].left \in 0..MaxArgs
                   /\ k = 1 => stack'[k].call = 0
                   /\ k > 1 => /\ stack'[k].call \in DOMAIN calls'
                               /\ stack'[k].left \in 1..calls'[stack'[k].call].args
                   /\ \A j \in DOMAIN stack' : stack'[j].call = stack'[k].call => j = k
        <4>1. CASE k \in DOMAIN stack
          BY <1>4, <1>7, <1>8, <2>1, <2>3, <4>1
        <4>2. CASE k = Len(stack) + 1
          BY <1>1, <1>2, <1>4, <1>7, <1>8, <2>3, <3>1, <4>2
        <4>3. QED BY <1>7, <2>3, <4>1, <4>2
      <3>3. QED BY <3>2 DEF FramesInv
    <2>4. QED BY <2>2, <2>3
  <1>10. ProgressInv'
    <2>1. ASSUME NEW d \in DOMAIN calls
          PROVE  /\ Fits(out', d, LineOf(calls'[d]))
                 /\ \A k \in DOMAIN stack' : stack'[k].call = d =>
                      Count(out', d) = PrefixOf(calls'[d]) + 2 * (calls'[d].args - stack'[k].left)
                 /\ ~Active(d)' => Count(out', d) = LengthOf(calls'[d])
      <3>1. d # c /\ calls'[d] = calls[d]
        BY <1>2
      <3>2. Fits(out', d, LineOf(calls[d])) /\ Count(out', d) = Count(out, d)
        BY <1>5, <3>1 DEF Adds, LInv, ProgressInv
      <3>3. ASSUME NEW k \in DOMAIN stack', stack'[k].call = d
            PROVE  k \in DOMAIN stack /\ stack'[k] = stack[k]
        BY <1>5, <1>7, <1>8, <3>1, <3>3
      <3>4. Active(d) => Active(d)'
        BY <1>5, <1>7 DEF Active
      <3>5. QED BY <3>1, <3>2, <3>3, <3>4 DEF LInv, ProgressInv
    <2>2. ASSUME NEW k \in DOMAIN stack', stack'[k].call = c
          PROVE  Count(out', c) = PrefixOf(r) + 2 * (r.args - stack'[k].left)
      <3>1. n # 0 /\ stack'[k].left = n
        BY <1>4, <1>5, <1>7, <1>8, <2>2
      <3>2. n - n = 0 /\ PrefixOf(r) + 2 * 0 = PrefixOf(r)
        <4>1. n \in Int
          BY ConsoleAssumption
        <4>2. PICK p \in Nat : p = PrefixOf(r)
          BY DEF PrefixOf
        <4>3. n - n = 0 /\ p + 2 * 0 = p
          BY <4>1
        <4>4. QED BY <4>2, <4>3
      <3>3. QED BY <1>1, <1>5, <3>1, <3>2
    <2>3. ~Active(c)' => Count(out', c) = LengthOf(r)
      <3>1. n # 0 => Active(c)'
        BY <1>7, <1>8 DEF Active
      <3>2. QED BY <1>5, <3>1
    <2>4. QED BY <1>2, <1>5, <2>1, <2>2, <2>3 DEF ProgressInv
  <1>11. QED BY <1>6, <1>9, <1>10

\* Two parts of its line are written.
LEMMA WritesPair ==
  ASSUME NEW s \in Seq(Tokens), NEW x \in Tokens, NEW y \in Tokens, y.call = x.call,
         NEW line, Fits(s, x.call, line),
         Part(x) = line[Count(s, x.call) + 1], Part(y) = line[Count(s, x.call) + 2]
  PROVE  /\ Adds(s, s \o <<x, y>>, x.call)
         /\ Count(s \o <<x, y>>, x.call) = Count(s, x.call) + 2
         /\ Fits(s \o <<x, y>>, x.call, line)
  <1>1. /\ Adds(s, Append(s, x), x.call) /\ Append(s, x) \in Seq(Tokens)
        /\ Count(s, x.call) \in Nat /\ Count(Append(s, x), x.call) = Count(s, x.call) + 1
        /\ Fits(Append(s, x), x.call, line)
    BY WritesPart
  <1>2. PICK t \in Seq(Tokens), n \in Nat : t = Append(s, x) /\ n = Count(s, x.call)
    BY <1>1
  <1>3. Count(t, x.call) + 1 = n + 2 /\ Count(t, x.call) = n + 1
    BY <1>1, <1>2
  <1>4. /\ Adds(t, Append(t, y), x.call) /\ Fits(Append(t, y), x.call, line)
        /\ Count(Append(t, y), x.call) = Count(t, x.call) + 1
    <2>1. Fits(t, y.call, line) /\ Part(y) = line[Count(t, y.call) + 1]
      BY <1>1, <1>2, <1>3
    <2>2. QED BY <2>1, WritesPart
  <1>5. s \o <<x, y>> = Append(t, y)
    BY <1>2, OneByOne
  <1>6. QED BY <1>1, <1>2, <1>3, <1>4, <1>5, AddsMore

\* A conversion that returns: the argument is written, and the separator or the newline.
LEMMA ConvertedLines ==
  ASSUME LInv, Converted
  PROVE  FramesInv' /\ TokensInv' /\ ProgressInv'
  <1>1. PICK n \in Nat : /\ n = Len(stack) /\ n > 1 /\ DOMAIN stack = 1..n
                         /\ stack \in Seq(Frames) /\ stack # <<>> /\ Last(stack) = stack[n]
    <2>1. stack # <<>> /\ Last(stack).for \in Printers /\ stack \in Seq(Frames)
      BY Known DEF Converted, JavaScript
    <2>2. PICK n \in Nat \ {0} : n = Len(stack) /\ Last(stack) = stack[n]
      BY <2>1, Pop
    <2>3. DOMAIN stack = 1..n /\ stack[n].for \in Printers
      BY <2>1, <2>2
    <2>4. n > 1
      BY <2>3 DEF LInv, IInv, Shape
    <2>5. QED BY <2>1, <2>2, <2>3, <2>4
  <1>2. PICK c \in DOMAIN calls, r \in Call, left \in Nat :
          /\ c = stack[n].call /\ r = calls[c] /\ left = stack[n].left
          /\ r.args \in Nat /\ left \in 1 .. r.args /\ c \in Nat /\ c # 0
    <2>1. stack[n].call \in DOMAIN calls /\ stack[n].left \in 1..calls[stack[n].call].args
      BY <1>1 DEF LInv, FramesInv
    <2>2. PICK c \in DOMAIN calls, r \in Call : c = stack[n].call /\ r = calls[c]
      BY <2>1, Known
    <2>3. r.args \in Nat /\ stack[n].left \in 1 .. r.args
      BY <2>1, <2>2, LineParts
    <2>4. c \in Nat /\ c # 0
      BY Known
    <2>5. QED BY <2>2, <2>3, <2>4
  <1>3. PICK text \in Conversions :
          IF left = 1 THEN EndLine(<<Token(c, text)>>, c) /\ stack' = Front(stack)
          ELSE /\ out' = out \o <<Token(c, text), Token(c, " ")>>
               /\ stack' = [stack EXCEPT ![n].left = @ - 1]
    BY <1>1, <1>2 DEF Converted
  <1>4. calls' = calls
    BY DEF Converted
  <1>5. PICK p \in Nat, m \in 0 .. r.args - 1 :
          /\ p = PrefixOf(r) /\ m = r.args - left
          /\ Count(out, c) = p + 2 * m /\ Fits(out, c, LineOf(r))
          /\ LineOf(r)[p + 2 * m + 1] = "argument"
          /\ left = 1 => /\ LengthOf(r) = p + 2 * m + 2
                        /\ LineOf(r)[p + 2 * m + 2] = "newline"
          /\ left # 1 => LineOf(r)[p + 2 * m + 2] = " "
    <2>1. PICK p \in Nat, m \in 0 .. r.args - 1 : p = PrefixOf(r) /\ m = r.args - left
      <3>1. r.args - left \in 0 .. r.args - 1
        BY <1>2
      <3>2. QED BY <3>1 DEF PrefixOf
    <2>2. Count(out, c) = p + 2 * m /\ Fits(out, c, LineOf(r))
      <3>1. /\ Fits(out, c, LineOf(calls[c]))
            /\ \A k \in DOMAIN stack : stack[k].call = c =>
                 Count(out, c) = PrefixOf(calls[c]) + 2 * (calls[c].args - stack[k].left)
        BY DEF LInv, ProgressInv
      <3>2. n \in DOMAIN stack /\ stack[n].call = c
        BY <1>1, <1>2
      <3>3. Count(out, c) = PrefixOf(calls[c]) + 2 * (calls[c].args - stack[n].left)
        BY <3>1, <3>2
      <3>4. QED BY <1>2, <2>1, <3>1, <3>3
    <2>3. (left = 1 => m = r.args - 1) /\ (left # 1 => m < r.args - 1)
      BY <1>2, <2>1
    <2>4. QED BY <2>1, <2>2, <2>3, LineParts
  <1>6. Adds(out, out', c) /\ Count(out', c) = p + 2 * m + 2 /\ Fits(out', c, LineOf(r))
    <2>1. PICK x \in Tokens, y \in Tokens :
            /\ x = Token(c, text) /\ y = Token(c, IF left = 1 THEN "newline" ELSE " ")
            /\ x.call = c /\ y.call = c
      <3>1. /\ Token(c, text) \in Tokens /\ Token(c, text).call = c
            /\ Token(c, "newline") \in Tokens /\ Token(c, "newline").call = c
            /\ Token(c, " ") \in Tokens /\ Token(c, " ").call = c
        BY <1>2, TokenTyped
      <3>2. QED BY <3>1
    <2>2. out' = out \o <<x, y>>
      <3>1. CASE left = 1
        <4>1. out' = (out \o <<x>>) \o <<y>>
          BY <1>3, <2>1, <3>1 DEF EndLine
        <4>2. out \in Seq(Tokens)
          BY Known
        <4>3. out \o <<x>> = Append(out, x) /\ Append(out, x) \in Seq(Tokens)
          BY <4>2, OneByOne
        <4>4. Append(out, x) \o <<y>> = Append(Append(out, x), y)
          BY <4>3, OneByOne
        <4>5. QED BY <4>1, <4>2, <4>3, <4>4, OneByOne
      <3>2. CASE left # 1
        BY <1>3, <2>1, <3>2
      <3>3. QED BY <3>1, <3>2
    <2>3. Part(x) = "argument" /\ Part(y) = IF left = 1 THEN "newline" ELSE " "
      BY <2>1, TokenParts
    <2>4. Count(out, c) + 1 = p + 2 * m + 1 /\ Count(out, c) + 2 = p + 2 * m + 2
      BY <1>5
    <2>5. Part(x) = LineOf(r)[Count(out, x.call) + 1] /\ Part(y) = LineOf(r)[Count(out, x.call) + 2]
          /\ Fits(out, x.call, LineOf(r)) /\ y.call = x.call /\ out \in Seq(Tokens)
      BY <1>5, <2>1, <2>3, <2>4, Known
    <2>6. /\ Adds(out, out \o <<x, y>>, x.call)
          /\ Count(out \o <<x, y>>, x.call) = Count(out, x.call) + 2
          /\ Fits(out \o <<x, y>>, x.call, LineOf(r))
      BY <2>5, WritesPair
    <2>7. QED BY <2>1, <2>2, <2>4, <2>6
  <1>7. /\ \A k \in DOMAIN stack' : /\ k \in DOMAIN stack /\ stack'[k].call = stack[k].call
                                    /\ k # n => stack'[k].left = stack[k].left
        /\ \A k \in DOMAIN stack : k # n => k \in DOMAIN stack'
        /\ left = 1 => n \notin DOMAIN stack'
        /\ left # 1 => n \in DOMAIN stack' /\ stack'[n].left = left - 1
    <2>1. CASE left = 1
      <3>1. /\ Front(stack) \in Seq(Frames) /\ Len(Front(stack)) = n - 1
            /\ \A k \in DOMAIN Front(stack) : Front(stack)[k] = stack[k]
        BY <1>1, Pop
      <3>2. DOMAIN Front(stack) = 1 .. n - 1
        BY <3>1
      <3>3. stack' = Front(stack)
        BY <1>3, <2>1
      <3>4. QED BY <1>1, <2>1, <3>1, <3>2, <3>3
    <2>2. CASE left # 1
      <3>1. stack' = [stack EXCEPT ![n].left = @ - 1]
        BY <1>3, <2>2
      <3>2. /\ DOMAIN stack' = DOMAIN stack
            /\ \A k \in DOMAIN stack' : /\ stack'[k].call = stack[k].call
                                        /\ k # n => stack'[k].left = stack[k].left
            /\ stack'[n].left = stack[n].left - 1
        <4>1. n \in 1..Len(stack) /\ stack \in Seq(Frames)
          BY <1>1
        <4>2. QED BY <3>1, <4>1, Lowers
      <3>3. QED BY <1>1, <1>2, <2>2, <3>2
    <2>3. QED BY <2>1, <2>2
  <1>8. \A k \in DOMAIN stack : stack[k].call = c => k = n
    BY <1>1, <1>2 DEF LInv, FramesInv
  <1>9. FramesInv'
    <2>1. ASSUME NEW k \in DOMAIN stack'
          PROVE  /\ stack'[k].left \in 0..MaxArgs
                 /\ k = 1 => stack'[k].call = 0
                 /\ k > 1 => /\ stack'[k].call \in DOMAIN calls
                             /\ stack'[k].left \in 1..calls[stack'[k].call].args
                 /\ \A j \in DOMAIN stack' : stack'[j].call = stack'[k].call => j = k
      <3>1. CASE k # n
        BY <1>7, <3>1 DEF LInv, FramesInv
      <3>2. CASE k = n
        <4>1. left # 1 /\ stack'[n].left = left - 1
          BY <1>7, <3>2
        <4>2. left - 1 \in 1 .. r.args /\ left - 1 \in 0..MaxArgs
          BY <1>2, <4>1, ConsoleAssumption DEF Call
        <4>3. stack'[n].call = c
          BY <1>2, <1>7, <3>2
        <4>4. \A j \in DOMAIN stack' : stack'[j].call = c => j = n
          BY <1>7, <1>8
        <4>5. QED BY <1>1, <1>2, <3>2, <4>1, <4>2, <4>3, <4>4
      <3>3. QED BY <3>1, <3>2
    <2>2. QED BY <1>4, <2>1 DEF FramesInv
  <1>10. /\ c \in 0..Len(calls) /\ TokensInv'
         /\ \A d \in DOMAIN calls : d # c =>
              /\ Fits(out', d, LineOf(calls[d])) /\ Count(out', d) = Count(out, d)
    <2>1. c \in 0..Len(calls)
      BY Known
    <2>2. QED BY <1>4, <1>6, <2>1, LinesKeep
  <1>11. ProgressInv'
    <2>1. ASSUME NEW d \in DOMAIN calls, d # c
          PROVE  /\ Fits(out', d, LineOf(calls[d]))
                 /\ \A k \in DOMAIN stack' : stack'[k].call = d =>
                      Count(out', d) = PrefixOf(calls[d]) + 2 * (calls[d].args - stack'[k].left)
                 /\ ~Active(d)' => Count(out', d) = LengthOf(calls[d])
      <3>1. Fits(out', d, LineOf(calls[d])) /\ Count(out', d) = Count(out, d)
        BY <1>10, <2>1
      <3>2. ASSUME NEW k \in DOMAIN stack', stack'[k].call = d
            PROVE  k \in DOMAIN stack /\ stack[k].call = d /\ stack'[k].left = stack[k].left
        BY <1>2, <1>7, <2>1, <3>2
      <3>3. Active(d) => Active(d)'
        <4>1. ASSUME NEW k \in DOMAIN stack, stack[k].call = d PROVE Active(d)'
          BY <1>2, <1>7, <2>1, <4>1 DEF Active
        <4>2. QED BY <4>1 DEF Active
      <3>4. QED BY <3>1, <3>2, <3>3 DEF LInv, ProgressInv
    <2>2. ASSUME NEW k \in DOMAIN stack', stack'[k].call = c
          PROVE  Count(out', c) = PrefixOf(r) + 2 * (r.args - stack'[k].left)
      <3>1. k = n /\ left # 1 /\ stack'[k].left = left - 1
        BY <1>7, <1>8, <2>2
      <3>2. p + 2 * m + 2 = p + 2 * (r.args - (left - 1))
        <4>1. PICK a \in Nat : a = r.args
          BY <1>2
        <4>2. m = a - left /\ m \in Int
          <5>1. m = r.args - left
            BY <1>5
          <5>2. m = a - left
            BY <4>1, <5>1
          <5>3. QED BY <5>2
        <4>3. p + 2 * m + 2 = p + 2 * (a - (left - 1))
          BY <4>2
        <4>4. QED BY <4>1, <4>3
      <3>3. QED BY <1>5, <1>6, <3>1, <3>2
    <2>3. ~Active(c)' => Count(out', c) = LengthOf(r)
      <3>1. left # 1 => Active(c)'
        BY <1>2, <1>7 DEF Active
      <3>2. QED BY <1>5, <1>6, <3>1
    <2>4. QED BY <1>2, <1>4, <1>6, <2>1, <2>2, <2>3 DEF ProgressInv
  <1>12. QED BY <1>9, <1>10, <1>11

\* A step at whose start and end no call is active, and that writes for none.
LEMMA IdleLines ==
  ASSUME LInv, calls' = calls, Adds(out, out', 0), \A k \in DOMAIN stack : k = 1,
         \A k \in DOMAIN stack' : k = 1 /\ stack'[k].call = 0 /\ stack'[k].left = 0
  PROVE  FramesInv' /\ TokensInv' /\ ProgressInv'
  <1>1. \A c \in DOMAIN calls : c # 0 /\ ~Active(c) /\ ~Active(c)'
    <2>1. \A c \in DOMAIN calls : c # 0
      BY Known
    <2>2. \A k \in DOMAIN stack : stack[k].call = 0
      BY DEF LInv, FramesInv
    <2>3. QED BY <2>1, <2>2 DEF Active
  <1>2. FramesInv'
    <2>1. ASSUME NEW k \in DOMAIN stack'
          PROVE  /\ stack'[k].left \in 0..MaxArgs
                 /\ k = 1 => stack'[k].call = 0
                 /\ k > 1 => /\ stack'[k].call \in DOMAIN calls'
                             /\ stack'[k].left \in 1..calls'[stack'[k].call].args
                 /\ \A j \in DOMAIN stack' : stack'[j].call = stack'[k].call => j = k
      <3>1. k = 1 /\ stack'[k].call = 0 /\ stack'[k].left = 0
        OBVIOUS
      <3>2. 0 \in 0..MaxArgs /\ ~(1 > 1)
        BY ConsoleAssumption
      <3>3. QED BY <3>1, <3>2
    <2>2. QED BY <2>1 DEF FramesInv
  <1>3. /\ TokensInv'
        /\ \A d \in DOMAIN calls : d # 0 =>
             /\ Fits(out', d, LineOf(calls[d])) /\ Count(out', d) = Count(out, d)
    <2>1. 0 \in 0..Len(calls)
      BY Known
    <2>2. QED BY <2>1, LinesKeep
  <1>4. ASSUME NEW c \in DOMAIN calls
        PROVE  /\ Fits(out', c, LineOf(calls[c])) /\ Count(out', c) = LengthOf(calls[c])
               /\ \A k \in DOMAIN stack' : stack'[k].call # c
    <2>1. Count(out, c) = LengthOf(calls[c])
      BY <1>1 DEF LInv, ProgressInv
    <2>2. QED BY <1>1, <1>3, <2>1 DEF Active
  <1>5. ProgressInv'
    BY <1>4 DEF ProgressInv
  <1>6. QED BY <1>2, <1>3, <1>5

\* The end of a script, and the report of an exception.
LEMMA OutcomeLines ==
  ASSUME LInv, Evaluated \/ PrintResult \/ Threw \/ ReportStep
  PROVE  FramesInv' /\ TokensInv' /\ ProgressInv'
  <1>1. PICK what \in Kinds : Waiting(what)
    BY DEF Evaluated, PrintResult, Threw, ReportStep, ReportBare, NameOrigin,
           ReportHead, ReportTrace, Kinds
  <1>2. Len(stack) = 1 /\ stack # <<>> /\ stack \in Seq(Frames)
    BY <1>1, Known, WaitsAlone DEF LInv, IInv
  <1>3. PICK next \in Kinds : stack' = Front(stack) \/ BecomesTop(next)
    BY DEF Evaluated, PrintResult, Threw, ReportStep, ReportBare, NameOrigin,
           ReportHead, ReportTrace, Kinds
  <1>4. calls' = calls
    BY DEF Evaluated, PrintResult, Threw, ReportStep, ReportBare, NameOrigin,
           ReportHead, ReportTrace
  <1>5. Front(stack) \in Seq(Frames) /\ Len(Front(stack)) = 0
    BY <1>2, Pop
  <1>6. \A k \in DOMAIN stack' : k = 1 /\ stack'[k].call = 0 /\ stack'[k].left = 0
    <2>1. CASE stack' = Front(stack)
      BY <1>5, <2>1
    <2>2. CASE BecomesTop(next)
      <3>1. PICK x \in Frames : x = Frame(0, next, 0) /\ x.call = 0 /\ x.left = 0
        <4>1. Frame(0, next, 0) \in Frames
          BY FrameTyped
        <4>2. QED BY <4>1 DEF Frame
      <3>2. stack' = Append(Front(stack), x)
        BY <2>2, <3>1 DEF BecomesTop
      <3>3. DOMAIN stack' = {1} /\ stack'[1] = x
        BY <1>5, <3>2
      <3>4. QED BY <3>1, <3>3
    <2>3. QED BY <1>3, <2>1, <2>2
  <1>7. Adds(out, out', 0)
    <2>1. CASE PrintResult
      <3>1. PICK text \in Conversions :
              out' = out \o <<Token(0, text), Token(0, "newline")>>
        BY <2>1 DEF PrintResult
      <3>2. PICK x \in Tokens, y \in Tokens :
              /\ x = Token(0, text) /\ y = Token(0, "newline")
              /\ x.call = 0 /\ y.call = 0
        <4>1. /\ Token(0, text) \in Tokens /\ Token(0, text).call = 0
              /\ Token(0, "newline") \in Tokens /\ Token(0, "newline").call = 0
          BY TokenTyped
        <4>2. QED BY <4>1
      <3>3. out' = Append(Append(out, x), y)
        BY <3>1, <3>2, Known, OneByOne
      <3>4. Append(out, x) \in Seq(Tokens) /\ out \in Seq(Tokens)
        BY Known
      <3>5. Adds(out, Append(out, x), 0) /\ Adds(Append(out, x), out', 0)
        BY <3>2, <3>3, <3>4, AddsOne
      <3>6. QED BY <3>5, AddsMore
    <2>2. CASE out' = out
      BY <2>2, Known DEF Adds
    <2>3. QED BY <2>1, <2>2 DEF Evaluated, Threw, ReportStep, ReportBare, NameOrigin,
                                ReportHead, ReportTrace
  <1>8. \A k \in DOMAIN stack : k = 1
    BY <1>2
  <1>9. QED BY <1>4, <1>6, <1>7, <1>8, IdleLines

\* A line that is read, and what leaves the stack and the stream alone.
LEMMA ProcessLines ==
  ASSUME LInv, ReadLine \/ Exit \/ Quit \/ Abort \/ Drain
  PROVE  FramesInv' /\ TokensInv' /\ ProgressInv'
  <1>1. calls' = calls /\ out' = out
    BY DEF ReadLine, Exit, Quit, Abort, Drain
  <1>2. CASE ReadLine
    <2>1. stack = <<>> /\ stack' = <<Frame(0, "script", 0)>>
      BY <1>2 DEF ReadLine
    <2>2. Frame(0, "script", 0).call = 0 /\ Frame(0, "script", 0).left = 0
      BY DEF Frame
    <2>3. Adds(out, out', 0)
      BY <1>1, Known DEF Adds
    <2>4. \A k \in DOMAIN stack' : k = 1 /\ stack'[k].call = 0 /\ stack'[k].left = 0
      BY <2>1, <2>2
    <2>5. \A k \in DOMAIN stack : k = 1
      BY <2>1
    <2>6. QED BY <1>1, <2>3, <2>4, <2>5, IdleLines
  <1>3. CASE stack' = stack
    BY <1>1, <1>3 DEF LInv, FramesInv, TokensInv, ProgressInv, Active
  <1>4. QED BY <1>2, <1>3 DEF Exit, Quit, Abort, Drain

\* What is written makes the stream longer.
LEMMA Longer ==
  ASSUME Typed, NEW t \in Seq(Tokens)
  PROVE  Len(out) \in Nat /\ Len(out \o t) \in Nat /\ Len(out) <= Len(out \o t)
  <1>1. out \in Seq(Tokens)
    BY DEF Typed
  <1>2. Len(out \o t) = Len(out) + Len(t) /\ Len(out) \in Nat /\ Len(t) \in Nat
    BY <1>1
  <1>3. QED BY <1>2

\* No more leaves the buffer than was written.
LEMMA SentKeeps ==
  ASSUME LInv, Next
  PROVE  sent' <= Len(out')
  <1>1. Typed /\ sent \in Nat /\ sent <= Len(out) /\ Len(out) \in Nat
        /\ out \in Seq(Tokens)
    BY Known DEF LInv, IInv, Typed, RestTyped
  <1>2. ASSUME NEW t \in Seq(Tokens), out' = out \o t, sent' = sent PROVE sent' <= Len(out')
    <2>1. Len(out) <= Len(out') /\ Len(out') \in Nat
      BY <1>1, <1>2, Longer
    <2>2. QED BY <1>1, <1>2, <2>1
  <1>3. ASSUME NEW t \in Seq(Tokens), NEW c \in Nat, EndLine(t, c) PROVE sent' <= Len(out')
    <2>1. out' \in Seq(Tokens)
      BY <1>1, <1>3, Flushed
    <2>2. Len(out') \in Nat /\ sent' = Len(out')
      BY <1>3, <2>1 DEF EndLine
    <2>3. QED BY <2>2
  <1>4. ASSUME NEW fn \in Printers, NEW n \in 0..MaxArgs, CallPrint(fn, n)
        PROVE  sent' <= Len(out')
    <2>1. PICK c \in Nat : c = Len(calls) + 1
      BY Known
    <2>2. Start(fn, c) \in Seq(Tokens)
      <3>1. PICK x \in Tokens : x = Token(c, "Error: ")
        BY TokenTyped
      <3>2. <<x>> \in Seq(Tokens) /\ <<>> \in Seq(Tokens)
        OBVIOUS
      <3>3. QED BY <3>1, <3>2 DEF Start
    <2>3. EndLine(Start(fn, c), c) \/ (out' = out \o Start(fn, c) /\ sent' = sent)
      BY <1>4, <2>1 DEF CallPrint
    <2>4. QED BY <1>2, <1>3, <2>2, <2>3
  <1>5. CASE Converted
    <2>1. stack # <<>> /\ stack \in Seq(Frames)
      BY <1>5, Known DEF Converted, JavaScript
    <2>2. PICK c \in Nat : c = Last(stack).call
      <3>1. Last(stack) \in Frames
        BY <2>1, Pop
      <3>2. QED BY <3>1 DEF Frames
    <2>3. PICK text \in Conversions :
            \/ EndLine(<<Token(c, text)>>, c)
            \/ out' = out \o <<Token(c, text), Token(c, " ")>> /\ sent' = sent
      BY <1>5, <2>2 DEF Converted
    <2>4. PICK x \in Tokens, y \in Tokens : x = Token(c, text) /\ y = Token(c, " ")
      <3>1. Token(c, text) \in Tokens /\ Token(c, " ") \in Tokens
        BY TokenTyped
      <3>2. QED BY <3>1
    <2>5. <<x>> \in Seq(Tokens) /\ <<x, y>> \in Seq(Tokens)
      OBVIOUS
    <2>6. QED BY <1>2, <1>3, <2>3, <2>4, <2>5
  <1>6. CASE PrintResult
    <2>1. PICK text \in Conversions :
            out' = out \o <<Token(0, text), Token(0, "newline")>> /\ sent' = sent
      BY <1>6 DEF PrintResult
    <2>2. PICK x \in Tokens, y \in Tokens : x = Token(0, text) /\ y = Token(0, "newline")
      <3>1. Token(0, text) \in Tokens /\ Token(0, "newline") \in Tokens
        BY TokenTyped
      <3>2. QED BY <3>1
    <2>3. <<x, y>> \in Seq(Tokens)
      OBVIOUS
    <2>4. QED BY <1>2, <2>1, <2>2, <2>3
  <1>7. CASE out' = out /\ (sent' = sent \/ sent' = Len(out) \/ sent' \in (sent + 1)..Len(out))
    BY <1>1, <1>7
  <1>8. QED
    BY <1>4, <1>5, <1>6, <1>7 DEF Next, ConsoleLog, ConsoleError, Evaluated, Threw,
                                  ReportException, parseException, ReportStep,
                                  ReportBare, NameOrigin, ReportHead, ReportTrace,
                                  ReadLine, Exit, Quit, Abort, Drain, Printers

\* The rest of the types.
LEMMA RestKeeps ==
  ASSUME LInv, Next
  PROVE  RestTyped'
  <1>1. Len(calls') <= MaxCalls
    <2>1. ASSUME NEW fn, NEW n \in 0..MaxArgs, CallPrint(fn, n) PROVE Len(calls') <= MaxCalls
      <3>1. PICK r : calls' = Append(calls, r) /\ Len(calls) < MaxCalls
        BY <2>1 DEF CallPrint
      <3>2. Len(calls') = Len(calls) + 1 /\ Len(calls) \in Nat
        BY <3>1, Known
      <3>3. QED BY <3>1, <3>2, ConsoleAssumption
    <2>2. CASE calls' = calls
      BY <2>2 DEF LInv, RestTyped
    <2>3. QED
      BY <2>1, <2>2 DEF Next, ConsoleLog, ConsoleError, Converted, Evaluated,
                        PrintResult, Threw, ReportException, parseException,
                        ReportStep, ReportBare, NameOrigin, ReportHead, ReportTrace,
                        ReadLine, Exit, Quit, Abort, Drain
  <1>2. err' \in Seq({"prompt", "report", "trace", "newline"})
    <2>1. err \in Seq({"prompt", "report", "trace", "newline"})
      BY DEF LInv, RestTyped
    <2>2. \/ err' = err
          \/ \E x \in {"prompt", "report", "trace"} : err' = Append(err, x)
          \/ err' = err \o (IF mode = "shell" THEN <<"prompt", "newline">> ELSE <<>>)
      BY DEF Next, CallPrint, ConsoleLog, ConsoleError, Converted, Evaluated,
             PrintResult, Threw, ReportException, parseException, ReportStep,
             ReportBare, NameOrigin, ReportHead, ReportTrace, ReadLine, Exit, Quit,
             Abort, Drain
    <2>3. QED BY <2>1, <2>2
  <1>3. mode' \in {"shell", "file"} /\ status' \in {"running", "exited", "aborted"}
    BY DEF LInv, RestTyped, Next, CallPrint, ConsoleLog, ConsoleError, Converted,
           Evaluated, PrintResult, Threw, ReportException, parseException, ReportStep,
           ReportBare, NameOrigin, ReportHead, ReportTrace, ReadLine, Exit, Quit,
           Abort, Drain
  <1>4. lines' \in 0..MaxLines
    <2>1. lines \in 0..MaxLines /\ MaxLines \in Nat
      BY ConsoleAssumption DEF LInv, RestTyped
    <2>2. lines' = lines \/ (lines < MaxLines /\ lines' = lines + 1)
      BY DEF Next, CallPrint, ConsoleLog, ConsoleError, Converted, Evaluated,
             PrintResult, Threw, ReportException, parseException, ReportStep,
             ReportBare, NameOrigin, ReportHead, ReportTrace, ReadLine, Exit, Quit,
             Abort, Drain
    <2>3. QED BY <2>1, <2>2
  <1>5. QED BY <1>1, <1>2, <1>3, <1>4, SentKeeps DEF RestTyped

LEMMA LinesInit == Init => LInv
  <1> SUFFICES ASSUME Init PROVE LInv
    OBVIOUS
  <1>1. calls = <<>> /\ out = <<>> /\ sent = 0 /\ err = <<>> /\ lines = 0
        /\ mode \in {"shell", "file"} /\ status = "running"
    BY DEF Init
  <1>2. RestTyped
    <2>1. Len(calls) = 0 /\ Len(out) = 0 /\ err \in Seq({"prompt", "report", "trace", "newline"})
      BY <1>1
    <2>2. 0 <= MaxCalls /\ sent <= 0 /\ lines \in 0..MaxLines
      BY <1>1, ConsoleAssumption
    <2>3. QED BY <1>1, <2>1, <2>2 DEF RestTyped
  <1>3. TokensInv /\ ProgressInv
    BY <1>1 DEF TokensInv, ProgressInv
  <1>4. FramesInv
    <2>1. CASE stack = <<>>
      BY <2>1 DEF FramesInv
    <2>2. CASE stack = <<Frame(0, "script", 0)>>
      <3>1. Frame(0, "script", 0).call = 0 /\ Frame(0, "script", 0).left = 0
        BY DEF Frame
      <3>2. DOMAIN stack = {1} /\ stack[1].call = 0 /\ stack[1].left = 0
        BY <2>2, <3>1
      <3>3. 0 \in 0..MaxArgs /\ ~(1 > 1)
        BY ConsoleAssumption
      <3>4. QED BY <3>2, <3>3 DEF FramesInv
    <2>3. QED BY <2>1, <2>2 DEF Init
  <1>5. QED BY <1>2, <1>3, <1>4, InitInvariant DEF LInv

LEMMA LinesStep == LInv /\ [Next]_vars => LInv'
  <1> SUFFICES ASSUME LInv, [Next]_vars PROVE LInv'
    OBVIOUS
  <1>1. IInv'
    BY StepInvariant DEF LInv
  <1>2. CASE UNCHANGED vars
    BY <1>1, <1>2 DEF vars, LInv, FramesInv, TokensInv, ProgressInv, Active, RestTyped
  <1>3. CASE Next
    <2>1. ASSUME NEW n \in 0..MaxArgs,
                 (\E fn \in Printers : CallPrint(fn, n)) \/ ConsoleLog(n) \/ ConsoleError(n)
          PROVE  FramesInv' /\ TokensInv' /\ ProgressInv'
      <3>1. PICK fn \in Printers : CallPrint(fn, n)
        BY <2>1 DEF ConsoleLog, ConsoleError, Printers
      <3>2. QED BY <3>1, CallLines
    <2>2. ReportException \/ parseException => ReportStep
      BY DEF ReportException, parseException
    <2>3. FramesInv' /\ TokensInv' /\ ProgressInv'
      BY <1>3, <2>1, <2>2, ConvertedLines, OutcomeLines, ProcessLines DEF Next
    <2>4. QED BY <1>1, <1>3, <2>3, RestKeeps DEF LInv
  <1>4. QED BY <1>2, <1>3

\* The elements of a sequence are its type.
LEMMA Retyped ==
  ASSUME NEW S, NEW R, NEW s \in Seq(S), \A k \in DOMAIN s : s[k] \in R
  PROVE  s \in Seq(R)
  <1>1. Len(s) \in Nat /\ s = [k \in 1..Len(s) |-> s[k]] /\ DOMAIN s = 1..Len(s)
    OBVIOUS
  <1>2. QED BY <1>1

\* The inductive invariant: how much of its line each call has written.
THEOREM ConsoleLinesInvariant == Safety => []LInv
  <1>1. QED BY LinesInit, LinesStep, PTL DEF Safety

\* The types of the variables.
THEOREM ConsoleTyped == Safety => []TypeOK
  <1>1. LInv => TypeOK
    <2> SUFFICES ASSUME LInv PROVE TypeOK
      OBVIOUS
    <2> DEFINE F == [call : 0..Len(calls), left : 0..MaxArgs,
                     for : Printers \cup {"script", "result", "exception", "origin", "trace"}]
               T == [call : 0..Len(calls), is : Conversions \cup {"Error: ", " ", "newline"}]
    <2>1. stack \in Seq(F)
      <3>1. \A k \in DOMAIN stack : stack[k] \in Frames
        BY Known
      <3>2. \A k \in DOMAIN stack : stack[k].call \in 0..Len(calls)
        BY Known
      <3>3. \A k \in DOMAIN stack : stack[k].left \in 0..MaxArgs
        BY DEF LInv, FramesInv
      <3>4. \A k \in DOMAIN stack : stack[k] \in F
        BY <3>1, <3>2, <3>3 DEF Frames, Kinds
      <3>5. QED BY <3>4, Known, Retyped
    <2>2. out \in Seq(T)
      <3>1. \A k \in DOMAIN out : out[k] \in Tokens
        BY Known
      <3>2. \A k \in DOMAIN out : out[k] \in T
        BY <3>1 DEF LInv, TokensInv, Tokens
      <3>3. QED BY <3>2, Known, Retyped
    <2>3. sent \in 0..Len(out)
      BY Known DEF LInv, IInv, Typed, RestTyped
    <2>4. calls \in Seq([fn : Printers, args : 0..MaxArgs])
      BY DEF LInv, IInv, Typed
    <2>5. QED BY <2>1, <2>2, <2>3, <2>4 DEF LInv, RestTyped, TypeOK
  <1>2. QED BY <1>1, ConsoleLinesInvariant, PTL

\* Whatever the arguments of a call do while they are converted: what the call writes are
\* the parts of its line, in order, and all of them once it has returned.
THEOREM ConsoleComplete == Safety => []LinesComplete
  <1>1. LInv => LinesComplete
    <2> SUFFICES ASSUME LInv, NEW c \in DOMAIN calls
                 PROVE  /\ IF Active(c) THEN Cardinality(Own(c)) < Length(c)
                                        ELSE Cardinality(Own(c)) = Length(c)
                        /\ \A k \in Own(c) :
                             Part(out[k]) = Line(c)[Cardinality({j \in Own(c) : j <= k})]
      BY DEF LinesComplete
    <2>1. PICK r \in Call : r = calls[c]
      BY Known
    <2>2. /\ Own(c) = Mine(out, c) /\ Cardinality(Own(c)) = Count(out, c)
          /\ Prefix(c) = PrefixOf(r) /\ Length(c) = LengthOf(r) /\ Line(c) = LineOf(r)
      BY <2>1 DEF Own, Mine, Count, Prefix, PrefixOf, Length, LengthOf, Line, LineOf
    <2>3. Fits(out, c, LineOf(r)) /\ (~Active(c) => Count(out, c) = LengthOf(r))
      BY <2>1 DEF LInv, ProgressInv
    <2>4. ASSUME NEW k \in DOMAIN stack, stack[k].call = c
          PROVE  Count(out, c) < LengthOf(r)
      <3>1. c \in Nat /\ c # 0 /\ k \in Nat /\ k >= 1
        BY Known
      <3>2. k > 1
        BY <2>4, <3>1 DEF LInv, FramesInv
      <3>3. PICK a \in Nat, left \in Nat :
              a = r.args /\ left = stack[k].left /\ left \in 1 .. a
        <4>1. stack[k].left \in 1 .. r.args
          BY <2>1, <2>4, <3>2 DEF LInv, FramesInv
        <4>2. r.args \in Nat
          BY LineParts
        <4>3. stack[k].left \in Nat
          BY <4>1, <4>2
        <4>4. QED BY <4>1, <4>2, <4>3
      <3>4. Count(out, c) = PrefixOf(r) + 2 * (a - left)
        BY <2>1, <2>4, <3>3 DEF LInv, ProgressInv
      <3>5. a - left \in 0 .. a - 1
        BY <3>3
      <3>6. PrefixOf(r) + 2 * (a - left) < LengthOf(r)
        BY <3>3, <3>5, LineParts
      <3>7. QED BY <3>4, <3>6
    <2>5. Active(c) => Count(out, c) < LengthOf(r)
      BY <2>4 DEF Active
    <2>6. QED BY <2>2, <2>3, <2>5 DEF Fits
  <1>2. QED BY <1>1, ConsoleLinesInvariant, PTL
=============================================================================
