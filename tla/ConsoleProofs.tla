---------------------------- MODULE ConsoleProofs ---------------------------
(***************************************************************************)
(* The safety properties of Console for any keys, texts and buffer sizes,  *)
(* any number of calls and any heap.                                       *)
(***************************************************************************)
EXTENDS Console, SequenceTheorems, FiniteSetTheorems, TLAPS

\* Moving the head of one sequence to the end of another leaves what they join to.
LEMMA MoveHead ==
  ASSUME NEW S, NEW a \in Seq(S), NEW b \in Seq(S), b # <<>>
  PROVE  Append(a, Head(b)) \o Tail(b) = a \o b
<1>1. /\ Head(b) \in S /\ Tail(b) \in Seq(S) /\ Len(Tail(b)) = Len(b) - 1
      /\ \A i \in 1 .. Len(Tail(b)) : Tail(b)[i] = b[i + 1]
  BY HeadTailProperties
<1>2. <<Head(b)>> \in Seq(S) /\ Append(a, Head(b)) = a \o <<Head(b)>>
  BY <1>1, AppendIsConcat
<1>3. (a \o <<Head(b)>>) \o Tail(b) = a \o (<<Head(b)>> \o Tail(b))
  BY <1>1, <1>2, ConcatAssociative
<1>4. <<Head(b)>> \o Tail(b) = b
  <2> DEFINE c == <<Head(b)>> \o Tail(b)
  <2>1. /\ c \in Seq(S) /\ Len(c) = 1 + (Len(b) - 1) /\ Len(b) \in Nat \ {0}
        /\ \A i \in 1 .. 1 + (Len(b) - 1) : c[i] = IF i <= 1 THEN <<Head(b)>>[i] ELSE Tail(b)[i - 1]
    BY <1>1, <1>2, ConcatProperties, EmptySeq
  <2>2. \A i \in 1 .. Len(b) : c[i] = b[i]
    <3> SUFFICES ASSUME NEW i \in 1 .. Len(b)
                 PROVE  c[i] = b[i]
      OBVIOUS
    <3>1. CASE i = 1
      BY <2>1, <3>1
    <3>2. CASE i # 1
      <4>1. i - 1 \in 1 .. Len(Tail(b)) /\ (i - 1) + 1 = i
        BY <1>1, <2>1, <3>2
      <4>2. c[i] = Tail(b)[i - 1]
        BY <2>1, <3>2
      <4> QED
        BY <1>1, <4>1, <4>2
    <3> QED
      BY <3>1, <3>2
  <2>3. Len(c) = Len(b)
    BY <2>1
  <2> HIDE DEF c
  <2>4. c = b
    BY <2>1, <2>2, <2>3, SeqEqual
  <2> QED
    BY <2>4 DEF c
<1> QED
  BY <1>2, <1>3, <1>4

\* What is added at the end of the second sequence is added at the end of the whole.
LEMMA JoinAppend ==
  ASSUME NEW S, NEW a \in Seq(S), NEW b \in Seq(S), NEW x \in S
  PROVE  a \o Append(b, x) = Append(a \o b, x)
<1>1. <<x>> \in Seq(S) /\ a \o b \in Seq(S)
  BY ConcatProperties
<1>2. Append(b, x) = b \o <<x>>
  BY AppendIsConcat
<1>3. Append(a \o b, x) = (a \o b) \o <<x>>
  BY <1>1, AppendIsConcat
<1>4. (a \o b) \o <<x>> = a \o (b \o <<x>>)
  BY <1>1, ConcatAssociative
<1> QED
  BY <1>2, <1>3, <1>4

-----------------------------------------------------------------------------
(* Texts and calls. *)

\* What the programs write is made of characters.
LEMMA TextsAreTexts ==
  /\ Banner \in Seq(Chars) /\ ErrorText \in Seq(Chars) /\ Hello \in Seq(Chars)
  /\ Line \in Seq(Chars) /\ Bye \in Seq(Chars) /\ <<"exit">> \in Seq(Chars)
<1>1. /\ "(" \in Chars /\ "c" \in Chars /\ ")" \in Chars /\ "!" \in Chars
      /\ "H" \in Chars /\ "=" \in Chars /\ "E" \in Chars /\ "exit" \in Chars
  BY DEF Chars
<1>2. \A a, b, c \in Chars : <<a>> \in Seq(Chars) /\ <<a, b, c>> \in Seq(Chars)
  BY SMTT(30)
<1> QED
  BY <1>1, <1>2 DEF Banner, ErrorText, Hello, Line, Bye

LEMMA KeysAreText ==
  ASSUME NEW s \in Seq(Keys)
  PROVE  s \in Seq(Chars)
BY SeqMonotonic DEF Chars

\* The calls of the library, and a step of c06e1's main without one.
SystemCall ==
  \/ \E f \in Files, t \in Seq(Chars) : _write(f, t)
  \/ \E f \in Files, len \in Nat \ {0} : _read(f, len)
  \/ \E f \in Files : _isatty(f)
  \/ \E incr \in Increments : _sbrk(incr)
  \/ \E call \in DOMAIN Answers : Answer(call)
  \/ \E call \in DOMAIN Refuses : Refuse(call)
  \/ NoCall

LEMMA CallsOfPrograms ==
  ASSUME TypeOK, Main \/ Library
  PROVE  SystemCall
<1> USE DEF SystemCall
<1>1. Files = 0 .. 3 /\ STDIN_FILENO \in Files /\ STDOUT_FILENO \in Files /\ STDERR_FILENO \in Files
      /\ BUFSIZ \in Nat \ {0}
  BY DEF Files, STDIN_FILENO, STDOUT_FILENO, STDERR_FILENO, BUFSIZ
<1>2. outbuf \o Line \in Seq(Chars) /\ outbuf \o Bye \in Seq(Chars)
  BY KeysAreText, TextsAreTexts, ConcatProperties DEF TypeOK, StdioOK
<1>3. CASE MainHello
  BY <1>1, <1>3, TextsAreTexts DEF MainHello
<1>4. CASE MainMalloc
  BY <1>4 DEF MainMalloc
<1>5. CASE MainPrintf
  BY <1>1, <1>2, <1>5 DEF MainPrintf
<1>6. CASE MainGetchar
  BY <1>1, <1>6 DEF MainGetchar
<1>7. CASE MainPutchar
  BY <1>7 DEF MainPutchar
<1>8. CASE MainReturn
  BY <1>1, <1>2, <1>8 DEF MainReturn
<1>9. CASE _exit
  BY <1>1, <1>9, TextsAreTexts DEF _exit
<1>10. CASE Library
  BY <1>10, ConsoleAssumption DEF Library
<1> QED
  BY <1>3, <1>4, <1>5, <1>6, <1>7, <1>8, <1>9, <1>10 DEF Main

-----------------------------------------------------------------------------
(* The heap. *)

\* _sbrk moves the end of one piece of memory, inside its bounds, or refuses.
LEMMA SbrkExact ==
  ASSUME TypeOK, HeapExact, NEW incr \in Increments, _sbrk(incr)
  PROVE  HeapExact' /\ heap_end' \in Nat /\ used' \subseteq Int
<1> DEFINE prev == IF heap_end = 0 THEN HeapStart ELSE heap_end
<1>1. /\ incr \in Int /\ HeapStart \in Nat \ {0} /\ HeapEnd \in Nat /\ STACK_BUFFER_SIZE \in Nat
      /\ HeapStart + STACK_BUFFER_SIZE <= HeapEnd /\ heap_end \in Nat
  BY ConsoleAssumption DEF TypeOK
<1>2. /\ prev \in Nat /\ HeapStart <= prev /\ prev + STACK_BUFFER_SIZE <= HeapEnd
      /\ used = HeapStart .. (prev - 1)
  BY <1>1 DEF HeapExact
<1>3. incr < 0 => HeapStart <= prev + incr
  <2> SUFFICES ASSUME incr < 0
               PROVE  HeapStart <= prev + incr
    OBVIOUS
  <2>1. incr \in incr .. -1
    BY <1>1
  <2>2. heap_end + incr \in used
    BY <2>1 DEF _sbrk
  <2>3. heap_end + incr >= HeapStart
    BY <1>1, <1>2, <2>2
  <2> QED
    BY <1>1, <2>3
<1>4. CASE Fits(prev, incr)
  <2>1. /\ heap_end' = prev + incr /\ ret' = prev
        /\ used' = IF incr > 0 THEN used \cup ret' .. (ret' + incr - 1)
                   ELSE used \ ((ret' + incr) .. (ret' - 1))
    BY <1>4 DEF _sbrk
  <2>2. prev + STACK_BUFFER_SIZE + incr <= HeapEnd
    BY <1>4 DEF Fits
  <2> HIDE DEF prev
  <2>3. used' = HeapStart .. (prev + incr - 1)
    <3>1. CASE incr > 0
      BY <1>1, <1>2, <2>1, <3>1
    <3>2. CASE ~(incr > 0)
      BY <1>1, <1>2, <1>3, <2>1, <3>2
    <3> QED
      BY <3>1, <3>2
  <2>4. /\ heap_end' \in Nat /\ heap_end' # 0 /\ HeapStart <= heap_end'
        /\ heap_end' + STACK_BUFFER_SIZE <= HeapEnd
    BY <1>1, <1>2, <1>3, <2>1, <2>2
  <2>5. used' = HeapStart .. (heap_end' - 1)
    <3>1. heap_end' - 1 = prev + incr - 1
      BY <1>1, <1>2, <2>1
    <3> QED
      BY <2>3, <3>1
  <2>6. used' \subseteq Int
    BY <1>1, <2>4, <2>5
  <2> QED
    BY <2>4, <2>5, <2>6 DEF HeapExact
<1>5. CASE ~Fits(prev, incr)
  <2>1. heap_end' = prev /\ used' = used
    BY <1>5 DEF _sbrk
  <2> QED
    BY <1>1, <1>2, <2>1 DEF HeapExact
<1> QED
  BY <1>4, <1>5

\* No other call touches the heap.
LEMMA CallHeap ==
  ASSUME TypeOK, HeapExact, SystemCall
  PROVE  HeapExact' /\ heap_end' \in Nat /\ used' \subseteq Int
<1>1. CASE UNCHANGED Heap
  BY <1>1 DEF Heap, HeapExact, TypeOK
<1>2. UNCHANGED Heap \/ \E incr \in Increments : _sbrk(incr)
  BY DEF SystemCall, _write, _read, _isatty, Answer, Refuse, NoCall
<1> QED
  BY <1>1, <1>2, SbrkExact

-----------------------------------------------------------------------------
(* Types.  The read loop never stores the -1 of goldfish_getc, because it asks *)
(* for no more bytes than are ready (ReadFits).                                *)

LEMMA CallTypes ==
  ASSUME TypeOK, HeapExact, SystemCall, StdioOK'
  PROVE  TypeOK'
<1> USE DEF TypeOK
<1>1. ASSUME NEW t \in Seq(Chars), Put(t)
      PROVE  /\ pc' = "putc" /\ text' \in Seq(Chars) /\ len1' \in Nat /\ n' \in 0 .. len1'
             /\ written' \in Seq(Chars)
  BY <1>1, LenProperties, ConcatProperties DEF Put
<1>2. ASSUME NEW f \in Files, NEW t \in Seq(Chars), _write(f, t)
      PROVE  TypeOK'
  <2>1. CASE f \in {STDOUT_FILENO, STDERR_FILENO}
    <3>1. Put(t) /\ ret' = Len(t) /\ errno' = errno
      BY <1>2, <2>1 DEF _write
    <3>2. ret' \in Int
      BY <3>1, LenProperties
    <3> QED
      BY <1>1, <1>2, <3>1, <3>2 DEF _write, Device, Heap
  <2>2. CASE f \notin {STDOUT_FILENO, STDERR_FILENO}
    BY <1>2, <2>2 DEF _write, Device, Heap
  <2> QED
    BY <2>1, <2>2
<1>3. ASSUME NEW f \in Files, NEW len \in Nat \ {0}, _read(f, len)
      PROVE  TypeOK'
  BY <1>3, EmptySeq DEF _read, Device, Heap
<1>4. ASSUME NEW f \in Files, _isatty(f)
      PROVE  TypeOK'
  BY <1>4 DEF _isatty, Device, CallVars, Heap
<1>5. ASSUME NEW incr \in Increments, _sbrk(incr)
      PROVE  TypeOK'
  <2> DEFINE prev == IF heap_end = 0 THEN HeapStart ELSE heap_end
  <2>1. prev \in Nat /\ heap_end' \in Nat /\ used' \subseteq Int
    BY <1>5, ConsoleAssumption, SbrkExact
  <2>2. CASE Fits(prev, incr)
    <3>1. UNCHANGED <<pc, text, n, len1, written, errno>> /\ ret' = prev
      BY <1>5, <2>2 DEF _sbrk
    <3> QED
      BY <1>5, <2>1, <3>1 DEF _sbrk, Device
  <2>3. CASE ~Fits(prev, incr)
    <3>1. Put(ErrorText) /\ ret' = 0 /\ errno' = "ENOMEM"
      BY <1>5, <2>3 DEF _sbrk
    <3>2. "ENOMEM" \in {Refuses[c] : c \in DOMAIN Refuses}
      BY DEF Refuses
    <3> QED
      BY <1>1, <1>5, <2>1, <3>1, <3>2, TextsAreTexts DEF _sbrk, Device
  <2> QED
    BY <2>2, <2>3
<1>6. ASSUME NEW call \in DOMAIN Answers, Answer(call)
      PROVE  TypeOK'
  <2>1. Answers[call] \in Int
    BY DEF Answers
  <2> QED
    BY <1>6, <2>1 DEF Answer, Device, CallVars, Heap
<1>7. ASSUME NEW call \in DOMAIN Refuses, Refuse(call)
      PROVE  TypeOK'
  BY <1>7 DEF Refuse, Device, CallVars, Heap
<1>8. CASE NoCall
  BY <1>8 DEF NoCall, Device, CallVars, Heap
<1> QED
  BY <1>2, <1>3, <1>4, <1>5, <1>6, <1>7, <1>8 DEF SystemCall

\* c06e1's buffers hold keys: getchar takes one only from a buffer that has one.
LEMMA MainStdio ==
  ASSUME TypeOK, Callers, Main
  PROVE  StdioOK'
<1>1. inbuf \in Seq(Keys) /\ outbuf \in Seq(Keys) /\ buf \in Seq(Keys) /\ StdioOK
  BY DEF TypeOK, StdioOK
<1>2. CASE MainPutchar
  <2>1. inbuf # <<>>
    BY <1>2 DEF MainPutchar, MainAt, Callers
  <2>2. Head(inbuf) \in Keys /\ Tail(inbuf) \in Seq(Keys)
    BY <1>1, <2>1, HeadTailProperties
  <2>3. inbuf' \in Seq(Keys) /\ outbuf' \in Seq(Keys)
    BY <1>1, <1>2, <2>2, AppendProperties DEF MainPutchar
  <2>4. at' \in {"return", "malloc"}
    BY <1>2 DEF MainPutchar, MainAt
  <2> QED
    BY <2>3, <2>4 DEF StdioOK
<1>3. CASE MainHello
  BY <1>1, <1>3 DEF MainHello, MainAt, StdioOK
<1>4. CASE MainMalloc
  BY <1>1, <1>4 DEF MainMalloc, MainAt, StdioOK
<1>5. CASE MainPrintf
  BY <1>1, <1>5, EmptySeq DEF MainPrintf, MainAt, StdioOK
<1>6. CASE MainGetchar
  BY <1>1, <1>6 DEF MainGetchar, MainAt, StdioOK
<1>7. CASE MainReturn
  BY <1>1, <1>7, EmptySeq DEF MainReturn, MainAt, StdioOK
<1>8. CASE _exit
  BY <1>1, <1>8 DEF _exit, MainAt, StdioOK
<1> QED
  BY <1>2, <1>3, <1>4, <1>5, <1>6, <1>7, <1>8 DEF Main

\* goldfish_getc finds a byte: the loop asks for no more than are ready.
LEMMA GetcFinds ==
  ASSUME TypeOK, ReadFits, pc = "getc", n < len1
  PROVE  ready # <<>>
<1>1. Len(ready) # 0
  BY LenProperties DEF TypeOK, ReadFits, Reading
<1> QED
  BY <1>1, EmptySeq

LEMMA GetsFinds ==
  ASSUME TypeOK, ReadFits, pc = "gets"
  PROVE  ready # <<>>
<1>1. Len(ready) # 0
  BY LenProperties DEF TypeOK, ReadFits, Reading
<1> QED
  BY <1>1, EmptySeq

LEMMA TypeStep ==
  ASSUME Inv, [Next]_vars
  PROVE  TypeOK'
<1> USE DEF TypeOK, StdioOK
<1>1. TypeOK /\ HeapExact /\ Callers /\ ReadFits
  BY DEF Inv
<1>2. ASSUME NEW t \in Seq(Chars), Put(t)
      PROVE  /\ pc' = "putc" /\ text' \in Seq(Chars) /\ len1' \in Nat /\ n' \in 0 .. len1'
             /\ written' \in Seq(Chars)
  BY <1>1, <1>2, LenProperties, ConcatProperties DEF Put
<1>3. ASSUME NEW k \in Keys, Type(k)
      PROVE  TypeOK'
  BY <1>1, <1>3, AppendProperties DEF Type, CallVars, Heap, Stdio
<1>4. CASE Start
  <2>1. CASE Put(Banner)
    BY <1>1, <1>2, <1>4, <2>1, TextsAreTexts DEF Start, Heap, Stdio
  <2>2. CASE pc' = "idle" /\ UNCHANGED <<text, n, len1, written>>
    BY <1>1, <1>4, <2>2 DEF Start, Heap, Stdio
  <2> QED
    BY <1>4, <2>1, <2>2 DEF Start
<1>5. CASE goldfish_putc
  <2>1. text[n + 1] = NUL \/ text[n + 1] \in Chars
    <3>1. len1 = Len(text)
      BY <1>5 DEF Inv, ScreenKept, goldfish_putc
    <3>2. n + 1 \in 1 .. Len(text)
      BY <1>1, <1>5, <3>1 DEF goldfish_putc
    <3> QED
      BY <1>1, <3>2, ElementOfSeq
  <2>2. screen' \in Seq(Chars)
    BY <1>1, <1>5, <2>1, AppendProperties DEF goldfish_putc
  <2> QED
    BY <1>1, <1>5, <2>2 DEF goldfish_putc, Heap, Stdio, History
<1>6. CASE PutDone
  BY <1>1, <1>6 DEF PutDone, Device, CallVars, Heap, Stdio, History
<1>7. CASE goldfish_getc
  <2>1. ready # <<>>
    BY <1>1, <1>7, GetcFinds DEF goldfish_getc
  <2> QED
    BY <1>1, <1>7, <2>1 DEF goldfish_getc, Device, Heap, Stdio, History
<1>8. CASE goldfish_gets
  <2>1. ready # <<>>
    BY <1>1, <1>8, GetsFinds DEF goldfish_gets
  <2>2. Head(ready) \in Keys /\ Tail(ready) \in Seq(Keys)
    BY <1>1, <2>1, HeadTailProperties
  <2>3. buf' \in Seq(Keys) /\ ready' \in Seq(Keys)
    BY <1>1, <1>8, <2>2, AppendProperties DEF goldfish_gets
  <2>4. n' \in 0 .. len1'
    BY <1>1, <1>8 DEF goldfish_gets, ReadFits, Reading
  <2> QED
    BY <1>1, <1>8, <2>3, <2>4 DEF goldfish_gets, Heap, Stdio, History
<1>9. CASE Poll
  BY <1>1, <1>9, EmptySeq DEF Poll, Device, Heap, Stdio, History
<1>10. CASE Echo
  <2>1. buf \in Seq(Chars) /\ taken' \in Seq(Keys)
    BY <1>1, <1>10, KeysAreText, ConcatProperties DEF Echo
  <2> QED
    BY <1>1, <1>2, <1>10, <2>1 DEF Echo, Device, Heap, Stdio
<1>11. CASE Block
  <2>1. Clip \in Nat
    BY <1>1, LenProperties DEF Clip, goldfish_tstc
  <2> QED
    BY <1>1, <1>11, <2>1 DEF Block, Device, Heap, Stdio, History
<1>12. CASE ReadDone
  BY <1>1, <1>12, ConcatProperties DEF ReadDone, Device, CallVars, Heap, Stdio
<1>13. CASE Main
  BY <1>1, <1>13, MainStdio, CallsOfPrograms, CallTypes
<1>14. CASE Library
  <2>1. StdioOK'
    BY <1>1, <1>14 DEF Library, Stdio
  <2> QED
    BY <1>1, <1>14, <2>1, CallsOfPrograms, CallTypes
<1>15. CASE UNCHANGED vars
  BY <1>1, <1>15 DEF vars, Device, CallVars, Heap, Stdio, History
<1> QED
  BY <1>3, <1>4, <1>5, <1>6, <1>7, <1>8, <1>9, <1>10, <1>11, <1>12, <1>13, <1>14, <1>15
     DEF Next, Program, Driver, Spin

LEMMA HeapStep ==
  ASSUME Inv, [Next]_vars
  PROVE  HeapExact'
<1>1. TypeOK /\ HeapExact
  BY DEF Inv
<1>2. CASE Main \/ Library
  BY <1>1, <1>2, CallsOfPrograms, CallHeap
<1>3. CASE ~(Main \/ Library)
  <2>1. UNCHANGED Heap
    BY <1>3 DEF Next, Program, Driver, Type, Start, goldfish_putc, PutDone, goldfish_getc,
                goldfish_gets, Poll, Echo, Block, ReadDone, Spin, vars
  <2> QED
    BY <1>1, <2>1 DEF Heap, HeapExact
<1> QED
  BY <1>2, <1>3

-----------------------------------------------------------------------------
(* Who calls what, and the bounds of the read loop. *)

\* A system call goes to a read, to writing or nowhere, and takes no key itself.
LEMMA CallPlaces ==
  ASSUME TypeOK, SystemCall
  PROVE  /\ pc = "idle" /\ pc' \in {"idle", "tstc", "putc"}
         /\ UNCHANGED <<ready, screen, program, typed, taken>>
         /\ pc' = "tstc" => room' \in Nat \ {0} /\ buf' = <<>>
         /\ pc' # "tstc" => UNCHANGED <<file, buf>>
<1> USE DEF Device, CallVars
<1>1. ASSUME NEW f \in Files, NEW t \in Seq(Chars), _write(f, t)
      PROVE  /\ pc = "idle" /\ pc' \in {"idle", "putc"}
             /\ UNCHANGED <<ready, screen, program, typed, taken, file, buf>>
  BY <1>1 DEF _write, Put
<1>2. ASSUME NEW incr \in Increments, _sbrk(incr)
      PROVE  /\ pc = "idle" /\ pc' \in {"idle", "putc"}
             /\ UNCHANGED <<ready, screen, program, typed, taken, file, buf>>
  BY <1>2 DEF _sbrk, Put
<1>3. ASSUME NEW f \in Files, NEW len \in Nat \ {0}, _read(f, len)
      PROVE  /\ pc = "idle" /\ pc' = "tstc" /\ room' = len /\ buf' = <<>>
             /\ UNCHANGED <<ready, screen, program, typed, taken>>
  BY <1>3 DEF _read
<1> QED
  BY <1>1, <1>2, <1>3 DEF SystemCall, _isatty, Answer, Refuse, NoCall

LEMMA CallersStep ==
  ASSUME Inv, [Next]_vars
  PROVE  Callers'
<1> USE DEF Reading
<1>1. TypeOK /\ Callers /\ ReadFits
  BY DEF Inv
<1>2. ASSUME NEW k \in Keys, Type(k)
      PROVE  Callers'
  BY <1>1, <1>2 DEF Type, CallVars, Stdio, Callers
<1>3. CASE Start
  BY <1>1, <1>3 DEF Start, Put, Stdio, Callers
<1>4. CASE goldfish_putc
  BY <1>1, <1>4 DEF goldfish_putc, Stdio, Callers
<1>5. CASE PutDone
  BY <1>1, <1>5 DEF PutDone, CallVars, Stdio, Callers, TypeOK, Programs
<1>6. CASE goldfish_getc
  BY <1>1, <1>6, GetcFinds DEF goldfish_getc, Stdio, Callers
<1>7. CASE goldfish_gets
  BY <1>1, <1>7 DEF goldfish_gets, Stdio, Callers
<1>8. CASE Poll
  BY <1>1, <1>8 DEF Poll, Stdio, Callers
<1>9. CASE Echo
  BY <1>1, <1>9 DEF Echo, Put, Stdio, Callers
<1>10. CASE Block
  BY <1>1, <1>10 DEF Block, Stdio, Callers
<1>11. CASE ReadDone
  <2>1. buf # <<>>
    BY <1>1, <1>11, EmptySeq DEF ReadDone, ReadFits, TypeOK
  <2> QED
    BY <1>1, <1>11, <2>1 DEF ReadDone, CallVars, Stdio, Callers
<1>12. CASE Main
  <2>1. SystemCall
    BY <1>1, <1>12, CallsOfPrograms
  <2>2. /\ pc = "idle" /\ pc' \in {"idle", "tstc", "putc"} /\ UNCHANGED program
        /\ program = "c06e1" /\ at = "fill" => buf # <<>>
    BY <1>1, <1>12, <2>1, CallPlaces
       DEF Callers, Main, MainHello, MainMalloc, MainPrintf, MainGetchar, MainPutchar, MainReturn,
           _exit, MainAt
  <2>3. CASE MainGetchar
    BY <1>1, <2>2, <2>3 DEF MainGetchar, MainAt, _read, NoCall, CallVars, Callers, STDIN_FILENO
  <2>4. CASE ~MainGetchar
    <3>1. at' \notin {"fill", "putchar"} /\ pc' # "tstc" /\ program = "c06e1"
      BY <1>12, <2>4 DEF Main, MainHello, MainMalloc, MainPrintf, MainPutchar, MainReturn,
         _exit, MainAt, _write, _sbrk, NoCall, Put
    <3> QED
      BY <2>2, <3>1 DEF Callers
  <2> QED
    BY <2>3, <2>4
<1>13. CASE Library
  <2>1. /\ pc = "idle" /\ pc' \in {"idle", "tstc", "putc"} /\ UNCHANGED program
    BY <1>1, <1>13, CallsOfPrograms, CallPlaces
  <2>2. program = "libc" /\ at = "hello" /\ at' = at
    BY <1>1, <1>13 DEF Library, Stdio, Callers
  <2> QED
    BY <2>1, <2>2 DEF Callers
<1>14. CASE UNCHANGED vars
  BY <1>1, <1>14 DEF vars, CallVars, Stdio, Callers
<1> QED
  BY <1>2, <1>3, <1>4, <1>5, <1>6, <1>7, <1>8, <1>9, <1>10, <1>11, <1>12, <1>13, <1>14
     DEF Next, Program, Driver, Spin

LEMMA ReadFitsStep ==
  ASSUME Inv, [Next]_vars
  PROVE  ReadFits'
<1> USE DEF Reading
<1>1. TypeOK /\ Callers /\ ReadFits
  BY DEF Inv
<1>2. Len(ready) \in Nat /\ len1 \in Nat /\ n \in Nat /\ n <= len1 /\ room \in Nat
      /\ ready \in Seq(Keys) /\ buf \in Seq(Keys)
  BY <1>1, LenProperties DEF TypeOK
<1>3. ASSUME NEW k \in Keys, Type(k)
      PROVE  ReadFits'
  <2>1. Len(ready') = Len(ready) + 1
    BY <1>2, <1>3, AppendProperties DEF Type
  <2> QED
    BY <1>1, <1>2, <1>3, <2>1 DEF Type, CallVars, ReadFits
<1>4. CASE Start
  BY <1>4 DEF Start, Put, ReadFits
<1>5. CASE goldfish_putc
  BY <1>5 DEF goldfish_putc, ReadFits
<1>6. CASE PutDone
  BY <1>6 DEF PutDone, ReadFits
<1>7. CASE goldfish_getc
  BY <1>1, <1>7, GetcFinds DEF goldfish_getc, Device, ReadFits
<1>8. CASE goldfish_gets
  <2>1. ready # <<>>
    BY <1>1, <1>8, GetsFinds DEF goldfish_gets
  <2>2. Len(Tail(ready)) = Len(ready) - 1 /\ Head(ready) \in Keys
    BY <1>2, <2>1, HeadTailProperties
  <2>3. Len(Append(buf, Head(ready))) = Len(buf) + 1
    BY <1>2, <2>2, AppendProperties
  <2> QED
    BY <1>1, <1>2, <1>8, <2>2, <2>3 DEF goldfish_gets, ReadFits
<1>9. CASE Poll
  <2>1. Len(<<>>) = 0 /\ Len(ready) # 0
    BY <1>9 DEF Poll, goldfish_tstc
  <2>2. program = "c05e2"
    BY <1>1, <1>9 DEF Poll, Callers
  <2> QED
    BY <1>2, <1>9, <2>1, <2>2 DEF Poll, Device, ReadFits
<1>10. CASE Echo
  BY <1>10 DEF Echo, Put, ReadFits
<1>11. CASE Block
  <2>1. room # 0 /\ buf = <<>> /\ Len(<<>>) = 0
    BY <1>1, <1>11 DEF Block, ReadFits
  <2>2. Clip # 0 /\ Clip <= room /\ Clip <= Len(ready) /\ Clip \in Nat
    BY <1>2, <1>11, <2>1 DEF Block, Waits, Clip, goldfish_tstc
  <2> QED
    BY <1>2, <1>11, <2>1, <2>2 DEF Block, Device, ReadFits
<1>12. CASE ReadDone
  BY <1>12 DEF ReadDone, ReadFits
<1>13. CASE Main \/ Library
  <2>1. pc' \in {"idle", "tstc", "putc"} /\ (pc' = "tstc" => room' \in Nat \ {0} /\ buf' = <<>>)
    BY <1>1, <1>13, CallsOfPrograms, CallPlaces
  <2> QED
    BY <2>1 DEF ReadFits
<1>14. CASE UNCHANGED vars
  BY <1>1, <1>14 DEF vars, Device, CallVars, ReadFits
<1> QED
  BY <1>3, <1>4, <1>5, <1>6, <1>7, <1>8, <1>9, <1>10, <1>11, <1>12, <1>13, <1>14
     DEF Next, Program, Driver, Spin

-----------------------------------------------------------------------------
(* Keys on their way from TTY2 to the callers. *)

LEMMA KeysKeptStep ==
  ASSUME Inv, [Next]_vars
  PROVE  KeysKept'
<1> USE DEF Reading
<1> DEFINE fetched == IF Reading THEN buf ELSE <<>>
<1>1. TypeOK /\ Callers /\ ReadFits /\ taken \o fetched \o ready = typed
  BY DEF Inv, KeysKept
<1>2. /\ taken \in Seq(Keys) /\ buf \in Seq(Keys) /\ ready \in Seq(Keys) /\ fetched \in Seq(Keys)
      /\ taken \o fetched \in Seq(Keys) /\ <<>> \in Seq(Keys)
  BY <1>1, EmptySeq, ConcatProperties DEF TypeOK
<1>3. ASSUME NEW k \in Keys, Type(k)
      PROVE  KeysKept'
  <2>1. taken \o fetched \o Append(ready, k) = Append(taken \o fetched \o ready, k)
    <3>1. \A a, b \in Seq(Keys) : a \o Append(b, k) = Append(a \o b, k)
      BY JoinAppend
    <3> HIDE DEF fetched
    <3> QED
      BY <1>2, <3>1, Zenon
  <2> QED
    BY <1>1, <1>3, <2>1 DEF Type, CallVars, KeysKept
<1>4. CASE Start
  BY <1>1, <1>4 DEF Start, Put, KeysKept
<1>5. CASE goldfish_putc
  BY <1>1, <1>5 DEF goldfish_putc, History, KeysKept
<1>6. CASE PutDone
  BY <1>1, <1>6 DEF PutDone, Device, History, KeysKept
<1>7. CASE goldfish_getc
  BY <1>1, <1>7, GetcFinds DEF goldfish_getc, Device, History, KeysKept
<1>8. CASE goldfish_gets
  <2>1. ready # <<>>
    BY <1>1, <1>8, GetsFinds DEF goldfish_gets
  <2>2. taken \o Append(buf, Head(ready)) \o Tail(ready) = taken \o buf \o ready
    <3>1. Append(taken \o buf, Head(ready)) \o Tail(ready) = taken \o buf \o ready
      BY <1>2, <2>1, MoveHead, ConcatProperties
    <3>2. taken \o Append(buf, Head(ready)) = Append(taken \o buf, Head(ready))
      BY <1>2, <2>1, JoinAppend, HeadTailProperties
    <3> QED
      BY <3>1, <3>2
  <2> QED
    BY <1>1, <1>8, <2>2 DEF goldfish_gets, History, KeysKept
<1>9. CASE Poll
  BY <1>1, <1>9 DEF Poll, Device, History, KeysKept
<1>10. CASE Echo \/ ReadDone
  <2>1. pc' \in {"putc", "idle"} /\ taken' = taken \o buf /\ UNCHANGED <<ready, typed>> /\ Reading
    BY <1>10 DEF Echo, ReadDone, Put, Device
  <2>2. taken \o buf \o <<>> = taken \o buf
    BY <1>2, ConcatProperties, ConcatEmptySeq
  <2> QED
    BY <1>1, <2>1, <2>2 DEF KeysKept
<1>11. CASE Block
  <2>1. buf = <<>>
    BY <1>1, <1>11 DEF Block, ReadFits
  <2> QED
    BY <1>1, <1>11, <2>1 DEF Block, Device, History, KeysKept
<1>12. CASE Main \/ Library
  <2>1. pc = "idle" /\ pc' \in {"idle", "tstc", "putc"} /\ UNCHANGED <<ready, typed, taken>>
    BY <1>1, <1>12, CallsOfPrograms, CallPlaces
  <2> QED
    BY <1>1, <2>1 DEF KeysKept
<1>13. CASE UNCHANGED vars
  BY <1>1, <1>13 DEF vars, Device, CallVars, History, KeysKept
<1> QED
  BY <1>3, <1>4, <1>5, <1>6, <1>7, <1>8, <1>9, <1>10, <1>11, <1>12, <1>13
     DEF Next, Program, Driver, Spin

-----------------------------------------------------------------------------
(* The screen: where the bytes of `written' stand on it. *)

LEMMA PlaceIsNat ==
  ASSUME NEW k \in Nat
  PROVE  Place(k) \in Nat /\ IsFiniteSet({i \in 1 .. k : written[i] # NUL})
<1>1. IsFiniteSet(1 .. k)
  BY FS_Interval
<1>2. IsFiniteSet({i \in 1 .. k : written[i] # NUL})
  BY <1>1, FS_Subset
<1> QED
  BY <1>2, FS_CardinalityType DEF Place

LEMMA PlaceNext ==
  ASSUME NEW k \in Nat
  PROVE  Place(k + 1) = IF written[k + 1] = NUL THEN Place(k) ELSE Place(k) + 1
<1> DEFINE P == {i \in 1 .. k : written[i] # NUL}
           Q == {i \in 1 .. (k + 1) : written[i] # NUL}
<1>1. CASE written[k + 1] = NUL
  <2>1. Q = P
    BY <1>1
  <2> QED
    BY <1>1, <2>1 DEF Place
<1>2. CASE written[k + 1] # NUL
  <2>1. Q = P \cup {k + 1} /\ k + 1 \notin P
    BY <1>2
  <2>2. IsFiniteSet(P)
    BY PlaceIsNat
  <2> HIDE DEF P, Q
  <2>3. Cardinality(Q) = Cardinality(P) + 1
    BY <2>1, <2>2, FS_AddElement
  <2> QED
    BY <1>2, <2>3 DEF Place, P, Q
<1> QED
  BY <1>1, <1>2

\* A byte that is shown has its place among those shown by then.
LEMMA PlaceWithin ==
  ASSUME NEW k \in Nat, NEW j \in 1 .. k, written[j] # NUL
  PROVE  Place(j) \in 1 .. Place(k)
<1> DEFINE J == {i \in 1 .. j : written[i] # NUL}
           K == {i \in 1 .. k : written[i] # NUL}
<1>1. j \in Nat /\ {j} \subseteq J /\ J \subseteq K
  OBVIOUS
<1>2. IsFiniteSet(J) /\ IsFiniteSet(K) /\ Cardinality(J) \in Nat /\ Cardinality(K) \in Nat
  BY <1>1, PlaceIsNat DEF Place
<1> HIDE DEF J, K
<1>3. Cardinality({j}) = 1
  BY FS_Singleton
<1>4. 1 <= Cardinality(J) /\ Cardinality(J) <= Cardinality(K)
  BY <1>1, <1>2, <1>3, FS_Subset
<1> QED
  BY <1>2, <1>4 DEF Place, J, K

\* Writing more moves nothing that is already there.
LEMMA PlaceKept ==
  ASSUME NEW t \in Seq(Chars), written \in Seq(Chars), written' = written \o t,
         NEW k \in 0 .. Len(written)
  PROVE  Place(k)' = Place(k) /\ \A j \in 1 .. k : written'[j] = written[j]
<1>1. \A j \in 1 .. k : written'[j] = written[j]
  BY ConcatProperties, LenProperties
<1>2. {i \in 1 .. k : written'[i] # NUL} = {i \in 1 .. k : written[i] # NUL}
  BY <1>1
<1> QED
  BY <1>1, <1>2 DEF Place

\* Starting to write leaves the screen right up to where the new text begins.
LEMMA PutScreen ==
  ASSUME TypeOK, ShownUpTo(Len(written)), NEW t \in Seq(Chars), Put(t), screen' = screen
  PROVE  ScreenKept'
<1> PICK w \in Nat : w = Len(written)
  BY LenProperties DEF TypeOK
<1>1. pc' = "putc" /\ text' = t /\ n' = 0 /\ len1' = Len(t) /\ written' = written \o t
  BY DEF Put
<1>2. /\ Len(written') = w + Len(t) /\ Len(t) \in Nat
      /\ \A i \in 1 .. w + Len(t) : written'[i] = IF i <= w THEN written[i] ELSE t[i - w]
  BY <1>1, ConcatProperties, LenProperties DEF TypeOK
<1>3. \A i \in 1 .. len1' : text'[i] = written'[Len(written') - len1' + i]
  <2> SUFFICES ASSUME NEW i \in 1 .. Len(t)
               PROVE  t[i] = written'[w + i]
    BY <1>1, <1>2
  <2>1. w + i \in 1 .. w + Len(t) /\ ~(w + i <= w) /\ (w + i) - w = i
    BY <1>2
  <2> QED
    BY <1>2, <2>1
<1>4. ShownUpTo(w)'
  <2>1. \A k \in 0 .. w : Place(k)' = Place(k)
    BY <1>1, PlaceKept DEF TypeOK
  <2>2. \A k \in 1 .. w : written'[k] = written[k]
    BY <1>2
  <2>3. w \in 0 .. w /\ \A j \in 1 .. w : j \in 0 .. w
    OBVIOUS
  <2>4. Len(screen') = Place(w)'
    BY <2>1, <2>3 DEF ShownUpTo
  <2>5. ASSUME NEW j \in 1 .. w, written'[j] # NUL
        PROVE  screen'[Place(j)'] = written'[j]
    <3>1. written[j] # NUL /\ Place(j)' = Place(j) /\ written'[j] = written[j]
      BY <2>1, <2>2, <2>3, <2>5
    <3>2. screen[Place(j)] = written[j]
      BY <3>1 DEF ShownUpTo
    <3> QED
      BY <3>1, <3>2
  <2> QED
    BY <2>4, <2>5 DEF ShownUpTo
<1>5. Len(written') - len1' + n' = w /\ len1' <= Len(written')
  BY <1>1, <1>2
<1> QED
  BY <1>1, <1>3, <1>4, <1>5 DEF ScreenKept

\* goldfish_putc shows the next byte at its place, or leaves out a NUL.
LEMMA PutcScreen ==
  ASSUME TypeOK, ScreenKept, goldfish_putc
  PROVE  ScreenKept'
<1> PICK k : k = Len(written) - len1 + n
  OBVIOUS
<1>1. /\ pc = "putc" /\ pc' = "putc" /\ n < len1 /\ n' = n + 1
      /\ UNCHANGED <<written, text, len1>>
  BY DEF goldfish_putc, History
<1>2. /\ len1 = Len(text) /\ len1 <= Len(written) /\ Len(written) \in Nat
      /\ len1 \in Nat /\ n \in Nat
      /\ \A i \in 1 .. len1 : text[i] = written[Len(written) - len1 + i]
      /\ ShownUpTo(k)
  BY <1>1, LenProperties DEF ScreenKept, TypeOK
<1>3. k \in Nat /\ n + 1 \in 1 .. len1 /\ Len(written) - len1 + (n + 1) = k + 1
      /\ k + 1 \in 1 .. Len(written)
  BY <1>1, <1>2
<1>4. text[n + 1] = written[k + 1]
  BY <1>2, <1>3
<1>5. \A j : Place(j)' = Place(j)
  BY <1>1 DEF Place
<1>6. /\ screen \in Seq(Chars) /\ written[k + 1] \in Chars
      /\ screen' = IF written[k + 1] = NUL THEN screen ELSE Append(screen, written[k + 1])
  <2>1. written[k + 1] \in Chars
    BY <1>3, ElementOfSeq DEF TypeOK
  <2> QED
    BY <1>4, <2>1 DEF goldfish_putc, TypeOK
<1>7. Len(screen) = Place(k) /\ Place(k) \in Nat
      /\ Place(k + 1) = IF written[k + 1] = NUL THEN Place(k) ELSE Place(k) + 1
  BY <1>2, <1>3, PlaceIsNat, PlaceNext DEF ShownUpTo
<1>8. /\ Len(screen') = Place(k + 1)
      /\ \A i \in 1 .. Place(k) : screen'[i] = screen[i]
      /\ written[k + 1] # NUL => screen'[Place(k + 1)] = written[k + 1]
  <2>1. CASE written[k + 1] = NUL
    BY <1>6, <1>7, <2>1
  <2>2. CASE written[k + 1] # NUL
    <3>1. screen' = Append(screen, written[k + 1])
      BY <1>6, <2>2
    <3>2. /\ Len(screen') = Len(screen) + 1
          /\ \A i \in 1 .. Len(screen) : screen'[i] = screen[i]
          /\ screen'[Len(screen) + 1] = written[k + 1]
      BY <1>6, <3>1, AppendProperties
    <3> QED
      BY <1>7, <2>2, <3>2
  <2> QED
    BY <2>1, <2>2
<1>9. ASSUME NEW j \in 1 .. (k + 1), written[j] # NUL
      PROVE  screen'[Place(j)] = written[j]
  <2>1. CASE j = k + 1
    BY <1>8, <1>9, <2>1
  <2>2. CASE j \in 1 .. k
    <3>1. Place(j) \in 1 .. Place(k)
      BY <1>3, <1>9, <2>2, PlaceWithin
    <3>2. screen[Place(j)] = written[j]
      BY <1>2, <1>9, <2>2 DEF ShownUpTo
    <3> QED
      BY <1>8, <3>1, <3>2
  <2> QED
    BY <1>3, <2>1, <2>2
<1>10. ShownUpTo(k + 1)'
  BY <1>1, <1>5, <1>8, <1>9 DEF ShownUpTo
<1>11. Len(written') - len1' + n' = k + 1
  BY <1>1, <1>3
<1> QED
  BY <1>1, <1>2, <1>10, <1>11 DEF ScreenKept

LEMMA ScreenStep ==
  ASSUME Inv, [Next]_vars
  PROVE  ScreenKept'
<1>1. TypeOK /\ Callers /\ ReadFits /\ ScreenKept
  BY DEF Inv
<1>2. pc # "putc" => ShownUpTo(Len(written))
  BY <1>1 DEF ScreenKept
<1>3. ASSUME UNCHANGED <<screen, written>>, ShownUpTo(Len(written)), pc' # "putc"
      PROVE  ScreenKept'
  BY <1>3 DEF ScreenKept, ShownUpTo, Place
<1>4. ASSUME UNCHANGED <<screen, written, text, len1, n, pc>>
      PROVE  ScreenKept'
  BY <1>1, <1>4 DEF ScreenKept, ShownUpTo, Place
<1>5. ASSUME NEW k \in Keys, Type(k)
      PROVE  ScreenKept'
  BY <1>4, <1>5 DEF Type, CallVars
<1>6. CASE Start
  BY <1>1, <1>2, <1>3, <1>6, PutScreen, TextsAreTexts DEF Start
<1>7. CASE goldfish_putc
  BY <1>1, <1>7, PutcScreen
<1>8. CASE PutDone
  <2>1. ShownUpTo(Len(written))
    <3>1. Len(written) - len1 + n = Len(written)
      BY <1>1, <1>8, LenProperties DEF TypeOK, PutDone
    <3> QED
      BY <1>1, <1>8, <3>1 DEF PutDone, ScreenKept
  <2> QED
    BY <1>3, <1>8, <2>1 DEF PutDone, Device, History
<1>9. CASE goldfish_getc
  BY <1>1, <1>2, <1>3, <1>9, GetcFinds DEF goldfish_getc, Device, History
<1>10. CASE goldfish_gets
  BY <1>2, <1>3, <1>10 DEF goldfish_gets, History
<1>11. CASE Poll
  BY <1>2, <1>3, <1>11 DEF Poll, Device, History
<1>12. CASE Echo
  <2>1. buf \in Seq(Chars)
    BY <1>1, KeysAreText DEF TypeOK
  <2> QED
    BY <1>1, <1>2, <1>12, <2>1, PutScreen DEF Echo, Device
<1>13. CASE Block
  BY <1>2, <1>3, <1>13 DEF Block, Device, History
<1>14. CASE ReadDone
  BY <1>2, <1>3, <1>14 DEF ReadDone, Device
<1>15. CASE Main \/ Library
  <2>1. SystemCall
    BY <1>1, <1>15, CallsOfPrograms
  <2>2. pc = "idle" /\ screen' = screen
    BY <1>1, <2>1, CallPlaces
  <2>3. \/ pc' # "putc" /\ UNCHANGED written
        \/ \E t \in Seq(Chars) : Put(t)
    <3>1. ASSUME NEW incr \in Increments, _sbrk(incr)
          PROVE  (pc' # "putc" /\ UNCHANGED written) \/ Put(ErrorText)
      BY <2>2, <3>1 DEF _sbrk
    <3> QED
      BY <2>1, <2>2, <3>1, TextsAreTexts
         DEF SystemCall, _write, _read, _isatty, Answer, Refuse, NoCall
  <2> QED
    BY <1>1, <1>2, <1>3, <2>2, <2>3, PutScreen
<1>16. CASE UNCHANGED vars
  BY <1>4, <1>16 DEF vars, Device, CallVars, History
<1> QED
  BY <1>5, <1>6, <1>7, <1>8, <1>9, <1>10, <1>11, <1>12, <1>13, <1>14, <1>15, <1>16
     DEF Next, Program, Driver, Spin

-----------------------------------------------------------------------------
(* The theorems. *)

LEMMA InitInv ==
  ASSUME Init
  PROVE  Inv
<1> USE DEF Init
<1>1. \A S : <<>> \in Seq(S) /\ Len(<<>>) = 0
  BY EmptySeq
<1>2. TypeOK
  BY <1>1 DEF TypeOK, StdioOK, Files
<1>3. HeapExact /\ Callers /\ ReadFits
  BY DEF HeapExact, Callers, ReadFits, Reading
<1>4. KeysKept
  <2>1. <<>> \o <<>> \o <<>> = <<>>
    BY <1>1, ConcatEmptySeq
  <2> QED
    BY <2>1 DEF KeysKept, Reading
<1>5. ShownUpTo(0)
  <2>1. {i \in 1 .. 0 : written[i] # NUL} = {}
    OBVIOUS
  <2>2. Place(0) = 0
    BY <2>1, FS_EmptySet DEF Place
  <2> QED
    BY <1>1, <2>2 DEF ShownUpTo
<1>6. ScreenKept
  BY <1>1, <1>5 DEF ScreenKept
<1> QED
  BY <1>2, <1>3, <1>4, <1>6 DEF Inv

\* The loops of _read, _write and c05e2 stay inside their buffers, every key is with
\* a caller, in a read or in TTY2, the screen is right at every byte, and _sbrk's
\* heap is one piece that leaves the stack its room.
THEOREM InvHolds == Spec => []Inv
<1>1. Init => Inv
  BY InitInv
<1>2. Inv /\ [Next]_vars => Inv'
  <2> SUFFICES ASSUME Inv, [Next]_vars
               PROVE  Inv'
    OBVIOUS
  <2> QED
    BY TypeStep, HeapStep, CallersStep, ReadFitsStep, KeysKeptStep, ScreenStep DEF Inv
<1> QED
  BY <1>1, <1>2, PTL DEF Spec

\* _sbrk grants memory without overlap and keeps the room for the stack.
THEOREM HeapHolds == Spec => []HeapExact
<1>1. Inv => HeapExact
  BY DEF Inv
<1> QED
  BY <1>1, InvHolds, PTL

\* However typing falls into a read, no key is lost or overtaken.
THEOREM NothingLostHolds == Spec => []NothingLost
<1>1. Inv => NothingLost
  <2> SUFFICES ASSUME Inv, AtRest
               PROVE  taken \o ready = typed
    BY DEF NothingLost
  <2>1. taken \o <<>> \o ready = typed
    BY DEF Inv, KeysKept, AtRest, Reading
  <2>2. taken \o <<>> = taken
    BY ConcatEmptySeq DEF Inv, TypeOK
  <2> QED
    BY <2>1, <2>2
<1> QED
  BY <1>1, InvHolds, PTL

\* Every text is shown whole and in order, but for its NULs.
THEOREM ScreenRightHolds == Spec => []ScreenRight
<1>1. Inv => ScreenRight
  BY DEF Inv, ScreenKept, ScreenRight, AtRest
<1> QED
  BY <1>1, InvHolds, PTL

\* _read gives the library from 1 byte to as many as its buffer holds, and all keys.
THEOREM ReadsSomeHolds == Spec => ReadsSome
<1>1. Inv /\ [Next]_vars =>
        [pc = "getc" /\ pc' = "idle" =>
           ret' \in 1 .. room /\ Len(buf) = ret' /\ ToSet(buf) \subseteq Keys]_vars
  <2> SUFFICES ASSUME Inv, Next, pc = "getc", pc' = "idle"
               PROVE  ret' \in 1 .. room /\ Len(buf) = ret' /\ ToSet(buf) \subseteq Keys
    OBVIOUS
  <2>1. TypeOK /\ Callers /\ ReadFits
    BY DEF Inv
  <2>2. CASE ReadDone
    <3>1. /\ ret' = n /\ n = len1 /\ len1 # 0 /\ len1 <= room /\ Len(buf) = n
          /\ len1 \in Nat /\ room \in Nat /\ buf \in Seq(Keys)
      BY <2>1, <2>2 DEF ReadDone, ReadFits, Reading, TypeOK
    <3>2. ToSet(buf) \subseteq Keys
      BY <3>1, ElementOfSeq, LenProperties DEF ToSet
    <3> QED
      BY <3>1, <3>2
  <2>3. ReadDone
    <3>1. ~(Main \/ Library)
      BY <2>1, CallsOfPrograms, CallPlaces
    <3> QED
      BY <3>1 DEF Next, Program, Driver, Type, Start, goldfish_putc, PutDone, goldfish_getc,
         goldfish_gets, Poll, Echo, Put, Block, Spin, vars
  <2> QED
    BY <2>2, <2>3
<1> QED
  BY <1>1, InvHolds, PTL DEF Spec, ReadsSome
=============================================================================
