------------------------------- MODULE Console ------------------------------
(***************************************************************************)
(* The serial console drivers/serial_goldfish.c and the system calls of    *)
(* drivers/syscalls_cs3.c over it.  Three programs use them: c05e2, which  *)
(* calls the driver itself and echoes what is typed until a 'q'; c06e1,    *)
(* which does so with malloc, printf, getchar and putchar; and any program *)
(* linked with the C library, which makes any sequence of system calls.    *)
(* Keys are typed at any time; the program goes by one access to the       *)
(* device at a time.  goldfish_init comes before all else (c05e2's main    *)
(* and the library's _init call it), so that gtty.base is set and the      *)
(* driver's own tests of it never call it again.                           *)
(*                                                                         *)
(* The library's own buffers are external: standard input takes what one   *)
(* _read brings, standard output is written at the end of a line (_isatty  *)
(* makes it a terminal) and on exit.                                       *)
(***************************************************************************)
EXTENDS Integers, Sequences, SequencesExt, FiniteSets

CONSTANTS
  Keys, MaxTyped,          \* what is typed, and how often
  Texts,                   \* what the library writes
  Lens,                    \* the buffer sizes it reads into
  Increments,              \* what it asks of _sbrk
  MaxCalls,                \* how many calls it makes
  HeapStart, HeapEnd, STACK_BUFFER_SIZE

NUL == "nul"
Minus1 == "ff"             \* (char) -1
Banner == <<"(", "c", ")">>
ErrorText == <<"!">>       \* "Error in _sbrk!\n"
Hello == <<"H">>           \* "Hello, World!\n1"
Line == <<"=">>            \* ". buffer=%x\n"
Bye == <<"E">>             \* "\nExit from main()...\n"
STDIN_FILENO == 0
STDOUT_FILENO == 1
STDERR_FILENO == 2
BUFSIZ == 1024
Files == 0 .. 3            \* 3 is no file

\* The characters of everything that is written: keys, the programs' texts, the library's.
Chars ==
  Keys \cup {"(", "c", ")", "!", "H", "=", "E", "exit"} \cup UNION {ToSet(t) : t \in Texts}

ASSUME ConsoleAssumption ==
  /\ {"q", NUL} \subseteq Keys /\ Texts \subseteq Seq(Chars)
  /\ Keys \cap ({Minus1} \cup ToSet(Banner \o ErrorText \o Hello \o Line \o Bye \o <<"exit">>)) = {}
  /\ Lens \subseteq Nat \ {0} /\ Increments \subseteq Int
  /\ HeapStart \in Nat \ {0} /\ HeapEnd \in Nat /\ STACK_BUFFER_SIZE \in Nat
  /\ HeapStart + STACK_BUFFER_SIZE <= HeapEnd

VARIABLES
  ready, screen,           \* TTY2: bytes ready; bytes it has shown
  program, pc,
  file, room, len1, text, n,   \* the call under way
  buf, ret, errno,
  heap_end,                \* 0 until the first _sbrk
  at, inbuf, outbuf,       \* c06e1: where main is; standard input and output
  typed, taken, written,   \* history: keys typed, bytes given to and asked for by the callers
  used,                    \* history: addresses _sbrk has given to the library
  calls                    \* calls the library has made

Device == <<ready, screen>>
CallVars == <<file, room, len1, text, n, buf>>
Heap == <<heap_end, used>>
History == <<typed, taken, written, calls>>
Stdio == <<at, inbuf, outbuf>>
vars == <<Device, program, pc, CallVars, ret, errno, Heap, Stdio, History>>

Programs == {"c05e2", "c06e1", "libc"}

\* The calls a system without files and processes only answers (_fstat and _stat
\* also say S_IFCHR), and those it refuses with -1 and an error in errno.  Their
\* answers are as in the code, and no property depends on them; what matters is that
\* they leave device and heap alone, whatever they come between.
Answers == [_close |-> -1, _fstat |-> 0, _getpid |-> 1, _lseek |-> 0, _stat |-> 0]
Refuses ==
  [_open |-> "ENOSYS", _execve |-> "ENOMEM", _fork |-> "EAGAIN", _kill |-> "EINVAL",
   _link |-> "EMLINK", _unlink |-> "ENOENT", _wait |-> "ECHILD"]

StdioOK ==
  /\ at \in {"hello", "malloc", "printf", "getchar", "fill", "putchar", "return", "_exit", "end"}
  /\ inbuf \in Seq(Keys) /\ outbuf \in Seq(Keys)

TypeOK ==
  /\ ready \in Seq(Keys) /\ screen \in Seq(Chars)
  /\ program \in Programs
  /\ pc \in {"start", "idle", "tstc", "getc", "gets", "putc", "poll", "stop"}
  /\ file \in Files /\ room \in Nat /\ text \in Seq(Chars)
  /\ len1 \in Nat /\ n \in 0 .. len1
  /\ buf \in Seq(Keys) /\ ret \in Int /\ errno \in {"0", "EBADF"} \cup { Refuses[c] : c \in DOMAIN Refuses }
  /\ heap_end \in Nat
  /\ StdioOK
  /\ typed \in Seq(Keys) /\ taken \in Seq(Keys) /\ written \in Seq(Chars)
  /\ used \subseteq Int

Init ==
  /\ ready = <<>> /\ screen = <<>>
  /\ program \in Programs /\ pc = "start"
  /\ file = 0 /\ room = 0 /\ len1 = 0 /\ text = <<>> /\ n = 0 /\ buf = <<>>
  /\ ret = 0 /\ errno = "0" /\ heap_end = 0
  /\ at = "hello" /\ inbuf = <<>> /\ outbuf = <<>>
  /\ typed = <<>> /\ taken = <<>> /\ written = <<>> /\ used = {}
  /\ calls = 0

Type(k) ==
  /\ Len(typed) < MaxTyped
  /\ ready' = Append(ready, k) /\ typed' = Append(typed, k)
  /\ UNCHANGED <<screen, program, pc, CallVars, ret, errno, Heap, Stdio, taken, written, calls>>

-----------------------------------------------------------------------------
(* The driver's transfers, shared by both programs.                        *)

\* Start writing t: default_serial_puts, _write's loop, goldfish_putc.
Put(t) == pc' = "putc" /\ text' = t /\ n' = 0 /\ len1' = Len(t) /\ written' = written \o t

\* goldfish_init, from main or from _init.
Start ==
  /\ pc = "start"
  /\ \/ program = "c05e2" /\ Put(Banner)
     \/ program # "c05e2" /\ pc' = "idle" /\ UNCHANGED <<text, n, len1, written>>
  /\ UNCHANGED <<ready, screen, program, file, room, buf, ret, errno, Heap, Stdio, typed, taken, calls>>

goldfish_putcMutant ==     \* Mutant: at a NUL the rest of the text is dropped, as in a string.
  /\ pc = "putc" /\ n < len1
  /\ screen' = IF text[n + 1] = NUL THEN screen ELSE Append(screen, text[n + 1])
  /\ n' = IF text[n + 1] = NUL THEN len1 ELSE n + 1
  /\ UNCHANGED <<ready, program, pc, file, room, len1, text, buf, ret, errno, Heap, Stdio, History>>

goldfish_putc ==
  /\ pc = "putc" /\ n < len1
  /\ screen' = IF text[n + 1] = NUL THEN screen ELSE Append(screen, text[n + 1])
  /\ n' = n + 1
  /\ UNCHANGED <<ready, program, pc, file, room, len1, text, buf, ret, errno, Heap, Stdio, History>>

PutDone ==
  /\ pc = "putc" /\ n = len1
  /\ pc' = CASE program # "c05e2" -> "idle"
             [] program = "c05e2" /\ buf = <<"q">> -> "stop"
             [] OTHER -> "poll"
  /\ UNCHANGED <<Device, program, CallVars, ret, errno, Heap, Stdio, History>>

\* goldfish_getc finds a byte ready, or gives -1.
goldfish_getc ==
  /\ pc = "getc" /\ n < len1
  /\ IF ready # <<>> THEN pc' = "gets" /\ UNCHANGED <<buf, n>>
     ELSE buf' = Append(buf, Minus1) /\ n' = n + 1 /\ UNCHANGED pc
  /\ UNCHANGED <<Device, program, file, room, len1, text, ret, errno, Heap, Stdio, History>>

goldfish_getsMutant ==     \* Mutant: all that is ready is fetched, for one byte.
  /\ pc = "gets"
  /\ buf' = Append(buf, Head(ready)) /\ n' = n + 1 /\ ready' = <<>>
  /\ pc' = "getc"
  /\ UNCHANGED <<screen, program, file, room, len1, text, ret, errno, Heap, Stdio, History>>

goldfish_gets ==           \* of one byte
  /\ pc = "gets"
  /\ buf' = Append(buf, Head(ready)) /\ n' = n + 1 /\ ready' = Tail(ready)
  /\ pc' = "getc"
  /\ UNCHANGED <<screen, program, file, room, len1, text, ret, errno, Heap, Stdio, History>>

-----------------------------------------------------------------------------
goldfish_tstc == Len(ready)

(* c05e2's main: goldfish_tstc, goldfish_getc, goldfish_putc. *)
Poll ==
  /\ pc = "poll" /\ goldfish_tstc # 0
  /\ pc' = "getc" /\ n' = 0 /\ len1' = 1 /\ buf' = <<>>
  /\ UNCHANGED <<Device, program, file, room, text, ret, errno, Heap, Stdio, History>>

Echo ==
  /\ program = "c05e2" /\ pc = "getc" /\ n = len1
  /\ taken' = taken \o buf
  /\ Put(buf)
  /\ UNCHANGED <<Device, program, file, room, buf, ret, errno, Heap, Stdio, typed, calls>>

-----------------------------------------------------------------------------
(* System calls. *)
_write(f, t) ==
  /\ pc = "idle"
  /\ \/ f \in {STDOUT_FILENO, STDERR_FILENO} /\ Put(t) /\ ret' = Len(t) /\ UNCHANGED errno
     \/ /\ f \notin {STDOUT_FILENO, STDERR_FILENO}
        /\ ret' = -1 /\ errno' = "EBADF" /\ UNCHANGED <<pc, text, n, len1, written>>
  /\ UNCHANGED <<Device, program, file, room, buf, Heap, typed, taken>>

_read(f, len) ==
  /\ pc = "idle"
  /\ pc' = "tstc" /\ file' = f /\ room' = len /\ buf' = <<>>
  /\ UNCHANGED <<Device, program, len1, n, text, ret, errno, Heap, typed, taken, written>>

WaitsMutant == goldfish_tstc < room      \* Mutant: it waits for a full buffer, as its comment has it.
Waits == goldfish_tstc <= 0

ClipUnclipped == goldfish_tstc           \* Mutant: as many bytes as are ready.
Clip == IF goldfish_tstc > room THEN room ELSE goldfish_tstc

\* The end of the blocking loop: only when a byte is ready is the file looked at.
Block ==
  /\ pc = "tstc" /\ ~Waits
  /\ \/ /\ file = STDIN_FILENO
        /\ pc' = "getc" /\ len1' = Clip /\ n' = 0 /\ UNCHANGED <<ret, errno>>
     \/ /\ file # STDIN_FILENO
        /\ pc' = "idle" /\ ret' = -1 /\ errno' = "EBADF" /\ UNCHANGED <<len1, n>>
  /\ UNCHANGED <<Device, program, file, room, text, buf, Heap, Stdio, History>>

ReadDone ==
  /\ program # "c05e2" /\ pc = "getc" /\ n = len1
  /\ pc' = "idle" /\ ret' = n /\ taken' = taken \o buf
  /\ UNCHANGED <<Device, program, CallVars, errno, Heap, Stdio, typed, written, calls>>

FitsMutant(prev_heap_end, incr) == prev_heap_end + incr <= HeapEnd   \* Mutant: no room for the stack.
Fits(prev_heap_end, incr) == prev_heap_end + STACK_BUFFER_SIZE + incr <= HeapEnd

\* The library asks for more, or gives back the end of what it has.
_sbrk(incr) ==
  /\ pc = "idle"
  /\ incr < 0 => {heap_end + k : k \in incr .. -1} \subseteq used
  /\ LET prev_heap_end == IF heap_end = 0 THEN HeapStart ELSE heap_end
     IN  \/ /\ Fits(prev_heap_end, incr)
            /\ heap_end' = prev_heap_end + incr /\ ret' = prev_heap_end
            /\ used' = IF incr > 0 THEN used \cup ret' .. (ret' + incr - 1)
                       ELSE used \ ((ret' + incr) .. (ret' - 1))
            /\ UNCHANGED <<pc, text, n, len1, written, errno>>
         \/ /\ ~Fits(prev_heap_end, incr)
            /\ heap_end' = prev_heap_end /\ ret' = 0 /\ errno' = "ENOMEM"
            /\ Put(ErrorText) /\ UNCHANGED used
  /\ UNCHANGED <<Device, program, file, room, buf, typed, taken>>

\* _isatty and the calls that only answer or refuse.
_isatty(f) ==
  /\ pc = "idle"
  /\ \/ f \in 0 .. 2 /\ ret' = 1 /\ UNCHANGED errno
     \/ f \notin 0 .. 2 /\ ret' = 0 /\ errno' = "EBADF"
  /\ UNCHANGED <<Device, program, pc, CallVars, Heap, typed, taken, written>>

Answer(call) ==
  /\ pc = "idle"
  /\ ret' = Answers[call]
  /\ UNCHANGED <<Device, program, pc, CallVars, errno, Heap, typed, taken, written>>

Refuse(call) ==
  /\ pc = "idle"
  /\ ret' = -1 /\ errno' = Refuses[call]
  /\ UNCHANGED <<Device, program, pc, CallVars, Heap, typed, taken, written>>

Library ==
  /\ program = "libc" /\ calls < MaxCalls
  /\ \/ \E f \in Files : \/ \E t \in Texts : _write(f, t)
                         \/ \E len \in Lens : _read(f, len)
                         \/ _isatty(f)
     \/ \E incr \in Increments : _sbrk(incr)
     \/ \E call \in DOMAIN Answers : Answer(call)
     \/ \E call \in DOMAIN Refuses : Refuse(call)
  /\ calls' = calls + 1
  /\ UNCHANGED Stdio

-----------------------------------------------------------------------------
(* c06e1's main. *)
MainAt(here, next) == program = "c06e1" /\ at = here /\ at' = next /\ UNCHANGED calls
NoCall ==
  /\ pc = "idle"
  /\ UNCHANGED <<Device, program, pc, CallVars, ret, errno, Heap, typed, taken, written>>

MainHello ==
  /\ MainAt("hello", "malloc")
  /\ _write(STDERR_FILENO, Hello) /\ UNCHANGED <<inbuf, outbuf>>

MainMalloc ==              \* with or without asking for more memory
  /\ MainAt("malloc", "printf")
  /\ NoCall \/ \E incr \in Increments \cap Nat : _sbrk(incr)
  /\ UNCHANGED <<inbuf, outbuf>>

MainPrintf ==              \* a whole line: what putchar has left is written with it
  /\ MainAt("printf", "getchar")
  /\ _write(STDOUT_FILENO, outbuf \o Line) /\ outbuf' = <<>> /\ UNCHANGED inbuf

MainGetchar ==
  \/ MainAt("getchar", "putchar") /\ inbuf # <<>> /\ NoCall /\ UNCHANGED <<inbuf, outbuf>>
  \/ /\ MainAt("getchar", "fill") /\ inbuf = <<>>
     /\ _read(STDIN_FILENO, BUFSIZ) /\ UNCHANGED <<inbuf, outbuf>>
  \/ MainAt("fill", "putchar") /\ NoCall /\ inbuf' = buf /\ UNCHANGED outbuf

MainPutchar ==             \* putchar(c); free(buffer) unless c is 's'; the test for 'q'
  /\ MainAt("putchar", IF Head(inbuf) = "q" THEN "return" ELSE "malloc")
  /\ outbuf' = Append(outbuf, Head(inbuf)) /\ inbuf' = Tail(inbuf)
  /\ NoCall

MainReturn ==
  /\ MainAt("return", "_exit")
  /\ _write(STDOUT_FILENO, outbuf \o Bye) /\ outbuf' = <<>> /\ UNCHANGED inbuf

_exit == MainAt("_exit", "end") /\ _write(STDOUT_FILENO, <<"exit">>) /\ UNCHANGED <<inbuf, outbuf>>

Main ==
  MainHello \/ MainMalloc \/ MainPrintf \/ MainGetchar \/ MainPutchar \/ MainReturn \/ _exit

-----------------------------------------------------------------------------
\* The loops of _read, of _exit, of c05e2's main and of ResetISR_STOP, as long as
\* they change nothing; and the library when it has made its calls.
Spin ==
  /\ \/ pc = "tstc" /\ Waits
     \/ pc = "poll" /\ goldfish_tstc = 0
     \/ pc = "stop"
     \/ pc = "idle" /\ (calls = MaxCalls \/ at = "end")
  /\ UNCHANGED vars

Driver == Start \/ goldfish_putc \/ PutDone \/ goldfish_getc \/ goldfish_gets
Program == Driver \/ Poll \/ Echo \/ Block \/ ReadDone \/ Main
Next == (\E k \in Keys : Type(k)) \/ Program \/ Library \/ Spin

\* The CPU runs: a call that can go on does.
Spec == Init /\ [][Next]_vars /\ WF_vars(Program)

-----------------------------------------------------------------------------
(* Properties. *)
AtRest == pc \in {"idle", "poll", "stop"}

\* Between calls, what the callers were given and what TTY2 still holds are all the
\* keys typed, in their order, however typing falls into a read.
NothingLost == AtRest => taken \o ready = typed

\* _read returns -1, or from 1 to as many bytes as its buffer holds and all of them
\* typed: never 0, which the library takes for the end of the input, and never the
\* -1 of goldfish_getc as a byte.
ReadsSome ==
  [][pc = "getc" /\ pc' = "idle" =>
       ret' \in 1 .. room /\ Len(buf) = ret' /\ ToSet(buf) \subseteq Keys]_vars

\* Between calls the screen shows every text that was to be written and every key
\* echoed, whole and in order, but for its NULs: the k-th byte that is not NUL is
\* the k-th on the screen.
Place(j) == Cardinality({i \in 1 .. j : written[i] # NUL})
ShownUpTo(k) ==
  /\ Len(screen) = Place(k)
  /\ \A j \in 1 .. k : written[j] # NUL => screen[Place(j)] = written[j]
ScreenRight == AtRest => ShownUpTo(Len(written))

\* What the library holds is one piece of memory from the heap's start to heap_end,
\* granted without overlap, and below the room for the stack; a request that is
\* refused changes nothing.
HeapExact ==
  IF heap_end = 0 THEN used = {}
  ELSE /\ used = HeapStart .. (heap_end - 1)
       /\ HeapStart <= heap_end /\ heap_end + STACK_BUFFER_SIZE <= HeapEnd

-----------------------------------------------------------------------------
(* The inductive invariant behind them. *)
Reading == pc \in {"getc", "gets"}

\* Each program makes the calls it makes; c06e1's buffers hold what it will take.
Callers ==
  /\ pc = "poll" => program = "c05e2"
  /\ pc \in {"idle", "tstc"} => program # "c05e2"
  /\ at # "hello" => program = "c06e1"
  /\ (pc = "tstc" \/ Reading) /\ program = "c06e1" => at = "fill"
  /\ at = "fill" => file = STDIN_FILENO /\ (pc = "tstc" \/ Reading \/ (pc = "idle" /\ buf # <<>>))
  /\ at = "putchar" => pc = "idle" /\ inbuf # <<>>

\* A read loop asks for as many bytes as are ready, and as its buffer has room for.
ReadFits ==
  /\ pc = "tstc" => room # 0 /\ buf = <<>>
  /\ Reading =>
       /\ len1 # 0 /\ Len(buf) = n /\ len1 - n <= Len(ready)
       /\ program # "c05e2" => len1 <= room
       /\ pc = "gets" => n < len1

\* What a read under way has fetched stands between what callers have and TTY2.
KeysKept == taken \o (IF Reading THEN buf ELSE <<>>) \o ready = typed

\* The text being written is the end of `written', shown up to its n-th byte.
ScreenKept ==
  IF pc = "putc"
  THEN /\ len1 = Len(text) /\ len1 <= Len(written)
       /\ \A i \in 1 .. len1 : text[i] = written[Len(written) - len1 + i]
       /\ ShownUpTo(Len(written) - len1 + n)
  ELSE ShownUpTo(Len(written))

\* The invariant of the calls' state: the loops stay inside their buffers, no key
\* or byte is lost inside a call, and the heap is exact.
Inv ==
  /\ TypeOK
  /\ HeapExact
  /\ Callers
  /\ ReadFits
  /\ KeysKept
  /\ ScreenKept

\* c05e2 and c06e1 show every key up to the first 'q', in order, whether it was
\* typed alone or waited in TTY2 or in the library with others, and without another
\* key having to push it out: _read returns as soon as there is a byte.
Shown == SelectSeq(screen, LAMBDA c : c \in Keys)
ToShow(k) ==
  LET echo == SelectInSeq(typed, LAMBDA c : c = "q")
      last == IF echo \in 1 .. k THEN echo ELSE k
  IN  SelectSeq(SubSeq(typed, 1, last), LAMBDA c : c # NUL)
EchoesAll ==
  \A k \in 1 .. MaxTyped :
    (program # "libc" /\ Len(typed) >= k) ~> (Len(typed) >= k /\ IsPrefix(ToShow(k), Shown))
=============================================================================
