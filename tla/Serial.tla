------------------------------- MODULE Serial -------------------------------
(***************************************************************************)
(* The receive path of a serial device (components/drivers/serial/serial.c *)
(* version 1) from its interrupt to the shell: the handler puts characters *)
(* into the receive FIFO and indicates them, finsh_rx_ind releases the     *)
(* semaphore that finsh_getchar waits on.  The device is opened in         *)
(* interrupt mode, as the shell does (shell.c:225); no device of this      *)
(* build has RT_DEVICE_FLAG_DMA_RX.  Transmission is by polling and has no *)
(* state.                                                                  *)
(***************************************************************************)
EXTENDS Cpu

CONSTANTS rx_sem,    \* shell->rx_sem
          Char,      \* the characters that arrive
          BufSz,     \* serial->config.bufsz
          Burst,     \* bound: the characters that arrive for one interrupt
          ValueMax,  \* RT_SEM_VALUE_MAX
          Lengths    \* the sizes of reads by other threads

ASSUME SerialAssumption ==
    /\ Obj = {rx_sem}
    /\ BufSz \in Nat /\ BufSz > 1
    /\ Burst \in Nat \ {0}
    /\ ValueMax \in Nat \ {0}
    /\ Lengths \subseteq Nat \ {0}
    /\ None \notin Char           \* the zeros the buffer is filled with

VARIABLES fifo,    \* serial->serial_rx
          value,   \* shell->rx_sem
          left,    \* what is still to be read by the read a thread is in
          got      \* the character that the last section of a read fetched

vars == <<k, isr, pc, fifo, value, left, got>>
serialVars == <<fifo, value, left, got>>

Fifo == [buffer : [0 .. BufSz - 1 -> Char \cup {None}], put_index : 0 .. BufSz - 1,
         get_index : 0 .. BufSz - 1, is_full : BOOLEAN]
Bursts == BoundedSeq(Char, Burst)
SerialPc == CpuPc \cup {"read", "getchar", "empty", "take", "took"}

-----------------------------------------------------------------------------
(* The receive FIFO *)

\* "there's no data" of _serial_int_rx
NoData(f) == f.get_index = f.put_index /\ ~f.is_full

\* a slip for testing the properties: an overrun leaves get_index alone
PutKeepsOldest(f, c) ==
    LET put == (f.put_index + 1) % BufSz
    IN  [f EXCEPT !.buffer[f.put_index] = c, !.put_index = put,
                  !.is_full = @ \/ put = f.get_index]

\* one character of RT_SERIAL_EVENT_RX_IND
PutChar(f, c) ==
    LET put == (f.put_index + 1) % BufSz
        full == put = f.get_index
    IN  [f EXCEPT !.buffer[f.put_index] = c, !.put_index = put,
                  !.get_index = IF full THEN (@ + 1) % BufSz ELSE @,
                  !.is_full = @ \/ full]

\* "otherwise there's the data"
FetchChar(f) == [f EXCEPT !.get_index = (@ + 1) % BufSz, !.is_full = FALSE]

-----------------------------------------------------------------------------
(* The interrupt *)

\* a slip: the length is taken for 0 when put_index has wrapped
IndicatedForward(f) == Max({0, f.put_index - f.get_index})

\* rx_length, by which the handler decides to indicate
Indicated(f) == (f.put_index - f.get_index) % BufSz

\* finsh_rx_ind: the section of rt_sem_release, a full semaphore refused
Indicate ==
    IF k.wait[rx_sem] # <<>>
    THEN /\ k' = ipc_list_resume(k, rx_sem)
         /\ GotoFrame("sched")
         /\ UNCHANGED value
    ELSE /\ value' = IF value < ValueMax THEN value + 1 ELSE value
         /\ GotoFrame("leave")
         /\ UNCHANGED k

\* RT_SERIAL_EVENT_RX_IND of rt_hw_serial_isr, with the characters that getc finds
\* until there is none: nothing else touches the FIFO meanwhile
rt_hw_serial_isr(cs) ==
    /\ InHandler("dev", "body")
    /\ fifo' = FoldLeft(PutChar, fifo, cs)
    /\ IF Indicated(fifo') > 0
       THEN Indicate
       ELSE GotoFrame("leave") /\ UNCHANGED <<k, value>>
    /\ UNCHANGED <<pc, left, got>>

-----------------------------------------------------------------------------
(* Reading *)

SetLeft(t, n) == left' = [left EXCEPT ![t] = n]

\* rt_device_read of n characters, and the rt_device_read of finsh_getchar
rt_serial_read(t, n) ==
    /\ Calls(t, "read")
    /\ SetLeft(t, n) /\ Goto(t, "read")
    /\ UNCHANGED <<k, isr, fifo, value, got>>

finsh_getchar(t) ==
    /\ Calls(t, "getchar")
    /\ SetLeft(t, 1) /\ Goto(t, "getchar")
    /\ UNCHANGED <<k, isr, fifo, value, got>>

\* one turn of the loop of _serial_int_rx, a section; a read that finds nothing goes
\* on at none
ReadSection(t, at, none) ==
    /\ At(t, at)
    /\ IF NoData(fifo)
       THEN SetLeft(t, 0) /\ Goto(t, none) /\ UNCHANGED <<fifo, got>>
       ELSE /\ got' = fifo.buffer[fifo.get_index]
            /\ fifo' = FetchChar(fifo)
            /\ SetLeft(t, left[t] - 1)
            /\ Goto(t, IF left[t] > 1 THEN at ELSE "run")
    /\ UNCHANGED <<k, isr, value>>

\* finsh_getchar found nothing: rt_sem_take(&shell->rx_sem, RT_WAITING_FOREVER),
\* and then it reads again
TakeRxSem(t) ==
    /\ At(t, "empty")
    /\ IF value > 0
       THEN /\ value' = value - 1
            /\ SetLeft(t, 1) /\ Goto(t, "getchar")
            /\ UNCHANGED k
       ELSE /\ k' = ipc_list_suspend(k, rx_sem, t, "FIFO", None)
            /\ Goto(t, "take")
            /\ UNCHANGED <<value, left>>
    /\ UNCHANGED <<isr, fifo, got>>

TookRxSem(t) ==
    /\ At(t, "took")
    /\ SetLeft(t, 1) /\ Goto(t, "getchar")
    /\ UNCHANGED <<k, isr, fifo, value, got>>

-----------------------------------------------------------------------------
\* rt_serial_open has allocated the FIFO
Init ==
    /\ CpuInit
    /\ fifo = [buffer |-> [i \in 0 .. BufSz - 1 |-> None],
               put_index |-> 0, get_index |-> 0, is_full |-> FALSE]
    /\ value = 0
    /\ left = [t \in Thread |-> 0]
    /\ got = None

Finish(t) ==
    \/ CpuFinish(t) /\ UNCHANGED serialVars
    \/ ReadSection(t, "read", "run")
    \/ ReadSection(t, "getchar", "empty")
    \/ TakeRxSem(t)
    \/ ThreadSchedule(t, "take", "took") /\ UNCHANGED serialVars
    \/ TookRxSem(t)

Call(t) ==
    \/ CpuCall(t) /\ UNCHANGED serialVars
    \/ \E n \in Lengths : rt_serial_read(t, n)
    \/ finsh_getchar(t)

Next ==
    \/ CpuStep({}) /\ UNCHANGED serialVars
    \/ \E cs \in Bursts : rt_hw_serial_isr(cs)
    \/ \E t \in Thread : Running(t) /\ (Finish(t) \/ Call(t))

Spec == Init /\ [][Next]_vars

-----------------------------------------------------------------------------
\* the type invariant of the composition
TypeOK ==
    /\ k \in KernelState /\ isr \in Seq(Frame)
    /\ pc \in [Thread -> SerialPc]
    /\ fifo \in Fifo
    /\ value \in 0 .. ValueMax
    /\ left \in [Thread -> Lengths \cup {0, 1}]
    /\ got \in Char \cup {None}

\* The shell does not sleep over its input: when it waits for its semaphore the FIFO
\* is empty, however the interrupts fell between its read and its take, and though
\* one token may stand for many characters and other threads read them.
ShellHearsInput == k.wait[rx_sem] # <<>> => NoData(fifo)

\* The characters between the two indexes, by the flag where these are equal.
Unread ==
    LET n == IF fifo.put_index # fifo.get_index \/ NoData(fifo)
             THEN (fifo.put_index - fifo.get_index) % BufSz ELSE BufSz
    IN  [i \in 1 .. n |-> fifo.buffer[(fifo.get_index + i - 1) % BufSz]]

\* The FIFO with its two indexes and its flag is a lossy buffer of BufSz - 1 characters:
\* whatever arrives while threads read, characters come out in order and once, and an
\* overrun loses the oldest ones only.
Lossy == INSTANCE LossyBuffer WITH queue <- Unread, Cap <- BufSz - 1
ImplementsLossyBuffer == Lossy!Spec
=============================================================================
