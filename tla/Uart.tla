-------------------------------- MODULE Uart --------------------------------
(***************************************************************************)
(* The five UARTs of uart.cpp: each collects what the guest transmits and  *)
(* prints it a line at a time.  They are shared by all cores, which drive  *)
(* them as their drivers do: wait until the transmitter is empty, then     *)
(* write a byte.                                                           *)
(*                                                                         *)
(* A guest's access is one step; cores take turns between any two.         *)
(***************************************************************************)
EXTENDS GuestCores, Sequences, FiniteSetsExt

CONSTANTS
  Uarts,     \* those the guest uses
  SentWords, \* what it writes to their registers
  MaxSent    \* bound: words the drivers begin to send

UART_OFFSETS == [id \in 0 .. 4 |-> CASE id = 0 -> 0      [] id = 1 -> \h40
                                     [] id = 2 -> \h200  [] id = 3 -> \h300
                                     [] id = 4 -> \h400]

UART_THR_DLAB_0_0 == \h0
UART_LCR_0        == \hC
UART_LSR_0        == \h14
UART_TMTY         == 64   \* BIT(6)

ASSUME UartAssumption ==
  Uarts \subseteq DOMAIN UART_OFFSETS /\ SentWords \subseteq Nat /\ MaxSent \in Nat

VARIABLES
  fifos,    \* fifos[id]: what is collected of a line
  printed,  \* printed[id]: the lines it printed
  driver,   \* driver[c]: what core c is about
  begun,    \* how many words the drivers have begun to send
  sent      \* history, sent[id]: what they wrote at offset 0 of a UART, as text

uartVars == <<fifos, printed, driver, begun, sent>>

NoByte == [at |-> "idle", id |-> 0, word |-> 0]

-----------------------------------------------------------------------------
addr_to_id_OffByOne(addr) ==
  CASE addr > \h400 -> 4
    [] addr > \h300 /\ addr <= \h400 -> 3
    [] addr > \h200 /\ addr <= \h300 -> 2
    [] addr > \h40  /\ addr <= \h200 -> 1
    [] addr <= \h40 -> 0

addr_to_id(addr) ==
  CASE addr >= \h400 -> 4
    [] addr >= \h300 /\ addr < \h400 -> 3
    [] addr >= \h200 /\ addr < \h300 -> 2
    [] addr >= \h40  /\ addr < \h200 -> 1
    [] addr < \h40 -> 0

Shifted_Forgotten(addr) == addr

Shifted(addr) == addr - UART_OFFSETS[addr_to_id(addr)]

ReadUart(addr) == IF Shifted(addr) = UART_LSR_0 THEN UART_TMTY ELSE 0

\* What printf prints of a std::string.
UpToNul(text) ==
  LET nuls == {p \in DOMAIN text : text[p] = 0}
  IN  IF nuls = {} THEN text ELSE SubSeq(text, 1, Min(nuls) - 1)

Byte(word) == word % 256

Newline == 10

Transmit_KeepsLine(id, val) ==
  IF val # Newline
  THEN fifos' = [fifos EXCEPT ![id] = Append(@, val)] /\ UNCHANGED printed
  ELSE /\ printed' = [printed EXCEPT ![id] = Append(@, UpToNul(fifos[id]))]
       /\ UNCHANGED fifos

\* A byte of ASCII is collected; a newline prints what was.
Transmit(id, val) ==
  IF val # Newline
  THEN fifos' = [fifos EXCEPT ![id] = Append(@, val)] /\ UNCHANGED printed
  ELSE /\ printed' = [printed EXCEPT ![id] = Append(@, UpToNul(fifos[id]))]
       /\ fifos' = [fifos EXCEPT ![id] = <<>>]

\* A byte above 0x7F is dropped, and so is what is written to any other
\* register.
WriteUart(addr, word) ==
  IF Shifted(addr) = UART_THR_DLAB_0_0 /\ Byte(word) <= \h7F
  THEN Transmit(addr_to_id(addr), Byte(word))
  ELSE UNCHANGED <<fifos, printed>>

-----------------------------------------------------------------------------
\* External: the guest's drivers.
Reg(id, offset) == UART_OFFSETS[id] + offset

Begin(c, id, word) ==
  /\ driver[c] = NoByte
  /\ begun < MaxSent
  /\ begun' = begun + 1
  /\ driver' = [driver EXCEPT ![c] = [at |-> "poll", id |-> id, word |-> word]]
  /\ UNCHANGED <<fifos, printed, sent>>

\* The status register is read until the transmitter is empty.
AwaitEmpty(c) ==
  /\ driver[c].at = "poll"
  /\ ReadUart(Reg(driver[c].id, UART_LSR_0)) = UART_TMTY
  /\ driver' = [driver EXCEPT ![c].at = "write"]
  /\ UNCHANGED <<fifos, printed, begun, sent>>

\* The text a word stands for: its low byte, if that is ASCII.
Text(word) == IF Byte(word) <= \h7F THEN <<Byte(word)>> ELSE <<>>

Send(c) ==
  /\ driver[c].at = "write"
  /\ WriteUart(Reg(driver[c].id, UART_THR_DLAB_0_0), driver[c].word)
  /\ sent' = [sent EXCEPT ![driver[c].id] = @ \o Text(driver[c].word)]
  /\ driver' = [driver EXCEPT ![c] = NoByte]
  /\ UNCHANGED begun

\* A driver sets the line up: its words are no text.
SetLine(c, id, word) ==
  /\ driver[c] = NoByte
  /\ WriteUart(Reg(id, UART_LCR_0), word)
  /\ UNCHANGED <<driver, begun, sent>>

UartInit ==
  /\ fifos   = [id \in 0 .. 4 |-> <<>>]
  /\ printed = [id \in 0 .. 4 |-> <<>>]
  /\ driver  = [c \in Cores |-> NoByte]
  /\ begun   = 0
  /\ sent    = [id \in 0 .. 4 |-> <<>>]

UartNext ==
  \E c \in Cores :
    \/ \E id \in Uarts, word \in SentWords : Begin(c, id, word)
    \/ AwaitEmpty(c) \/ Send(c)
    \/ \E id \in Uarts, word \in SentWords : SetLine(c, id, word)

UartSafety == UartInit /\ [][UartNext]_uartVars

\* Every core gets slices again and again (Scheduler's RunnableRuns).
UartSpec ==
  UartSafety /\ \A c \in Cores : WF_uartVars(AwaitEmpty(c)) /\ WF_uartVars(Send(c))

-----------------------------------------------------------------------------
Ascii == 0 .. \h7F

\* Every variable has its type: only ASCII that is no newline is collected, and
\* no NUL printed.
UartTypeOK ==
  /\ fifos \in [0 .. 4 -> Seq(Ascii \ {Newline})]
  /\ printed \in [0 .. 4 -> Seq(Seq(Ascii \ {Newline, 0}))]
  /\ driver \in [Cores ->
       {NoByte} \cup [at : {"poll", "write"}, id : Uarts, word : SentWords]]
  /\ begun \in 0 .. MaxSent
  /\ sent \in [0 .. 4 -> Seq(Ascii)]

Newlines(text) == {p \in DOMAIN text : text[p] = Newline}

NewlinesTo(text, p) == {q \in Newlines(text) : q <= p}

\* Where the line that ends before p begins, and the line.
LineStart(text, p) == 1 + Max({0} \cup NewlinesTo(text, p - 1))

Line(text, p) == SubSeq(text, LineStart(text, p), p - 1)

\* However the cores take turns, a UART's k-th printed line is what was sent to
\* it between its newlines k-1 and k, up to a NUL, and what it holds is the
\* rest: nothing is lost, printed twice or moved to another UART
\* (uart.cpp:9-21, 45-57).
OutputExact ==
  \A id \in Uarts :
    LET text == sent[id]
    IN  /\ Len(printed[id]) = Cardinality(Newlines(text))
        /\ \A p \in Newlines(text) :
             printed[id][Cardinality(NewlinesTo(text, p))] = UpToNul(Line(text, p))
        /\ fifos[id] = Line(text, Len(text) + 1)

\* A driver that waits for the transmitter of any UART gets to send
\* (uart.cpp:30-34).
DriverGetsThrough == \A c \in Cores : driver[c] # NoByte ~> driver[c] = NoByte
=============================================================================
