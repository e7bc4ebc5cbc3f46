------------------------------ MODULE Exceptions ------------------------------
(***************************************************************************)
(* hook_exception of main.cpp: the secure monitor calls (SMC), supervisor  *)
(* calls (SVC) and other exceptions of the guest, at the level of the      *)
(* registers they read and write.                                          *)
(*                                                                         *)
(* The hook reads X0-X7 and the PC when it is entered and, unless the      *)
(* exception is an SVC, writes X0-X7 and PC + 4 back when it leaves.  What *)
(* a call stores into the caller's registers in between is overwritten.    *)
(***************************************************************************)
EXTENDS GuestCores

CONSTANTS
  GuestRegs,  \* what X0-X7 may hold when the guest traps: functions on 0..7
  GuestPcs,   \* where it may trap
  RegAddrs,   \* addresses smcReadWriteRegister can read and write
  RandomWords,\* what rand() may put into a register
  Width       \* a device register or a word of memory is in 0..Width-1 (2^32)

\* X0 of a secure monitor call: the last byte of the function identifier.
GetRandomBytes    == 5   \* 0xC3000005
ReadWriteRegister == 8   \* 0xC3000008
CpuOn             == 3   \* 0xC4000003
GetConfig         == 4   \* 0xC3000004
Panic             == 6   \* 0xC3000006
ConfigureCarveout == 7   \* 0xC3000007
DebugPrint        == 15  \* 0xF00FF00F

Functions == {GetRandomBytes, ReadWriteRegister, CpuOn, GetConfig, Panic,
              ConfigureCarveout, DebugPrint}

X == 0 .. 7

ASSUME ExceptionsAssumption ==
  /\ GuestRegs \subseteq [X -> Nat]
  /\ GuestPcs \subseteq Nat
  /\ RegAddrs \subseteq Nat
  /\ RandomWords \subseteq Nat
  /\ Width \in Nat \ {0}
  \* The guest names a core that exists and asks for 0x38 random bytes at most.
  /\ \A x \in GuestRegs : x[0] = CpuOn => x[1] \in Cores
  /\ \A x \in GuestRegs : x[0] = GetRandomBytes => x[1] <= 56

VARIABLES
  x,             \* x[c][n]: register Xn of core c
  pc,            \* pc[c]
  cores_online,
  mem,           \* mem[a]: the word at a, for a in RegAddrs
  uc_quit,
  hung,          \* smcGetConfig never returned
  asked          \* history; asked[c]: the last smcCpuOn of another core that
                 \* core c has not run since, or NotAsked

exVars == <<x, pc, cores_online, mem, uc_quit, hung, asked>>

NotAsked == [entry |-> 0, context |-> 0]

\* A core may run when it is online and the emulator's thread is not stuck.
Live(c) == cores_online[c] /\ ~hung

\* External: the guest's own code between two exceptions.
GuestCode(c) ==
  /\ Live(c)
  /\ \E regs \in GuestRegs, a \in GuestPcs :
       /\ x'  = [x EXCEPT ![c] = regs]
       /\ pc' = [pc EXCEPT ![c] = a]
  /\ asked' = [asked EXCEPT ![c] = NotAsked]
  /\ UNCHANGED <<cores_online, mem, uc_quit, hung>>

-----------------------------------------------------------------------------
\* The end of the hook: args is written back and the PC moves on, whatever
\* registers the call itself has written before (written and moved: all cores').
Return_KeepsTarget(c, args, written, moved) ==
  /\ x'  = [written EXCEPT ![c] = IF written[c] # x[c] THEN @ ELSE args]
  /\ pc' = [moved EXCEPT ![c] = IF moved[c] # pc[c] THEN @ ELSE pc[c] + 4]

Return(c, args, written, moved) ==
  /\ x'  = [written EXCEPT ![c] = args]
  /\ pc' = [moved EXCEPT ![c] = pc[c] + 4]

\* A call that changes nothing but the caller's registers.
ReturnArgs(c, args) ==
  /\ Return(c, args, x, pc)
  /\ UNCHANGED <<cores_online, mem, uc_quit, hung, asked>>

\* The registers a request for size bytes overwrites.
Filled(size) == 1 .. (size + 7) \div 8

SmcGetRandomBytes(c) ==
  /\ x[c][0] = GetRandomBytes
  /\ \E r \in [Filled(x[c][1]) -> RandomWords] :
       ReturnArgs(c, [n \in X |-> IF n = 0 THEN 0
                                  ELSE IF n \in DOMAIN r THEN r[n] ELSE x[c][n]])

\* A mask of 0 asks for a read: four bytes go into the low half of X1, which
\* keeps the address when the read fails.  Any other mask writes four bytes.
SmcReadRegister(c) ==
  /\ x[c][0] = ReadWriteRegister /\ x[c][2] = 0
  /\ ReturnArgs(c, [x[c] EXCEPT
                      ![0] = 0,
                      ![1] = IF @ \in RegAddrs THEN @ - (@ % Width) + mem[@] ELSE @])

StoreWord(a, v) == mem' = [mem EXCEPT ![a] = v % Width]

SmcWriteRegister(c) ==
  /\ x[c][0] = ReadWriteRegister /\ x[c][2] # 0
  /\ StoreWord(x[c][1], x[c][3])
  /\ Return(c, [x[c] EXCEPT ![0] = 0], x, pc)
  /\ UNCHANGED <<cores_online, uc_quit, hung, asked>>

SmcCpuOn_NoContext(c) ==
  LET t == x[c][1] IN
  /\ x[c][0] = CpuOn
  /\ cores_online' = [cores_online EXCEPT ![t] = TRUE]
  /\ asked' = IF t = c THEN asked
              ELSE [asked EXCEPT ![t] = [entry |-> x[c][2], context |-> x[c][3]]]
  /\ Return(c, [x[c] EXCEPT ![0] = 0], x, [pc EXCEPT ![t] = x[c][2]])
  /\ UNCHANGED <<mem, uc_quit, hung>>

SmcCpuOn(c) ==
  LET t == x[c][1] IN
  /\ x[c][0] = CpuOn
  /\ cores_online' = [cores_online EXCEPT ![t] = TRUE]
  /\ asked' = IF t = c THEN asked
              ELSE [asked EXCEPT ![t] = [entry |-> x[c][2], context |-> x[c][3]]]
  /\ Return(c, [x[c] EXCEPT ![0] = 0],
            [x EXCEPT ![t][0] = x[c][3]], [pc EXCEPT ![t] = x[c][2]])
  /\ UNCHANGED <<mem, uc_quit, hung>>

\* disableprogramverification, memoryarrange, isdebugmode and kernel config;
\* every other item never returns.
ConfigValue == [item \in {1, 10, 11, 12} |-> IF item = 10 THEN 1 ELSE 0]

SmcGetConfig(c) ==
  /\ x[c][0] = GetConfig /\ x[c][1] \in DOMAIN ConfigValue
  /\ ReturnArgs(c, [n \in X |-> IF n = 0 THEN 0
                                ELSE IF n \in 1 .. 4 THEN ConfigValue[x[c][1]]
                                ELSE x[c][n]])

SmcGetConfigHangs(c) ==
  /\ x[c][0] = GetConfig /\ x[c][1] \notin DOMAIN ConfigValue
  /\ hung' = TRUE
  /\ UNCHANGED <<x, pc, cores_online, mem, uc_quit, asked>>

\* smcPanic only prints, and so do the other two.
SmcPrints(c) ==
  /\ x[c][0] \in {Panic, ConfigureCarveout, DebugPrint}
  /\ ReturnArgs(c, [x[c] EXCEPT ![0] = 0])

\* A call nobody knows, an SMC on the EL0 stack, a prefetch abort and every
\* other exception: the instruction is skipped.
Skip(c) == ReturnArgs(c, x[c])

UnknownSmc(c) == x[c][0] \notin Functions /\ Skip(c)

Smc(c) ==
  \/ SmcGetRandomBytes(c)
  \/ SmcReadRegister(c)
  \/ SmcWriteRegister(c)
  \/ SmcCpuOn(c)
  \/ SmcGetConfig(c)
  \/ SmcGetConfigHangs(c)
  \/ SmcPrints(c)
  \/ UnknownSmc(c)

\* svc 7 asks the emulator to quit, svcSleepThread returns 0 in X0 and X1, the
\* guest's kernel handles the others; the PC is past the instruction already.
SvcExit(c) ==
  /\ uc_quit' = TRUE
  /\ UNCHANGED <<x, pc, cores_online, mem, hung, asked>>

SvcSleepThread(c) ==
  /\ x' = [x EXCEPT ![c][0] = 0, ![c][1] = 0]
  /\ UNCHANGED <<pc, cores_online, mem, uc_quit, hung, asked>>

-----------------------------------------------------------------------------
ExInit ==
  /\ x  = [c \in Cores |-> [n \in X |-> 0]]
  /\ pc \in [Cores -> {0}]
  /\ cores_online = [c \in Cores |-> c = 0]
  /\ mem = [a \in RegAddrs |-> 0]
  /\ uc_quit = FALSE
  /\ hung = FALSE
  /\ asked = [c \in Cores |-> NotAsked]

\* The exceptions of a core that has run since it was last told where to start.
Traps(c) ==
  /\ Live(c)
  /\ asked[c] = NotAsked
  /\ pc[c] \in GuestPcs
  /\ Smc(c) \/ Skip(c) \/ SvcExit(c) \/ SvcSleepThread(c)

ExNext == \E c \in Cores : GuestCode(c) \/ Traps(c)

ExSpec == ExInit /\ [][ExNext]_exVars

-----------------------------------------------------------------------------
\* Every variable has its type.
ExTypeOK ==
  /\ x \in [Cores -> [X -> Nat]]
  /\ pc \in [Cores -> Nat]
  /\ cores_online \in [Cores -> BOOLEAN]
  /\ mem \in [RegAddrs -> 0 .. Width - 1]
  /\ uc_quit \in BOOLEAN /\ hung \in BOOLEAN
  /\ asked \in [Cores -> [entry : Nat, context : Nat]]

\* Between an smcCpuOn and the target's first instruction nothing disturbs the
\* entry point and the context it was given, which stay a pair of one call:
\* not the end of the caller's own hook, not calls of other cores, and not a
\* call the target makes for itself (main.cpp:416-425, 530-542).
BootRegisters ==
  \A c \in Cores :
    asked[c] # NotAsked =>
      /\ cores_online[c]
      /\ pc[c] = asked[c].entry
      /\ x[c][0] = asked[c].context

\* A monitor call that returns comes back to the instruction after it, with 0
\* in X0 and X5-X7 as they were unless it asked for random bytes; also when the
\* caller names itself as the core to start (main.cpp:530-542).
CallerResumes ==
  [][\A c \in Cores :
       Smc(c) /\ x[c][0] \in Functions /\ ~hung' =>
         /\ pc'[c] = pc[c] + 4
         /\ x'[c][0] = 0
         /\ x[c][0] # GetRandomBytes => \A n \in 5 .. 7 : x'[c][n] = x[c][n]]_exVars
=============================================================================
