--------------------------- MODULE ExceptionsProofs ---------------------------
(***************************************************************************)
(* Proofs about module Exceptions, for any number of cores, whatever the   *)
(* guests put into their registers and wherever they trap.                 *)
(***************************************************************************)
EXTENDS Exceptions, TLAPS

Registers == [X -> Nat]

\* A core that may trap names a core that exists when it asks for one to be
\* started: its registers are the guest's, or what a call has left in them.
NamesCore ==
  \A c \in Cores : asked[c] = NotAsked /\ x[c][0] = CpuOn => x[c][1] \in Cores

ExInv == ExTypeOK /\ NamesCore /\ BootRegisters

-----------------------------------------------------------------------------
\* The first state: all registers are 0.
LEMMA ExInitInv == ExInit => ExInv
<1> SUFFICES ASSUME ExInit PROVE ExInv
  OBVIOUS
<1>1. x \in [Cores -> [X -> Nat]] /\ pc \in [Cores -> Nat]
  BY DEF ExInit
<1>2. mem \in [RegAddrs -> 0 .. Width - 1]
  BY ExceptionsAssumption DEF ExInit
<1>3. asked \in [Cores -> [entry : Nat, context : Nat]]
  BY DEF ExInit, NotAsked
<1>4. ExTypeOK
  BY <1>1, <1>2, <1>3 DEF ExInit, ExTypeOK
<1>5. NamesCore
  BY DEF ExInit, NamesCore, CpuOn, X
<1>6. BootRegisters
  BY DEF ExInit, BootRegisters
<1>7. QED
  BY <1>4, <1>5, <1>6 DEF ExInv

\* What the end of the hook leaves in the registers.
LEMMA ReturnWrites ==
  ASSUME ExTypeOK, NEW c \in Cores, NEW args \in Registers,
         NEW written \in [Cores -> Registers], NEW moved \in [Cores -> Nat],
         Return(c, args, written, moved)
  PROVE  /\ x' \in [Cores -> [X -> Nat]] /\ pc' \in [Cores -> Nat]
         /\ x'[c] = args /\ pc'[c] = pc[c] + 4
         /\ \A d \in Cores \ {c} : x'[d] = written[d] /\ pc'[d] = moved[d]
<1>1. pc[c] + 4 \in Nat
  BY DEF ExTypeOK
<1>2. QED
  BY <1>1 DEF Return, Registers

\* A call that changes its caller's registers only, to ones that ask for no core.
LEMMA ReturnArgsInv ==
  ASSUME ExInv, NEW c \in Cores, asked[c] = NotAsked, NEW args \in Registers,
         ReturnArgs(c, args), args[0] = CpuOn => args[1] \in Cores
  PROVE  ExInv'
<1>1. /\ ExTypeOK /\ Return(c, args, x, pc)
      /\ x \in [Cores -> Registers] /\ pc \in [Cores -> Nat]
  BY DEF ExInv, ExTypeOK, ReturnArgs, Registers
<1>2. /\ x' \in [Cores -> [X -> Nat]] /\ pc' \in [Cores -> Nat]
      /\ x'[c] = args /\ pc'[c] = pc[c] + 4
      /\ \A d \in Cores \ {c} : x'[d] = x[d] /\ pc'[d] = pc[d]
  BY <1>1, ReturnWrites
<1>3. UNCHANGED <<cores_online, mem, uc_quit, hung, asked>>
  BY DEF ReturnArgs
<1>4. ExTypeOK'
  BY <1>1, <1>2, <1>3 DEF ExTypeOK
<1>5. NamesCore'
  BY <1>2, <1>3 DEF ExInv, NamesCore
<1>6. BootRegisters'
  BY <1>2, <1>3 DEF ExInv, BootRegisters
<1>7. QED
  BY <1>4, <1>5, <1>6 DEF ExInv

\* Four bytes put into the low half of a register leave a number.
LEMMA LowHalf ==
  ASSUME NEW a \in Nat, NEW v \in Nat
  PROVE  a - (a % Width) + v \in Nat
<1>1. a % Width \in Nat /\ a % Width <= a
  BY ExceptionsAssumption
<1>2. QED
  BY <1>1

-----------------------------------------------------------------------------
\* smcCpuOn: the target has the pair it was given, whoever it is; when it is the
\* caller itself, the end of the hook undoes it.
LEMMA CpuOnInv ==
  ASSUME ExInv, NEW c \in Cores, asked[c] = NotAsked, SmcCpuOn(c)
  PROVE  ExInv'
<1> DEFINE t == x[c][1]
           args == [x[c] EXCEPT ![0] = 0]
           given == [entry |-> x[c][2], context |-> x[c][3]]
           written == [x EXCEPT ![t][0] = x[c][3]]
           moved == [pc EXCEPT ![t] = x[c][2]]
<1>1. ExTypeOK /\ NamesCore /\ BootRegisters
  BY DEF ExInv
<1>2. /\ x \in [Cores -> [X -> Nat]] /\ pc \in [Cores -> Nat]
      /\ asked \in [Cores -> [entry : Nat, context : Nat]]
      /\ cores_online \in [Cores -> BOOLEAN]
  BY <1>1 DEF ExTypeOK
<1>3. x[c] \in [X -> Nat] /\ x[c][2] \in Nat /\ x[c][3] \in Nat /\ 0 \in X /\ 1 \in X
  BY <1>2 DEF X
<1>4. t \in Cores
  BY <1>1 DEF SmcCpuOn, NamesCore
<1>5. args \in Registers /\ args[0] = 0
  BY <1>3 DEF Registers
<1>6. written \in [Cores -> Registers] /\ moved \in [Cores -> Nat]
  BY <1>2, <1>3, <1>4 DEF Registers
<1>7. /\ cores_online' = [cores_online EXCEPT ![t] = TRUE]
      /\ asked' = IF t = c THEN asked ELSE [asked EXCEPT ![t] = given]
      /\ Return(c, args, written, moved)
      /\ UNCHANGED <<mem, uc_quit, hung>>
  BY DEF SmcCpuOn
<1> HIDE DEF args, written, moved
<1>8. /\ x' \in [Cores -> [X -> Nat]] /\ pc' \in [Cores -> Nat]
      /\ x'[c] = args
      /\ \A d \in Cores \ {c} : x'[d] = written[d] /\ pc'[d] = moved[d]
  BY <1>1, <1>5, <1>6, <1>7, ReturnWrites
<1>9. given \in [entry : Nat, context : Nat]
  BY <1>3
<1>10. ExTypeOK'
  BY <1>1, <1>2, <1>7, <1>8, <1>9 DEF ExTypeOK
<1>11. \A d \in Cores \ {c, t} : x'[d] = x[d] /\ pc'[d] = pc[d] /\ asked'[d] = asked[d]
  BY <1>2, <1>4, <1>7, <1>8 DEF written, moved
<1>12. t # c => x'[t][0] = x[c][3] /\ pc'[t] = x[c][2] /\ asked'[t] = given
  BY <1>2, <1>3, <1>4, <1>7, <1>8 DEF written, moved
<1>13. asked'[c] = NotAsked
  BY <1>2, <1>4, <1>7
<1>14. NamesCore'
  <2>1. x'[c][0] # CpuOn
    BY <1>5, <1>8 DEF CpuOn
  <2>2. t # c /\ asked'[t] = NotAsked => x'[t][0] # CpuOn
    <3>1. given = NotAsked => given.context = NotAsked.context
      OBVIOUS
    <3>2. QED
      BY <1>12, <3>1 DEF NotAsked, CpuOn
  <2>3. QED
    BY <1>1, <1>11, <2>1, <2>2 DEF NamesCore
<1>15. BootRegisters'
  BY <1>1, <1>2, <1>4, <1>7, <1>11, <1>12, <1>13 DEF BootRegisters
<1>16. QED
  BY <1>10, <1>14, <1>15 DEF ExInv

\* smcReadWriteRegister with a mask.
LEMMA WriteRegisterInv ==
  ASSUME ExInv, NEW c \in Cores, asked[c] = NotAsked, SmcWriteRegister(c)
  PROVE  ExInv'
<1> DEFINE args == [x[c] EXCEPT ![0] = 0]
<1>1. /\ ExTypeOK /\ NamesCore /\ BootRegisters
      /\ x \in [Cores -> Registers] /\ pc \in [Cores -> Nat] /\ x[c] \in [X -> Nat]
  BY DEF ExInv, ExTypeOK, Registers
<1>2. args \in Registers /\ args[0] = 0
  BY <1>1 DEF Registers, X
<1>3. Return(c, args, x, pc) /\ UNCHANGED <<cores_online, uc_quit, hung, asked>>
  BY DEF SmcWriteRegister
<1> HIDE DEF args
<1>4. /\ x' \in [Cores -> [X -> Nat]] /\ pc' \in [Cores -> Nat]
      /\ x'[c] = args
      /\ \A d \in Cores \ {c} : x'[d] = x[d] /\ pc'[d] = pc[d]
  BY <1>1, <1>2, <1>3, ReturnWrites
<1>5. mem' \in [RegAddrs -> 0 .. Width - 1]
  <2>1. x[c][3] \in Nat
    BY <1>1 DEF X
  <2>2. x[c][3] % Width \in 0 .. Width - 1
    BY <2>1, ExceptionsAssumption
  <2>3. QED
    BY <1>1, <2>2 DEF SmcWriteRegister, StoreWord, ExTypeOK
<1>6. ExTypeOK'
  BY <1>1, <1>3, <1>4, <1>5 DEF ExTypeOK
<1>7. NamesCore'
  BY <1>1, <1>2, <1>3, <1>4 DEF NamesCore, CpuOn
<1>8. BootRegisters'
  BY <1>1, <1>3, <1>4 DEF BootRegisters
<1>9. QED
  BY <1>6, <1>7, <1>8 DEF ExInv

\* The monitor calls, one step each.
LEMMA SmcInv ==
  ASSUME ExInv, NEW c \in Cores, asked[c] = NotAsked, Smc(c)
  PROVE  ExInv'
<1>1. x[c] \in [X -> Nat] /\ 0 \in X /\ 1 \in X /\ x[c][1] \in Nat
  BY DEF ExInv, ExTypeOK, X
<1>2. CASE SmcGetRandomBytes(c)
  <2>1. PICK r \in [Filled(x[c][1]) -> RandomWords] :
          ReturnArgs(c, [n \in X |-> IF n = 0 THEN 0
                                     ELSE IF n \in DOMAIN r THEN r[n] ELSE x[c][n]])
    BY <1>2 DEF SmcGetRandomBytes
  <2> DEFINE args == [n \in X |-> IF n = 0 THEN 0
                                  ELSE IF n \in DOMAIN r THEN r[n] ELSE x[c][n]]
  <2>2. \A n \in DOMAIN r : r[n] \in Nat
    BY ExceptionsAssumption
  <2>3. args \in Registers /\ args[0] = 0
    BY <1>1, <2>2 DEF Registers
  <2>4. QED
    BY <2>1, <2>3, ReturnArgsInv DEF CpuOn
<1>3. CASE SmcReadRegister(c)
  <2> DEFINE word == IF x[c][1] \in RegAddrs
                     THEN x[c][1] - (x[c][1] % Width) + mem[x[c][1]] ELSE x[c][1]
             args == [x[c] EXCEPT ![0] = 0, ![1] = word]
  <2>1. word \in Nat
    <3>1. x[c][1] \in RegAddrs => mem[x[c][1]] \in Nat
      <4>1. x[c][1] \in RegAddrs => mem[x[c][1]] \in 0 .. Width - 1
        BY DEF ExInv, ExTypeOK
      <4>2. QED
        BY <4>1, ExceptionsAssumption
    <3>2. QED
      BY <1>1, <3>1, LowHalf
  <2>2. args \in Registers /\ args[0] = 0
    BY <1>1, <2>1 DEF Registers
  <2>3. ReturnArgs(c, args)
    BY <1>1, <1>3 DEF SmcReadRegister
  <2> HIDE DEF args
  <2>4. QED
    BY <2>2, <2>3, ReturnArgsInv DEF CpuOn
<1>4. CASE SmcWriteRegister(c)
  BY <1>4, WriteRegisterInv
<1>5. CASE SmcCpuOn(c)
  BY <1>5, CpuOnInv
<1>6. CASE SmcGetConfig(c)
  <2> DEFINE args == [n \in X |-> IF n = 0 THEN 0
                                  ELSE IF n \in 1 .. 4 THEN ConfigValue[x[c][1]]
                                  ELSE x[c][n]]
  <2>1. ConfigValue[x[c][1]] \in Nat
    BY <1>6 DEF SmcGetConfig, ConfigValue
  <2>2. args \in Registers /\ args[0] = 0
    BY <1>1, <2>1 DEF Registers
  <2>3. ReturnArgs(c, args)
    BY <1>6 DEF SmcGetConfig
  <2>4. QED
    BY <2>2, <2>3, ReturnArgsInv DEF CpuOn
<1>7. CASE SmcGetConfigHangs(c)
  BY <1>7 DEF SmcGetConfigHangs, ExInv, ExTypeOK, NamesCore, BootRegisters
<1>8. CASE SmcPrints(c)
  <2> DEFINE args == [x[c] EXCEPT ![0] = 0]
  <2>1. args \in Registers /\ args[0] = 0 /\ ReturnArgs(c, args)
    BY <1>1, <1>8 DEF Registers, SmcPrints
  <2> HIDE DEF args
  <2>2. QED
    BY <2>1, ReturnArgsInv DEF CpuOn
<1>9. CASE UnknownSmc(c)
  <2>1. x[c] \in Registers /\ x[c][0] # CpuOn
    BY <1>1, <1>9 DEF UnknownSmc, Functions, Registers
  <2>2. QED
    BY <1>9, <2>1, ReturnArgsInv DEF UnknownSmc, Skip
<1>10. QED
  BY <1>2, <1>3, <1>4, <1>5, <1>6, <1>7, <1>8, <1>9 DEF Smc

\* The guest's code takes a core away from where it was told to start.
LEMMA GuestCodeInv ==
  ASSUME ExInv, NEW c \in Cores, GuestCode(c)
  PROVE  ExInv'
<1>1. PICK regs \in GuestRegs, a \in GuestPcs :
        /\ x'  = [x EXCEPT ![c] = regs]
        /\ pc' = [pc EXCEPT ![c] = a]
  BY DEF GuestCode
<1>2. /\ asked' = [asked EXCEPT ![c] = NotAsked]
      /\ UNCHANGED <<cores_online, mem, uc_quit, hung>>
  BY DEF GuestCode
<1>3. ExTypeOK /\ regs \in [X -> Nat] /\ a \in Nat
  BY ExceptionsAssumption DEF ExInv
<1>4. NotAsked \in [entry : Nat, context : Nat]
  BY DEF NotAsked
<1>5. ExTypeOK'
  BY <1>1, <1>2, <1>3, <1>4 DEF ExTypeOK
<1>6. NamesCore'
  BY <1>1, <1>2, <1>3, ExceptionsAssumption DEF ExInv, ExTypeOK, NamesCore
<1>7. BootRegisters'
  BY <1>1, <1>2, <1>3 DEF ExInv, ExTypeOK, BootRegisters
<1>8. QED
  BY <1>5, <1>6, <1>7 DEF ExInv

\* One step per action.
LEMMA ExNextInv == ExInv /\ [ExNext]_exVars => ExInv'
<1> SUFFICES ASSUME ExInv, [ExNext]_exVars PROVE ExInv'
  OBVIOUS
<1>1. CASE UNCHANGED exVars
  BY <1>1 DEF exVars, ExInv, ExTypeOK, NamesCore, BootRegisters
<1>2. ASSUME NEW c \in Cores, GuestCode(c) PROVE ExInv'
  BY <1>2, GuestCodeInv
<1>3. ASSUME NEW c \in Cores, Traps(c) PROVE ExInv'
  <2>1. asked[c] = NotAsked
    BY <1>3 DEF Traps
  <2>2. x \in [Cores -> [X -> Nat]] /\ x[c] \in Registers /\ 0 \in X /\ 1 \in X
    BY <1>3 DEF ExInv, ExTypeOK, X, Registers
  <2>3. CASE Smc(c)
    BY <1>3, <2>1, <2>3, SmcInv
  <2>4. CASE Skip(c)
    <3>1. x[c][0] = CpuOn => x[c][1] \in Cores
      BY <1>3, <2>1 DEF ExInv, NamesCore
    <3>2. QED
      BY <1>3, <2>1, <2>2, <2>4, <3>1, ReturnArgsInv DEF Skip
  <2>5. CASE SvcExit(c)
    BY <2>5 DEF SvcExit, ExInv, ExTypeOK, NamesCore, BootRegisters
  <2>6. CASE SvcSleepThread(c)
    <3>1. /\ x' \in [Cores -> [X -> Nat]] /\ x'[c][0] = 0
          /\ \A d \in Cores \ {c} : x'[d] = x[d]
          /\ UNCHANGED <<pc, cores_online, mem, uc_quit, hung, asked>>
      BY <1>3, <2>2, <2>6 DEF SvcSleepThread, Registers
    <3>2. ExTypeOK'
      BY <3>1 DEF ExInv, ExTypeOK
    <3>3. NamesCore'
      BY <3>1 DEF ExInv, NamesCore, CpuOn
    <3>4. BootRegisters'
      BY <2>1, <3>1 DEF ExInv, BootRegisters
    <3>5. QED
      BY <3>2, <3>3, <3>4 DEF ExInv
  <2>7. QED
    BY <1>3, <2>3, <2>4, <2>5, <2>6 DEF Traps
<1>4. QED
  BY <1>1, <1>2, <1>3 DEF ExNext

\* ExInv holds throughout.
LEMMA ExInvariance == ExSpec => []ExInv
BY ExInitInv, ExNextInv, PTL DEF ExSpec

-----------------------------------------------------------------------------
\* Every variable keeps its type.
THEOREM ExTypeCorrect == ExSpec => []ExTypeOK
BY ExInvariance, PTL DEF ExInv

\* From smcCpuOn to its first instruction a core keeps the entry point and the
\* context of one call, whatever other cores and other calls do meanwhile.
THEOREM BootIsUndisturbed == ExSpec => []BootRegisters
BY ExInvariance, PTL DEF ExInv

\* What CallerResumes says of one core.
Resumed(c) ==
  /\ pc'[c] = pc[c] + 4
  /\ x'[c][0] = 0
  /\ x[c][0] # GetRandomBytes => \A n \in 5 .. 7 : x'[c][n] = x[c][n]

\* Every call that returns leaves its caller behind the call.
LEMMA SmcResumes ==
  ASSUME ExTypeOK, NEW c \in Cores, Smc(c), x[c][0] \in Functions, ~hung'
  PROVE  Resumed(c)
<1>1. /\ x \in [Cores -> [X -> Nat]] /\ x[c] \in [X -> Nat] /\ pc \in [Cores -> Nat]
      /\ 0 \in X /\ 1 \in X /\ 5 .. 7 \subseteq X
  BY DEF ExTypeOK, X
<1>3. ASSUME SmcGetRandomBytes(c) PROVE Resumed(c)
  BY <1>1, <1>3 DEF SmcGetRandomBytes, ReturnArgs, Return, Resumed
<1>4. ASSUME SmcReadRegister(c) PROVE Resumed(c)
  BY <1>1, <1>4 DEF SmcReadRegister, ReturnArgs, Return, Resumed
<1>5. ASSUME SmcWriteRegister(c) PROVE Resumed(c)
  BY <1>1, <1>5 DEF SmcWriteRegister, Return, Resumed
<1>6. ASSUME SmcCpuOn(c) PROVE Resumed(c)
  BY <1>1, <1>6 DEF SmcCpuOn, Return, Resumed
<1>7. ASSUME SmcGetConfig(c) PROVE Resumed(c)
  BY <1>1, <1>7 DEF SmcGetConfig, ReturnArgs, Return, Resumed
<1>8. ASSUME SmcPrints(c) PROVE Resumed(c)
  BY <1>1, <1>8 DEF SmcPrints, ReturnArgs, Return, Resumed
<1>9. ~SmcGetConfigHangs(c) /\ ~UnknownSmc(c)
  BY DEF SmcGetConfigHangs, UnknownSmc
<1>10. QED
  BY <1>3, <1>4, <1>5, <1>6, <1>7, <1>8, <1>9 DEF Smc

\* A monitor call comes back to the instruction after it, also when a core
\* starts itself.
THEOREM CallersResume == ExSpec => CallerResumes
<1>1. ExInv /\ [ExNext]_exVars
        => [\A c \in Cores : Smc(c) /\ x[c][0] \in Functions /\ ~hung' => Resumed(c)]_exVars
  BY SmcResumes DEF ExInv
<1>2. QED
  BY ExInvariance, <1>1, PTL DEF ExSpec, CallerResumes, Resumed
=============================================================================
