------------------------------ MODULE Registers ------------------------------
(***************************************************************************)
(* The register files of the devices: the read and write handlers of the   *)
(* interrupt controller (gicd.cpp, gicc.cpp), the memory controller        *)
(* (mc.cpp) and the devices that are not there yet, for every register     *)
(* that is plain storage or a constant.  GICD_SGIR, GICC_IAR and           *)
(* GICC_EOIR, the registers that deliver interrupts, are in module Gic;    *)
(* here their storage is never touched and they read as 0.                 *)
(*                                                                         *)
(* Every core has its own copy of the interrupt controller's files; the    *)
(* memory controller is one for all.  A handler finds the array of an      *)
(* address, computes an index into it, and ignores the size of the access. *)
(* Offsets are in bytes from the start of the device.                      *)
(***************************************************************************)
EXTENDS GuestCores

CONSTANTS
  Addrs,     \* Addrs[dev]: the offsets the guest reads and writes
  Values,    \* what it writes, up to 64 bits
  Width,     \* registers hold 0..Width-1 (the code's uint32_t)
  MaxWrites  \* bound: writes in a behaviour

\* Their reads return 0 and their writes are dropped.
Stubs == {"mc0", "mc1", "car", "host1x", "mselect", "pinmux", "system"}

Devices == {"gicd", "gicc", "mc"} \cup Stubs

ASSUME RegistersAssumption ==
  /\ Addrs \in [Devices -> SUBSET Nat]
  /\ Values \subseteq Nat
  /\ Width \in Nat \ {0}
  /\ MaxWrites \in Nat

VARIABLES
  regs,    \* regs[dev][copy][o]: the word at offset o of the device's struct
  writes,  \* how many writes there were
  last     \* history: the last write

regVars == <<regs, writes, last>>

-----------------------------------------------------------------------------
\* A register array: offsets first..last select element (a - base) / 4 of the
\* array that the struct has at offset at.
Array(first, final, base, at) ==
  [first |-> first, final |-> final, base |-> base, at |-> at]

\* An array whose index is computed from its own first offset.
Own(first, final) == Array(first, final, first, first)

\* One register, selected by its exact offset.
Single(o) == Own(o, o)

\* gicd.cpp: CTLR; IGROUPR, ISENABLER, ICENABLER, ISPENDR, ICPENDR, ISACTIVER,
\* ICACTIVER; IPRIORITYR and ITARGETSR, one word short of their space; ICFGR;
\* NSACR; CPENDSGIR, SPENDSGIR; ICPIDR2.
GicdLayout ==
  {Single(\h000)}
    \cup {Own(\h080 + (k * \h80), \h0FF + (k * \h80)) : k \in 0 .. 6}
    \cup {Own(\h400, \h7FB), Own(\h800, \hBFB), Own(\hC00, \hCFF), Own(\hE00, \hEFF)}
    \cup {Own(\hF10, \hF1F), Own(\hF20, \hF2F), Single(\hFE8)}

\* gicc.cpp: CTLR, PMR, BPR, RPR, HPPIR; APR; NSAPR, whose index counts from
\* the offset of APR; IIDR; DIR.
GiccLayout ==
  {Single(o) : o \in {\h00, \h04, \h08, \h14, \h18, \hFC, \h1000}}
    \cup {Own(\hD0, \hDF), Array(\hE0, \hFB, \hD0, \hE0)}

\* mc.cpp: INTSTATUS, SMMU_CONFIG, SMMU_PTB_ASID, SMMU_PTB_DATA,
\* SMMU_TLB_FLUSH, SMMU_PTC_FLUSH.
McLayout == {Single(o) : o \in {\h00, \h10, \h1C, \h20, \h30, \h34}}

Layout == [dev \in Devices |-> CASE dev = "gicd" -> GicdLayout
                                 [] dev = "gicc" -> GiccLayout
                                 [] dev = "mc"   -> McLayout
                                 [] OTHER        -> {}]

\* The registers that read as a constant.
Constants == [dev \in Devices |->
  CASE dev = "gicd" -> [o \in {\h004, \h008} |-> IF o = \h004 THEN \hFC66
                                                          ELSE \h0200143B]
    [] dev = "mc"   -> [o \in {\h50} |-> \h1000]
    [] OTHER        -> [o \in {} |-> 0]]

\* Which copy of a device a core has.
Copy(dev, core) == IF dev \in {"gicd", "gicc"} THEN core ELSE 0

ArraysAt(dev, a) == {r \in Layout[dev] : a \in r.first .. r.final}

Stored(dev, a) == ArraysAt(dev, a) # {}

Element_BytesNotWords(dev, a) ==
  LET r == CHOOSE r \in ArraysAt(dev, a) : TRUE
  IN  r.at + 4 * (a - r.base)

\* The offset in the struct of the word an access to a reaches.
Element(dev, a) ==
  LET r == CHOOSE r \in ArraysAt(dev, a) : TRUE
  IN  r.at + 4 * ((a - r.base) \div 4)

\* The word each of the guest's offsets reaches, if any.
Place ==
  [dev \in Devices |-> [a \in {b \in Addrs[dev] : Stored(dev, b)} |-> Element(dev, a)]]

Words(dev) == {Place[dev][a] : a \in DOMAIN Place[dev]}

\* What a read by core returns.
Read(dev, core, a) ==
  CASE a \in DOMAIN Place[dev]      -> regs[dev][Copy(dev, core)][Place[dev][a]]
    [] a \in DOMAIN Constants[dev]  -> Constants[dev][a]
    [] OTHER                        -> 0

Write_AllCores(dev, core, a, v) ==
  regs' = IF a \in DOMAIN Place[dev]
          THEN [regs EXCEPT ![dev] =
                  [c \in Cores |-> [@[c] EXCEPT ![Place[dev][a]] = v % Width]]]
          ELSE regs

Write_NoTruncation(dev, core, a, v) ==
  regs' = IF a \in DOMAIN Place[dev]
          THEN [regs EXCEPT ![dev][Copy(dev, core)][Place[dev][a]] = v]
          ELSE regs

\* A write by core; where nothing is stored it is dropped.
Write(dev, core, a, v) ==
  regs' = IF a \in DOMAIN Place[dev]
          THEN [regs EXCEPT ![dev][Copy(dev, core)][Place[dev][a]] = v % Width]
          ELSE regs

GuestWrite(dev, core, a, v) ==
  /\ writes < MaxWrites
  /\ Write(dev, core, a, v)
  /\ writes' = writes + 1
  /\ last' = [dev |-> dev, copy |-> Copy(dev, core), addr |-> a, value |-> v]

RegInit ==
  /\ regs = [dev \in Devices |-> [c \in Cores |-> [o \in Words(dev) |-> 0]]]
  /\ writes = 0
  /\ last = [dev |-> "gicd", copy |-> 0, addr |-> 0, value |-> 0]

RegNext ==
  \E dev \in Devices, core \in Cores, v \in Values :
    \E a \in Addrs[dev] : GuestWrite(dev, core, a, v)

RegSpec == RegInit /\ [][RegNext]_regVars

-----------------------------------------------------------------------------
\* Every variable has its type.
RegTypeOK ==
  /\ \A dev \in Devices : regs[dev] \in [Cores -> [Words(dev) -> 0 .. Width - 1]]
  /\ writes \in 0 .. MaxWrites
  /\ last.dev \in Devices /\ last.copy \in Cores

Word(a) == a \div 4

\* A write to one word of a device changes what no other word reads as, and
\* nothing of a file another core has its own copy of: the arrays of the
\* handlers do not overlap, at their ends either, and each is where the
\* struct's comments put it (gicd.cpp:20-44, gicc.cpp:11-28).
RegistersSeparate ==
  [][regs' # regs =>
       \A dev \in Devices, c \in Cores : \A a \in Addrs[dev] :
         Read(dev, c, a)' # Read(dev, c, a) =>
           dev = last'.dev /\ Copy(dev, c) = last'.copy /\ Word(a) = Word(last'.addr)]_regVars

\* What a core writes to a stored register is read back from every byte of that
\* word, by every core when the device is shared (mc.cpp:16-32, 40-60).
WritesReadBack ==
  [][writes' # writes =>
       \A dev \in Devices, c \in Cores : \A a \in Addrs[dev] :
         /\ dev = last'.dev /\ Copy(dev, c) = last'.copy /\ Word(a) = Word(last'.addr)
         /\ a \in DOMAIN Place[dev] /\ last'.addr \in DOMAIN Place[dev]
         => Read(dev, c, a)' = last'.value % Width]_regVars
=============================================================================
