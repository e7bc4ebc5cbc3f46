---------------------------- MODULE DeviceProofs ----------------------------
(***************************************************************************)
(* Proofs about the devices: modules Registers, Uart and Timer, and their  *)
(* composition in module Devices.                                          *)
(***************************************************************************)
EXTENDS Devices, SequenceTheorems, FiniteSetTheorems, TLAPS

(***************************************************************************)
(* The register files.                                                     *)
(***************************************************************************)
\* The one array whose index counts from the offset of another.
NSAPR == Array(\hE0, \hFB, \hD0, \hE0)

\* An array at the offset of a word, whose index counts from its own start.
Aligned(r) == r.base \in Nat /\ r.base % 4 = 0 /\ r.at = r.base

\* An array that counts from its own offset is one.
LEMMA OwnAligned ==
  ASSUME NEW first \in Nat, first % 4 = 0, NEW final
  PROVE  Aligned(Own(first, final))
BY DEF Own, Array, Aligned

\* All arrays but that one are aligned.
LEMMA LayoutAligned ==
  ASSUME NEW dev \in Devices, NEW r \in Layout[dev]
  PROVE  \/ Aligned(r)
         \/ dev = "gicc" /\ r = NSAPR
<1>1. CASE dev = "gicd"
  <2>1. r \in GicdLayout
    BY <1>1 DEF Layout
  <2>2. CASE \E k \in 0 .. 6 : r = Own(\h080 + (k * \h80), \h0FF + (k * \h80))
    <3>1. PICK k \in 0 .. 6 : r = Own(\h080 + (k * \h80), \h0FF + (k * \h80))
      BY <2>2
    <3>2. \h080 + (k * \h80) \in Nat /\ (\h080 + (k * \h80)) % 4 = 0
      OBVIOUS
    <3>3. QED
      BY <3>1, <3>2, OwnAligned
  <2>3. CASE r \in {Own(\h400, \h7FB), Own(\h800, \hBFB), Own(\hC00, \hCFF), Own(\hE00, \hEFF)}
    BY <2>3, OwnAligned
  <2>4. CASE r \in {Single(\h000), Own(\hF10, \hF1F), Own(\hF20, \hF2F), Single(\hFE8)}
    BY <2>4, OwnAligned DEF Single
  <2>5. QED
    BY <2>1, <2>2, <2>3, <2>4 DEF GicdLayout
<1>2. CASE dev = "gicc"
  <2>1. r \in GiccLayout
    BY <1>2 DEF Layout
  <2>2. CASE \E o \in {\h00, \h04, \h08, \h14, \h18, \hFC, \h1000} : r = Single(o)
    BY <2>2, OwnAligned DEF Single
  <2>3. CASE r = Own(\hD0, \hDF)
    BY <2>3, OwnAligned
  <2>4. CASE r = NSAPR
    BY <1>2, <2>4
  <2>5. QED
    BY <2>1, <2>2, <2>3, <2>4 DEF GiccLayout, NSAPR
<1>3. CASE dev = "mc"
  <2>1. \E o \in {\h00, \h10, \h1C, \h20, \h30, \h34} : r = Single(o)
    BY <1>3 DEF Layout, McLayout
  <2>2. QED
    BY <2>1, OwnAligned DEF Single
<1>4. CASE dev \in Stubs
  BY <1>4 DEF Stubs, Layout
<1>5. QED
  BY <1>1, <1>2, <1>3, <1>4 DEF Devices

\* The index of an aligned array is that of the word it is asked for.
LEMMA AlignedElement ==
  ASSUME NEW r, Aligned(r), NEW a \in Nat
  PROVE  r.at + 4 * ((a - r.base) \div 4) = 4 * Word(a)
BY DEF Aligned, Word

InNsapr(dev, a) == dev = "gicc" /\ a \in \hE0 .. \hFB

\* What lies in NSAPR's range lies in no other, and the other way round.
LEMMA NsaprAlone ==
  ASSUME NEW a \in Nat, NEW r \in Layout["gicc"], a \in r.first .. r.final
  PROVE  a \in \hE0 .. \hFB <=> r = NSAPR
<1>1. r \in GiccLayout
  BY DEF Layout, Devices
<1>2. CASE \E o \in {\h00, \h04, \h08, \h14, \h18, \hFC, \h1000} : r = Single(o)
  BY <1>2 DEF Single, Own, Array, NSAPR
<1>3. CASE r = Own(\hD0, \hDF)
  BY <1>3 DEF Own, Array, NSAPR
<1>4. CASE r = NSAPR
  BY <1>4 DEF Array, NSAPR
<1>5. QED
  BY <1>1, <1>2, <1>3, <1>4 DEF GiccLayout, NSAPR

\* The word an access reaches is the one at its address; an access to NSAPR
\* reaches four words further.
LEMMA ElementIs ==
  ASSUME NEW dev \in Devices, NEW a \in Nat, Stored(dev, a)
  PROVE  Element(dev, a) = IF InNsapr(dev, a) THEN 4 * Word(a) + 16 ELSE 4 * Word(a)
<1> DEFINE r == CHOOSE r \in ArraysAt(dev, a) : TRUE
<1>1. r \in Layout[dev] /\ a \in r.first .. r.final
  BY DEF Stored, ArraysAt
<1>2. Element(dev, a) = r.at + 4 * ((a - r.base) \div 4)
  BY DEF Element
<1> HIDE DEF r
<1>3. CASE Aligned(r)
  <2>1. ~InNsapr(dev, a)
    <3>1. r # NSAPR
      BY <1>3 DEF Aligned, NSAPR, Array
    <3>2. QED
      BY <1>1, <3>1, NsaprAlone DEF InNsapr
  <2>2. QED
    BY <1>2, <1>3, <2>1, AlignedElement
<1>4. CASE dev = "gicc" /\ r = NSAPR
  <2>1. InNsapr(dev, a)
    BY <1>1, <1>4, NsaprAlone DEF InNsapr
  <2>2. r.at = \hE0 /\ r.base = \hD0
    BY <1>4 DEF NSAPR, Array
  <2>3. QED
    BY <1>2, <2>1, <2>2 DEF Word
<1>5. QED
  BY <1>1, <1>3, <1>4, LayoutAligned

\* An array stays within its words: two offsets in one word lie in NSAPR or not.
LEMMA NsaprWords ==
  ASSUME NEW dev, NEW a \in Nat, NEW b \in Nat, Word(a) = Word(b)
  PROVE  InNsapr(dev, a) <=> InNsapr(dev, b)
BY DEF InNsapr, Word

\* GICC_IIDR is the only register of the CPU interface behind NSAPR in reach of
\* its index.
LEMMA BehindNsapr ==
  ASSUME NEW b \in Nat, Stored("gicc", b), ~InNsapr("gicc", b), Word(b) \in 60 .. 66
  PROVE  b = \hFC
<1>1. PICK r \in GiccLayout : b \in r.first .. r.final
  BY DEF Stored, ArraysAt, Layout, Devices
<1>2. b \in 240 .. 267 /\ ~(b \in \hE0 .. \hFB)
  BY DEF Word, InNsapr
<1>3. CASE \E o \in {\h00, \h04, \h08, \h14, \h18, \hFC, \h1000} : r = Single(o)
  BY <1>1, <1>2, <1>3 DEF Single, Own, Array
<1>4. CASE r = Own(\hD0, \hDF)
  BY <1>1, <1>2, <1>4 DEF Own, Array
<1>5. CASE r = Array(\hE0, \hFB, \hD0, \hE0)
  BY <1>1, <1>2, <1>5 DEF Array
<1>6. QED
  BY <1>1, <1>3, <1>4, <1>5 DEF GiccLayout

\* Where a register of the guest's is.
LEMMA PlaceIs ==
  ASSUME NEW dev \in Devices, NEW a
  PROVE  /\ a \in DOMAIN Place[dev] <=> a \in Addrs[dev] /\ Stored(dev, a)
         /\ a \in DOMAIN Place[dev] => /\ Place[dev][a] = Element(dev, a)
                                       /\ Place[dev][a] \in Words(dev)
                                       /\ a \in Nat
<1>1. a \in DOMAIN Place[dev] <=> a \in Addrs[dev] /\ Stored(dev, a)
  BY DEF Place
<1>2. a \in DOMAIN Place[dev] => Place[dev][a] = Element(dev, a)
  BY DEF Place
<1>3. a \in DOMAIN Place[dev] => Place[dev][a] \in Words(dev)
  BY DEF Words
<1>4. Addrs[dev] \subseteq Nat
  BY RegistersAssumption
<1>5. QED
  BY <1>1, <1>2, <1>3, <1>4

\* The offsets of one word reach one place.
LEMMA SamePlace ==
  ASSUME NEW dev \in Devices,
         NEW a \in DOMAIN Place[dev], NEW b \in DOMAIN Place[dev], Word(a) = Word(b)
  PROVE  Place[dev][a] = Place[dev][b]
<1>1. /\ a \in Nat /\ Stored(dev, a) /\ Place[dev][a] = Element(dev, a)
      /\ b \in Nat /\ Stored(dev, b) /\ Place[dev][b] = Element(dev, b)
  BY PlaceIs
<1>2. InNsapr(dev, a) <=> InNsapr(dev, b)
  BY <1>1, NsaprWords
<1>3. QED
  BY <1>1, <1>2, ElementIs

\* The guest does not use both the fourth word of NSAPR and the identification
\* register it is stored over.
IidrIsApart == \hFC \in Addrs["gicc"] => Addrs["gicc"] \cap (\hEC .. \hEF) = {}

\* It has to keep them apart: those two are one place (gicc.cpp:43-46, 118-121).
LEMMA IidrIsNsapr ==
  ASSUME NEW a \in \hEC .. \hEF
  PROVE  /\ Stored("gicc", a) /\ Stored("gicc", \hFC)
         /\ Element("gicc", a) = Element("gicc", \hFC) /\ Word(a) # Word(\hFC)
<1>1. GiccLayout = Layout["gicc"] /\ "gicc" \in Devices
  BY DEF Layout, Devices
<1>2. NSAPR \in Layout["gicc"] /\ a \in NSAPR.first .. NSAPR.final
  BY <1>1 DEF GiccLayout, NSAPR, Array
<1>3. Single(\hFC) \in Layout["gicc"] /\ \hFC \in Single(\hFC).first .. Single(\hFC).final
  BY <1>1 DEF GiccLayout, Single, Own, Array
<1>4. Stored("gicc", a) /\ Stored("gicc", \hFC)
  BY <1>2, <1>3 DEF Stored, ArraysAt
<1>5. Word(a) = 59 /\ Word(\hFC) = 63
  BY DEF Word
<1>6. InNsapr("gicc", a) /\ ~InNsapr("gicc", \hFC)
  BY DEF InNsapr
<1>7. Element("gicc", a) = 4 * 59 + 16 /\ Element("gicc", \hFC) = 4 * 63
  BY <1>1, <1>4, <1>5, <1>6, ElementIs
<1>8. QED
  BY <1>4, <1>5, <1>7

\* Then the offsets of different words reach different places.
LEMMA ApartPlaces ==
  ASSUME IidrIsApart, NEW dev \in Devices,
         NEW a \in DOMAIN Place[dev], NEW b \in DOMAIN Place[dev],
         Place[dev][a] = Place[dev][b]
  PROVE  Word(a) = Word(b)
<1> DEFINE At(o) == IF InNsapr(dev, o) THEN 4 * Word(o) + 16 ELSE 4 * Word(o)
<1>1. /\ a \in Nat /\ Stored(dev, a) /\ a \in Addrs[dev]
      /\ b \in Nat /\ Stored(dev, b) /\ b \in Addrs[dev]
      /\ At(a) = At(b)
  BY PlaceIs, ElementIs
<1>2. Word(a) \in Nat /\ Word(b) \in Nat
  BY <1>1 DEF Word
<1>3. ASSUME NEW x \in Nat, NEW y \in Nat, At(x) = At(y),
             Stored(dev, y), x \in Addrs[dev], y \in Addrs[dev],
             InNsapr(dev, x), ~InNsapr(dev, y)
      PROVE  FALSE
  <2>1. dev = "gicc" /\ Word(x) \in 56 .. 62
    BY <1>3 DEF InNsapr, Word
  <2>2. Word(y) \in Nat /\ Word(y) = Word(x) + 4
    <3>1. Word(y) \in Nat
      BY DEF Word
    <3>2. QED
      BY <1>3, <2>1, <3>1
  <2>3. y = \hFC
    BY <1>3, <2>1, <2>2, BehindNsapr
  <2>4. x \in \hEC .. \hEF
    BY <2>2, <2>3 DEF Word
  <2>5. QED
    BY <1>3, <2>1, <2>3, <2>4 DEF IidrIsApart
<1>4. InNsapr(dev, a) <=> InNsapr(dev, b)
  BY <1>1, <1>3
<1> HIDE DEF At
<1>5. CASE InNsapr(dev, a)
  BY <1>1, <1>2, <1>4, <1>5 DEF At
<1>6. CASE ~InNsapr(dev, a)
  BY <1>1, <1>2, <1>4, <1>6 DEF At
<1>7. QED
  BY <1>5, <1>6

-----------------------------------------------------------------------------
\* The registers are functions, which RegTypeOK does not say of all of them at once.
RegInv ==
  /\ RegTypeOK
  /\ DOMAIN regs = Devices

\* A core's copy is some core's.
LEMMA CopyType == \A dev, c : c \in Cores => Copy(dev, c) \in Cores
BY NCoresAssumption DEF Copy, Cores

\* A value is cut to what a register holds.
LEMMA Truncated == \A v \in Values : v % Width \in 0 .. Width - 1
BY RegistersAssumption

\* It holds at the start,
LEMMA RegInitInv == RegInit => RegInv
<1> SUFFICES ASSUME RegInit PROVE RegInv
  OBVIOUS
<1>1. 0 \in 0 .. Width - 1 /\ 0 \in Cores /\ 0 \in 0 .. MaxWrites
  BY RegistersAssumption, NCoresAssumption DEF Cores
<1>2. QED
  BY <1>1 DEF RegInit, RegInv, RegTypeOK, Devices

\* What a write leaves.
LEMMA WriteEffect ==
  ASSUME RegInv, NEW d \in Devices, NEW core \in Cores, NEW v \in Values,
         NEW addr \in Addrs[d], Write(d, core, addr, v)
  PROVE  /\ RegTypeOK!1' /\ DOMAIN regs' = Devices
         /\ \A dev \in Devices, c \in Cores : \A o \in Words(dev) :
              regs'[dev][c][o] =
                IF /\ addr \in DOMAIN Place[d]
                   /\ dev = d /\ c = Copy(d, core) /\ o = Place[d][addr]
                THEN v % Width ELSE regs[dev][c][o]
<1>1. /\ DOMAIN regs = Devices
      /\ \A dev \in Devices : regs[dev] \in [Cores -> [Words(dev) -> 0 .. Width - 1]]
  BY DEF RegInv, RegTypeOK
<1>2. Copy(d, core) \in Cores /\ v % Width \in 0 .. Width - 1
  BY CopyType, Truncated
<1>3. CASE addr \in DOMAIN Place[d]
  <2> DEFINE p == Place[d][addr]
             w == v % Width
  <2>1. p \in Words(d)
    BY <1>3, PlaceIs
  <2>2. regs' = [regs EXCEPT ![d][Copy(d, core)][p] = w]
    BY <1>3 DEF Write
  <2>3. w \in 0 .. Width - 1
    BY <1>2
  <2> HIDE DEF p, w
  <2>4. QED
    BY <1>1, <1>2, <1>3, <2>1, <2>2, <2>3 DEF RegTypeOK, p, w
<1>4. CASE addr \notin DOMAIN Place[d]
  BY <1>1, <1>4 DEF Write, RegTypeOK
<1>5. QED
  BY <1>3, <1>4

\* every step keeps it,
LEMMA RegNextInv == RegInv /\ [RegNext]_regVars => RegInv'
<1> SUFFICES ASSUME RegInv, [RegNext]_regVars PROVE RegInv'
  OBVIOUS
<1>1. ASSUME NEW d \in Devices, NEW core \in Cores, NEW v \in Values,
             NEW addr \in Addrs[d], GuestWrite(d, core, addr, v)
      PROVE  RegInv'
  <2>1. RegTypeOK!1' /\ DOMAIN regs' = Devices
    BY <1>1, WriteEffect DEF GuestWrite
  <2>2. writes' \in 0 .. MaxWrites
    BY <1>1, RegistersAssumption DEF GuestWrite, RegInv, RegTypeOK
  <2>3. last'.dev \in Devices /\ last'.copy \in Cores
    BY <1>1, CopyType DEF GuestWrite
  <2>4. QED
    BY <2>1, <2>2, <2>3 DEF RegInv, RegTypeOK
<1>2. CASE UNCHANGED regVars
  BY <1>2 DEF regVars, RegInv, RegTypeOK
<1>3. QED
  BY <1>1, <1>2 DEF RegNext

\* so it always holds.
LEMMA RegInvariance == RegSpec => []RegInv
BY RegInitInv, RegNextInv, PTL DEF RegSpec

\* A register never holds more than its 32 bits, whatever is written where.
THEOREM RegTypeCorrect == RegSpec => []RegTypeOK
BY RegInvariance, PTL DEF RegInv

\* No stored register is among the constant ones.
LEMMA ConstantsApart ==
  ASSUME NEW dev \in Devices, NEW a, Stored(dev, a)
  PROVE  a \notin DOMAIN Constants[dev]
<1>1. PICK r \in Layout[dev] : a \in r.first .. r.final
  BY DEF Stored, ArraysAt
<1>2. CASE dev = "gicd"
  <2>1. DOMAIN Constants[dev] = {\h004, \h008}
    BY <1>2 DEF Constants
  <2>2. r \in GicdLayout
    BY <1>1, <1>2 DEF Layout
  <2>3. CASE \E k \in 0 .. 6 : r = Own(\h080 + (k * \h80), \h0FF + (k * \h80))
    <3>1. PICK k \in 0 .. 6 : r = Own(\h080 + (k * \h80), \h0FF + (k * \h80))
      BY <2>3
    <3>2. a \in Int /\ a >= \h080
      BY <1>1, <3>1 DEF Own, Array
    <3>3. QED
      BY <2>1, <3>2
  <2>4. CASE r \in {Own(\h400, \h7FB), Own(\h800, \hBFB), Own(\hC00, \hCFF), Own(\hE00, \hEFF)}
    BY <1>1, <2>1, <2>4 DEF Own, Array
  <2>5. CASE r \in {Single(\h000), Own(\hF10, \hF1F), Own(\hF20, \hF2F), Single(\hFE8)}
    BY <1>1, <2>1, <2>5 DEF Single, Own, Array
  <2>6. QED
    BY <2>2, <2>3, <2>4, <2>5 DEF GicdLayout
<1>3. CASE dev = "mc"
  <2>1. DOMAIN Constants[dev] = {\h50}
    BY <1>3 DEF Constants
  <2>2. PICK o \in {\h00, \h10, \h1C, \h20, \h30, \h34} : r = Single(o)
    BY <1>1, <1>3 DEF Layout, McLayout
  <2>3. QED
    BY <1>1, <2>1, <2>2 DEF Single, Own, Array
<1>4. CASE dev \notin {"gicd", "mc"}
  BY <1>4 DEF Constants
<1>5. QED
  BY <1>2, <1>3, <1>4

\* So a stored register is what is read.
StoredIsRead ==
  \A dev \in Devices, c \in Cores : \A a \in DOMAIN Place[dev] :
    Read(dev, c, a) = regs[dev][Copy(dev, c)][Place[dev][a]]

\* A read of a register shows its place in the file.
LEMMA ReadStored == StoredIsRead
<1> SUFFICES ASSUME NEW dev \in Devices, NEW c \in Cores, NEW a \in DOMAIN Place[dev]
             PROVE  Read(dev, c, a) = regs[dev][Copy(dev, c)][Place[dev][a]]
  BY DEF StoredIsRead
<1>1. a \notin DOMAIN Constants[dev]
  BY ConstantsApart, PlaceIs
<1>2. QED
  BY <1>1, Zenon DEF Read

\* What is read after a write.
LEMMA ReadAfter ==
  ASSUME RegInv, NEW d \in Devices, NEW core \in Cores, NEW v \in Values,
         NEW addr \in Addrs[d], GuestWrite(d, core, addr, v),
         NEW dev \in Devices, NEW c \in Cores, NEW a \in Addrs[dev]
  PROVE  Read(dev, c, a)' = IF /\ a \in DOMAIN Place[dev] /\ addr \in DOMAIN Place[d]
                               /\ dev = d /\ Copy(dev, c) = Copy(d, core)
                               /\ Place[dev][a] = Place[d][addr]
                            THEN v % Width ELSE Read(dev, c, a)
<1>1. CASE a \in DOMAIN Place[dev]
  <2>1. /\ Read(dev, c, a)  = regs[dev][Copy(dev, c)][Place[dev][a]]
        /\ Read(dev, c, a)' = regs'[dev][Copy(dev, c)][Place[dev][a]]
    <3>1. StoredIsRead /\ StoredIsRead'
      BY ReadStored, PTL
    <3>2. QED
      BY <1>1, <3>1 DEF StoredIsRead
  <2>2. Copy(dev, c) \in Cores /\ Place[dev][a] \in Words(dev)
    BY <1>1, CopyType, PlaceIs
  <2>3. QED
    BY <1>1, <2>1, <2>2, WriteEffect DEF GuestWrite
<1>2. CASE a \notin DOMAIN Place[dev]
  BY <1>2 DEF Read
<1>3. QED
  BY <1>1, <1>2

\* A write to a register changes no other register, of any device, and no other
\* core's copy, for all addresses and values, unless the guest uses both of the
\* registers of IidrIsApart: the tables' ranges and the index computed in each
\* never lead to one place from two (gicd.cpp:46-182, gicc.cpp:30-144).
THEOREM RegistersAreSeparate ==
  ASSUME IidrIsApart
  PROVE  RegSpec => RegistersSeparate
<1> DEFINE Separate ==
      regs' # regs =>
        \A dev \in Devices, c \in Cores : \A a \in Addrs[dev] :
          Read(dev, c, a)' # Read(dev, c, a) =>
            dev = last'.dev /\ Copy(dev, c) = last'.copy /\ Word(a) = Word(last'.addr)
<1>1. RegInv /\ [RegNext]_regVars => [Separate]_regVars
  <2> SUFFICES ASSUME RegInv, RegNext, NEW dev \in Devices, NEW c \in Cores,
                      NEW a \in Addrs[dev], Read(dev, c, a)' # Read(dev, c, a)
               PROVE  /\ dev = last'.dev /\ Copy(dev, c) = last'.copy
                      /\ Word(a) = Word(last'.addr)
    OBVIOUS
  <2>1. PICK d \in Devices, core \in Cores, v \in Values :
          \E addr \in Addrs[d] : GuestWrite(d, core, addr, v)
    BY DEF RegNext
  <2>2. PICK addr \in Addrs[d] : GuestWrite(d, core, addr, v)
    BY <2>1
  <2>3. /\ a \in DOMAIN Place[dev] /\ addr \in DOMAIN Place[d]
        /\ dev = d /\ Copy(dev, c) = Copy(d, core)
        /\ Place[dev][a] = Place[d][addr]
    BY <2>2, ReadAfter
  <2>4. Word(a) = Word(addr)
    BY <2>3, ApartPlaces
  <2>5. last'.dev = d /\ last'.copy = Copy(d, core) /\ last'.addr = addr
    BY <2>2 DEF GuestWrite
  <2>6. QED
    BY <2>3, <2>4, <2>5
<1>2. QED
  BY <1>1, RegInvariance, PTL DEF RegSpec, RegistersSeparate

\* What is written to a stored register is read back from every byte of its word,
\* for all addresses and values, wherever the array it is in lies.
THEOREM WritesAreReadBack == RegSpec => WritesReadBack
<1> DEFINE Back ==
      writes' # writes =>
        \A dev \in Devices, c \in Cores : \A a \in Addrs[dev] :
          /\ dev = last'.dev /\ Copy(dev, c) = last'.copy /\ Word(a) = Word(last'.addr)
          /\ a \in DOMAIN Place[dev] /\ last'.addr \in DOMAIN Place[dev]
          => Read(dev, c, a)' = last'.value % Width
<1>1. RegInv /\ [RegNext]_regVars => [Back]_regVars
  <2> SUFFICES ASSUME RegInv, RegNext, NEW dev \in Devices, NEW c \in Cores,
                      NEW a \in Addrs[dev], dev = last'.dev, Copy(dev, c) = last'.copy,
                      Word(a) = Word(last'.addr), a \in DOMAIN Place[dev],
                      last'.addr \in DOMAIN Place[dev]
               PROVE  Read(dev, c, a)' = last'.value % Width
    OBVIOUS
  <2>1. PICK d \in Devices, core \in Cores, v \in Values :
          \E addr \in Addrs[d] : GuestWrite(d, core, addr, v)
    BY DEF RegNext
  <2>2. PICK addr \in Addrs[d] : GuestWrite(d, core, addr, v)
    BY <2>1
  <2>3. /\ last'.dev = d /\ last'.copy = Copy(d, core)
        /\ last'.addr = addr /\ last'.value = v
    BY <2>2 DEF GuestWrite
  <2>4. Place[dev][a] = Place[d][addr]
    BY <2>3, SamePlace
  <2>5. QED
    BY <2>2, <2>3, <2>4, ReadAfter
<1>2. QED
  BY <1>1, RegInvariance, PTL DEF RegSpec, WritesReadBack

(***************************************************************************)
(* The UARTs.                                                              *)
(***************************************************************************)
\* A set of numbers that is not empty has a least one.
LEMMA LeastOf ==
  ASSUME NEW S \in SUBSET Nat, S # {}
  PROVE  Min(S) \in S /\ \A y \in S : Min(S) <= y
<1> DEFINE less == OpToRel(<, Nat)
<1>1. \A x, y \in Nat : <<y, x>> \in less <=> y < x
  BY DEF OpToRel
<1>2. IsWellFoundedOn(less, Nat)
  BY NatLessThanWellFounded
<1> HIDE DEF less
<1>3. PICK x \in S : \A y \in S : ~(<<y, x>> \in less)
  BY <1>2, WFMin
<1>4. \A y \in S : x <= y
  <2> TAKE y \in S
  <2>1. x \in Nat /\ y \in Nat /\ ~(y < x)
    BY <1>1, <1>3
  <2>2. QED
    BY <2>1
<1>5. QED
  BY <1>4 DEF Min

\* A greatest one, if there is one.
LEMMA GreatestOf ==
  ASSUME NEW S \in SUBSET Nat, NEW m \in S, \A y \in S : y <= m
  PROVE  Max(S) = m
<1>1. \A y \in S : m >= y
  OBVIOUS
<1>2. \A x \in S : (\A y \in S : x >= y) => x = m
  <2> TAKE x \in S
  <2>1. x \in Nat /\ m \in Nat /\ x <= m
    OBVIOUS
  <2>2. QED
    BY <2>1
<1>3. QED
  BY <1>1, <1>2 DEF Max

LineByte == Ascii \ {Newline}

\* What is printed of a line has no NUL in it.
LEMMA UpToNulType ==
  ASSUME NEW line \in Seq(LineByte)
  PROVE  UpToNul(line) \in Seq(LineByte \ {0})
<1> DEFINE nuls == {p \in DOMAIN line : line[p] = 0}
<1>1. DOMAIN line = 1 .. Len(line) /\ Len(line) \in Nat
  BY LenProperties
<1>2. \A p \in 1 .. Len(line) : line[p] \in LineByte
  BY <1>1, ElementOfSeq
<1>3. CASE nuls = {}
  <2>1. \A p \in 1 .. Len(line) : line[p] \in LineByte \ {0}
    BY <1>1, <1>2, <1>3
  <2>2. UpToNul(line) = line
    BY <1>3 DEF UpToNul
  <2>3. line = SubSeq(line, 1, Len(line))
    BY SubSeqFull
  <2>4. SubSeq(line, 1, Len(line)) \in Seq(LineByte \ {0})
    BY <1>1, <2>1, SubSeqProperties
  <2>5. QED
    BY <2>2, <2>3, <2>4
<1>4. CASE nuls # {}
  <2>1. nuls \in SUBSET Nat
    BY <1>1
  <2>2. Min(nuls) \in nuls /\ \A y \in nuls : Min(nuls) <= y
    BY <1>4, <2>1, LeastOf
  <2>3. PICK m \in 1 .. Len(line) : m = Min(nuls)
    BY <1>1, <2>2
  <2>4. \A p \in 1 .. m - 1 : line[p] \in LineByte \ {0}
    <3> SUFFICES ASSUME NEW p \in 1 .. m - 1 PROVE line[p] \in LineByte /\ line[p] # 0
      OBVIOUS
    <3>1. p \in 1 .. Len(line) /\ ~(m <= p)
      BY <1>1, <2>3
    <3>2. p \notin nuls
      BY <2>2, <2>3, <3>1
    <3>3. QED
      BY <1>1, <1>2, <3>1, <3>2
  <2>5. UpToNul(line) = SubSeq(line, 1, m - 1)
    BY <1>4, <2>3 DEF UpToNul
  <2>6. 1 \in Int /\ m - 1 \in Int
    BY <1>1
  <2>7. SubSeq(line, 1, m - 1) \in Seq(LineByte \ {0})
    BY <2>4, <2>6, SubSeqProperties
  <2>8. QED
    BY <2>5, <2>7
<1>5. QED
  BY <1>3, <1>4

\* The registers the drivers use belong to their UARTs.
LEMMA Decoded ==
  ASSUME NEW id \in 0 .. 4
  PROVE  /\ addr_to_id(Reg(id, UART_THR_DLAB_0_0)) = id
         /\ Shifted(Reg(id, UART_THR_DLAB_0_0)) = UART_THR_DLAB_0_0
         /\ Shifted(Reg(id, UART_LCR_0)) # UART_THR_DLAB_0_0
<1>1. id \in {0, 1, 2, 3, 4}
  OBVIOUS
<1>2. /\ UART_OFFSETS[0] = 0 /\ UART_OFFSETS[1] = \h40 /\ UART_OFFSETS[2] = \h200
      /\ UART_OFFSETS[3] = \h300 /\ UART_OFFSETS[4] = \h400
  BY DEF UART_OFFSETS
<1>3. \A offset \in 0 .. \h14 : addr_to_id(Reg(id, offset)) = id
  BY <1>1, <1>2 DEF addr_to_id, Reg
<1>4. \A offset \in 0 .. \h14 : Shifted(Reg(id, offset)) = offset
  BY <1>1, <1>2, <1>3 DEF Shifted, Reg
<1>5. QED
  BY <1>3, <1>4 DEF UART_THR_DLAB_0_0, UART_LCR_0

-----------------------------------------------------------------------------
\* Text that grows by a byte.

\* lines and rest are what text is printed as; LineStart stays within text.
Delimits(text, lines, rest) ==
  /\ Len(lines) = Cardinality(Newlines(text))
  /\ \A p \in Newlines(text) :
       lines[Cardinality(NewlinesTo(text, p))] = UpToNul(Line(text, p))
  /\ rest = Line(text, Len(text) + 1)

StartsInside(text) ==
  \A p \in Newlines(text) \cup {Len(text) + 1} : LineStart(text, p) \in 1 .. p

\* The line that is not over yet.
LEMMA LineBefore ==
  ASSUME NEW t, NEW n \in Nat
  PROVE  /\ LineStart(t, n + 1) = 1 + Max({0} \cup NewlinesTo(t, n))
         /\ Line(t, n + 1) = SubSeq(t, LineStart(t, n + 1), n)
BY DEF Line, LineStart

\* Places of newlines are places.
LEMMA NewlinesType ==
  ASSUME NEW t \in Seq(Ascii)
  PROVE  /\ Len(t) \in Nat /\ Newlines(t) \subseteq 1 .. Len(t)
         /\ IsFiniteSet(Newlines(t)) /\ Cardinality(Newlines(t)) \in Nat
<1>1. Len(t) \in Nat /\ DOMAIN t = 1 .. Len(t)
  BY LenProperties
<1>2. Newlines(t) \subseteq 1 .. Len(t)
  BY <1>1 DEF Newlines
<1>3. IsFiniteSet(1 .. Len(t))
  BY <1>1, FS_Interval
<1>4. IsFiniteSet(Newlines(t))
  BY <1>2, <1>3, FS_Subset
<1>5. Cardinality(Newlines(t)) \in Nat
  BY <1>4, FS_CardinalityType
<1>6. QED
  BY <1>1, <1>2, <1>4, <1>5

\* One word more is one newline more, or none.
LEMMA Grown ==
  ASSUME NEW t \in Seq(Ascii), NEW b \in Ascii, NEW u, u = Append(t, b)
  PROVE  /\ u \in Seq(Ascii) /\ Len(u) = Len(t) + 1 /\ u[Len(u)] = b
         /\ Newlines(u) = IF b = Newline THEN Newlines(t) \cup {Len(u)} ELSE Newlines(t)
<1>1. /\ u \in Seq(Ascii) /\ Len(u) = Len(t) + 1 /\ u[Len(u)] = b
      /\ \A k \in 1 .. Len(t) : u[k] = t[k]
  BY AppendProperties
<1>2. DOMAIN u = 1 .. Len(u) /\ DOMAIN t = 1 .. Len(t) /\ Len(t) \in Nat
  BY <1>1, LenProperties
<1>3. DOMAIN u = DOMAIN t \cup {Len(u)} /\ Len(u) \notin DOMAIN t
  BY <1>1, <1>2
<1>4. QED
  BY <1>1, <1>2, <1>3 DEF Newlines

\* No line begins elsewhere for it,
LEMMA NewlinesKept ==
  ASSUME NEW t \in Seq(Ascii), NEW b \in Ascii, NEW u, u = Append(t, b),
         NEW p \in 0 .. Len(t)
  PROVE  NewlinesTo(u, p) = NewlinesTo(t, p)
<1>1. Len(t) \in Nat /\ Len(u) = Len(t) + 1 /\ ~(Len(u) <= p)
  BY NewlinesType, Grown
<1>2. Newlines(u) = IF b = Newline THEN Newlines(t) \cup {Len(u)} ELSE Newlines(t)
  BY Grown
<1>3. QED
  BY <1>1, <1>2 DEF NewlinesTo

\* Lines begin where they did,
LEMMA StartKept ==
  ASSUME NEW t \in Seq(Ascii), NEW b \in Ascii, NEW u, u = Append(t, b),
         NEW p \in 1 .. Len(t) + 1
  PROVE  LineStart(u, p) = LineStart(t, p)
<1>1. p - 1 \in 0 .. Len(t)
  BY NewlinesType
<1>2. NewlinesTo(u, p - 1) = NewlinesTo(t, p - 1)
  BY <1>1, NewlinesKept
<1>3. QED
  BY <1>2 DEF LineStart

\* and no piece of the text changes.
LEMMA PieceKept ==
  ASSUME NEW t \in Seq(Ascii), NEW b \in Ascii, NEW u, u = Append(t, b),
         NEW m \in Nat \ {0}, NEW n \in 0 .. Len(t)
  PROVE  SubSeq(u, m, n) = SubSeq(t, m, n)
<1>1. Len(t) \in Nat /\ u = t \o <<b>> /\ <<b>> \in Seq(Ascii)
  BY NewlinesType, AppendIsConcat
<1>2. CASE n < m
  BY <1>1, <1>2, SubSeqEmpty
<1>3. CASE m <= n
  <2>1. m \in 1 .. Len(t) /\ n \in 1 .. Len(t)
    BY <1>1, <1>3
  <2>2. QED
    BY <1>1, <2>1, SubSeqOfConcat1
<1>4. QED
  BY <1>1, <1>2, <1>3

\* and hold what they did.
LEMMA LineKept ==
  ASSUME NEW t \in Seq(Ascii), NEW b \in Ascii, NEW u, u = Append(t, b),
         NEW p \in 1 .. Len(t) + 1, LineStart(t, p) \in 1 .. p
  PROVE  Line(u, p) = Line(t, p)
<1>1. Len(t) \in Nat
  BY NewlinesType
<1>2. LineStart(t, p) \in Nat \ {0} /\ p - 1 \in 0 .. Len(t)
  BY <1>1
<1>3. SubSeq(u, LineStart(t, p), p - 1) = SubSeq(t, LineStart(t, p), p - 1)
  BY <1>2, PieceKept
<1>4. LineStart(u, p) = LineStart(t, p)
  BY StartKept
<1>5. QED
  BY <1>3, <1>4 DEF Line

\* The place of a line among the lines.
LEMMA LineNumber ==
  ASSUME NEW t \in Seq(Ascii), NEW p \in Newlines(t)
  PROVE  Cardinality(NewlinesTo(t, p)) \in 1 .. Cardinality(Newlines(t))
<1>1. IsFiniteSet(Newlines(t)) /\ NewlinesTo(t, p) \subseteq Newlines(t)
  BY NewlinesType DEF NewlinesTo
<1>2. p \in NewlinesTo(t, p)
  BY NewlinesType DEF NewlinesTo
<1>3. /\ IsFiniteSet(NewlinesTo(t, p))
      /\ Cardinality(NewlinesTo(t, p)) <= Cardinality(Newlines(t))
  BY <1>1, FS_Subset
<1>4. Cardinality(NewlinesTo(t, p)) \in Nat /\ Cardinality(NewlinesTo(t, p)) # 0
  BY <1>2, <1>3, FS_CardinalityType, FS_EmptySet
<1>5. Cardinality(Newlines(t)) \in Nat
  BY NewlinesType
<1>6. QED
  BY <1>3, <1>4, <1>5

\* The lines that were are delimited as before.
LEMMA LinesKept ==
  ASSUME NEW t \in Seq(Ascii), NEW b \in Ascii, NEW u, u = Append(t, b),
         StartsInside(t), NEW p \in Newlines(t)
  PROVE  /\ NewlinesTo(u, p) = NewlinesTo(t, p)
         /\ Line(u, p) = Line(t, p)
         /\ LineStart(u, p) \in 1 .. p
<1>1. Len(t) \in Nat /\ p \in 1 .. Len(t)
  BY NewlinesType
<1>2. p \in 0 .. Len(t) /\ p \in 1 .. Len(t) + 1
  BY <1>1
<1>3. LineStart(t, p) \in 1 .. p
  BY DEF StartsInside
<1>4. QED
  BY <1>2, <1>3, NewlinesKept, LineKept, StartKept

\* The rest when one byte more is part of it.
LEMMA LineGrows ==
  ASSUME NEW t \in Seq(Ascii), NEW b \in Ascii, NEW u, u = Append(t, b),
         NEW first \in 1 .. Len(t) + 1
  PROVE  SubSeq(u, first, Len(u)) = Append(SubSeq(t, first, Len(t)), b)
<1>1. /\ Len(t) \in Nat /\ u \in Seq(Ascii) /\ Len(u) = Len(t) + 1 /\ u[Len(u)] = b
  BY NewlinesType, Grown
<1>2. first \in 1 .. Len(u) /\ Len(u) \in first .. Len(u) /\ Len(u) - 1 = Len(t)
  BY <1>1
<1>3. SubSeq(u, first, Len(u)) = SubSeq(u, first, Len(t)) \o <<b>>
  BY <1>1, <1>2, SubSeqRecursiveSecond
<1>4. first \in Nat \ {0} /\ Len(t) \in 0 .. Len(t)
  BY <1>1
<1>5. SubSeq(u, first, Len(t)) = SubSeq(t, first, Len(t))
  BY <1>4, PieceKept
<1>6. SubSeq(t, first, Len(t)) \in Seq(Ascii)
  <2>1. \A k \in first .. Len(t) : t[k] \in Ascii
    BY <1>1, <1>4, ElementOfSeq
  <2>2. first \in Int /\ Len(t) \in Int
    BY <1>1
  <2>3. QED
    BY <2>1, <2>2, SubSeqProperties
<1>7. Append(SubSeq(t, first, Len(t)), b) = SubSeq(t, first, Len(t)) \o <<b>>
  BY <1>6, AppendIsConcat
<1>8. QED
  BY <1>3, <1>5, <1>7

\* A byte that is no newline is the last of the rest.
LEMMA ByteDelimits ==
  ASSUME NEW t \in Seq(Ascii), NEW b \in Ascii, b # Newline, NEW u, u = Append(t, b),
         NEW lines, NEW rest, Delimits(t, lines, rest), StartsInside(t)
  PROVE  Delimits(u, lines, Append(rest, b)) /\ StartsInside(u)
<1>1. /\ Len(t) \in Nat /\ Len(u) = Len(t) + 1 /\ Newlines(u) = Newlines(t)
  BY NewlinesType, Grown
<1> DEFINE first == LineStart(t, Len(t) + 1)
<1>2. first \in 1 .. Len(t) + 1
  BY DEF StartsInside
<1>3. LineStart(u, Len(u) + 1) = first
  <2>1. NewlinesTo(u, Len(u)) = NewlinesTo(t, Len(t))
    <3>1. \A q \in Newlines(t) : q <= Len(u) /\ q <= Len(t)
      BY <1>1, NewlinesType
    <3>2. QED
      BY <1>1, <3>1 DEF NewlinesTo
  <2>2. Len(u) \in Nat
    BY <1>1
  <2>3. QED
    BY <1>1, <2>1, <2>2, LineBefore
<1>4. Line(u, Len(u) + 1) = Append(rest, b)
  <2>1. Len(u) \in Nat
    BY <1>1
  <2>2. Line(u, Len(u) + 1) = SubSeq(u, first, Len(u))
    BY <1>3, <2>1, LineBefore
  <2>3. rest = SubSeq(t, first, Len(t))
    BY <1>1, LineBefore DEF Delimits
  <2> HIDE DEF first
  <2>4. QED
    BY <1>2, <2>2, <2>3, LineGrows
<1> HIDE DEF first
<1>5. Delimits(u, lines, Append(rest, b))
  <2>1. Len(lines) = Cardinality(Newlines(u))
    BY <1>1 DEF Delimits
  <2>2. ASSUME NEW p \in Newlines(u)
        PROVE  lines[Cardinality(NewlinesTo(u, p))] = UpToNul(Line(u, p))
    <3>1. p \in Newlines(t)
      BY <1>1
    <3>2. NewlinesTo(u, p) = NewlinesTo(t, p) /\ Line(u, p) = Line(t, p)
      BY <3>1, LinesKept
    <3>3. QED
      BY <3>1, <3>2 DEF Delimits
  <2>3. QED
    BY <1>4, <2>1, <2>2 DEF Delimits
<1>6. StartsInside(u)
  <2>1. \A p \in Newlines(u) : LineStart(u, p) \in 1 .. p
    BY <1>1, LinesKept
  <2>2. LineStart(u, Len(u) + 1) \in 1 .. Len(u) + 1
    BY <1>1, <1>2, <1>3
  <2>3. QED
    BY <2>1, <2>2 DEF StartsInside
<1>7. QED
  BY <1>5, <1>6

\* A newline makes a line of the rest.
LEMMA NewlineDelimits ==
  ASSUME NEW t \in Seq(Ascii), NEW u, u = Append(t, Newline),
         NEW S, NEW lines \in Seq(S), NEW rest, UpToNul(rest) \in S,
         Delimits(t, lines, rest), StartsInside(t)
  PROVE  Delimits(u, Append(lines, UpToNul(rest)), <<>>) /\ StartsInside(u)
<1> DEFINE all == Append(lines, UpToNul(rest))
<1>0. Newline \in Ascii
  BY DEF Newline, Ascii
<1>1. /\ Len(t) \in Nat /\ Len(u) = Len(t) + 1
      /\ Newlines(t) \subseteq 1 .. Len(t) /\ IsFiniteSet(Newlines(t))
      /\ Newlines(u) = Newlines(t) \cup {Len(u)}
  BY <1>0, NewlinesType, Grown
<1>2. /\ Len(lines) = Cardinality(Newlines(t)) /\ Len(lines) \in Nat
      /\ Len(all) = Len(lines) + 1 /\ all[Len(lines) + 1] = UpToNul(rest)
      /\ \A k \in 1 .. Len(lines) : all[k] = lines[k]
  BY AppendProperties, LenProperties DEF Delimits
<1>3. Cardinality(Newlines(u)) = Len(lines) + 1
  <2>1. Len(u) \notin Newlines(t)
    BY <1>1
  <2>2. Cardinality(Newlines(t) \cup {Len(u)}) = Cardinality(Newlines(t)) + 1
    BY <1>1, <2>1, FS_AddElement
  <2>3. QED
    BY <1>1, <1>2, <2>2
<1> HIDE DEF all
<1>4. LineStart(t, Len(t) + 1) \in 1 .. Len(t) + 1
  BY DEF StartsInside
<1>5. Len(u) \in 1 .. Len(t) + 1
  BY <1>1
<1>6. LineStart(u, Len(u)) = LineStart(t, Len(t) + 1) /\ Line(u, Len(u)) = rest
  <2>1. LineStart(u, Len(u)) = LineStart(t, Len(u))
    BY <1>0, <1>5, StartKept
  <2>2. Line(u, Len(u)) = Line(t, Len(u))
    BY <1>0, <1>1, <1>4, <1>5, LineKept
  <2>3. QED
    BY <1>1, <2>1, <2>2 DEF Delimits
<1>7. NewlinesTo(u, Len(u)) = Newlines(u)
  BY <1>1 DEF NewlinesTo
<1>8. LineStart(u, Len(u) + 1) = Len(u) + 1
  <2> DEFINE before == {0} \cup Newlines(u)
  <2>1. before \in SUBSET Nat /\ Len(u) \in before /\ \A y \in before : y <= Len(u)
    BY <1>1
  <2> HIDE DEF before
  <2>2. Max(before) = Len(u)
    BY <2>1, GreatestOf
  <2>3. Len(u) \in Nat
    BY <1>1
  <2>4. LineStart(u, Len(u) + 1) = 1 + Max(before)
    BY <1>7, <2>3, LineBefore DEF before
  <2>5. QED
    BY <1>1, <2>2, <2>4
<1>9. ASSUME NEW p \in Newlines(u)
      PROVE  all[Cardinality(NewlinesTo(u, p))] = UpToNul(Line(u, p))
  <2>1. CASE p \in Newlines(t)
    <3>1. NewlinesTo(u, p) = NewlinesTo(t, p) /\ Line(u, p) = Line(t, p)
      BY <1>0, <2>1, LinesKept
    <3>2. lines[Cardinality(NewlinesTo(t, p))] = UpToNul(Line(t, p))
      BY <2>1 DEF Delimits
    <3>3. Cardinality(NewlinesTo(t, p)) \in 1 .. Len(lines)
      BY <1>2, <2>1, LineNumber
    <3>4. QED
      BY <1>2, <3>1, <3>2, <3>3
  <2>2. CASE p = Len(u)
    BY <1>2, <1>3, <1>6, <1>7, <2>2
  <2>3. QED
    BY <1>1, <2>1, <2>2
<1>10. <<>> = Line(u, Len(u) + 1)
  <2>1. Len(u) \in Nat /\ Len(u) + 1 \in Int /\ Len(u) \in Int /\ Len(u) < Len(u) + 1
    BY <1>1
  <2>2. SubSeq(u, Len(u) + 1, Len(u)) = <<>>
    BY <2>1, SubSeqEmpty
  <2>3. QED
    BY <1>8, <2>1, <2>2, LineBefore
<1>11. StartsInside(u)
  <2>1. \A p \in Newlines(t) : LineStart(u, p) \in 1 .. p
    BY <1>0, LinesKept
  <2>2. LineStart(u, Len(u)) \in 1 .. Len(u)
    BY <1>1, <1>4, <1>6
  <2>3. LineStart(u, Len(u) + 1) \in 1 .. Len(u) + 1
    BY <1>1, <1>8
  <2>4. QED
    BY <1>1, <2>1, <2>2, <2>3 DEF StartsInside
<1>12. Delimits(u, all, <<>>)
  BY <1>2, <1>3, <1>9, <1>10 DEF Delimits
<1>13. QED
  BY <1>11, <1>12 DEF all

\* No text is no lines.
LEMMA NothingDelimits == Delimits(<<>>, <<>>, <<>>) /\ StartsInside(<<>>)
<1>1. Newlines(<<>>) = {} /\ Len(<<>>) = 0 /\ Cardinality({}) = 0
  BY FS_EmptySet DEF Newlines
<1>2. LineStart(<<>>, 0 + 1) = 1
  <2>1. {0} \cup NewlinesTo(<<>>, 0) = {0}
    BY <1>1 DEF NewlinesTo
  <2>2. 0 \in {0} /\ {0} \in SUBSET Nat /\ \A y \in {0} : y <= 0
    OBVIOUS
  <2>3. Max({0}) = 0
    BY <2>2, GreatestOf
  <2>4. QED
    BY <2>1, <2>3, LineBefore
<1>3. Line(<<>>, 0 + 1) = <<>>
  <2>1. SubSeq(<<>>, 1, 0) = <<>>
    BY SubSeqEmpty
  <2>2. QED
    BY <1>2, <2>1, LineBefore
<1>4. Delimits(<<>>, <<>>, <<>>)
  BY <1>1, <1>3 DEF Delimits
<1>5. StartsInside(<<>>)
  BY <1>1, <1>2 DEF StartsInside
<1>6. QED
  BY <1>4, <1>5

-----------------------------------------------------------------------------
\* What every UART has printed and holds is what was sent to it.
AllDelimited ==
  \A id \in 0 .. 4 :
    Delimits(sent[id], printed[id], fifos[id]) /\ StartsInside(sent[id])

UartInv == UartTypeOK /\ AllDelimited

\* The guest's UARTs are among the five.
LEMMA UartNumbers == Uarts \subseteq 0 .. 4 /\ MaxSent \in Nat
BY UartAssumption DEF UART_OFFSETS

\* Printing UART id's text, and nobody else's.
LEMMA TransmitInv ==
  ASSUME UartInv, NEW id \in 0 .. 4, NEW b \in Ascii, Transmit(id, b),
         sent' = [sent EXCEPT ![id] = Append(@, b)]
  PROVE  /\ fifos' \in [0 .. 4 -> Seq(Ascii \ {Newline})]
         /\ printed' \in [0 .. 4 -> Seq(Seq(Ascii \ {Newline, 0}))]
         /\ sent' \in [0 .. 4 -> Seq(Ascii)]
         /\ AllDelimited'
<1>1. /\ fifos \in [0 .. 4 -> Seq(Ascii \ {Newline})]
      /\ printed \in [0 .. 4 -> Seq(Seq(Ascii \ {Newline, 0}))]
      /\ sent \in [0 .. 4 -> Seq(Ascii)]
  BY DEF UartInv, UartTypeOK
<1>2. Append(sent[id], b) \in Seq(Ascii)
  BY <1>1, AppendProperties
<1>3. sent' \in [0 .. 4 -> Seq(Ascii)] /\ sent'[id] = Append(sent[id], b)
  BY <1>1, <1>2
<1>4. Delimits(sent[id], printed[id], fifos[id]) /\ StartsInside(sent[id])
  BY DEF UartInv, AllDelimited
<1>5. CASE b # Newline
  <2>1. fifos' = [fifos EXCEPT ![id] = Append(@, b)] /\ printed' = printed
    BY <1>5 DEF Transmit
  <2>2. Append(fifos[id], b) \in Seq(Ascii \ {Newline})
    BY <1>1, <1>5, AppendProperties
  <2>3. /\ fifos' \in [0 .. 4 -> Seq(Ascii \ {Newline})]
        /\ fifos'[id] = Append(fifos[id], b)
    BY <1>1, <2>1, <2>2
  <2>4. Delimits(sent'[id], printed'[id], fifos'[id]) /\ StartsInside(sent'[id])
    BY <1>1, <1>3, <1>4, <1>5, <2>1, <2>3, ByteDelimits
  <2>5. \A j \in 0 .. 4 : j # id => /\ sent'[j] = sent[j] /\ fifos'[j] = fifos[j]
                                    /\ printed'[j] = printed[j]
    BY <1>1, <2>1
  <2>6. AllDelimited'
    BY <2>4, <2>5 DEF UartInv, AllDelimited
  <2>7. QED
    BY <1>1, <1>3, <2>1, <2>3, <2>6
<1>6. CASE b = Newline
  <2>1. /\ fifos' = [fifos EXCEPT ![id] = <<>>]
        /\ printed' = [printed EXCEPT ![id] = Append(@, UpToNul(fifos[id]))]
    BY <1>6 DEF Transmit
  <2>2. UpToNul(fifos[id]) \in Seq(Ascii \ {Newline, 0})
    <3>1. fifos[id] \in Seq(LineByte)
      BY <1>1 DEF LineByte
    <3>2. LineByte \ {0} = Ascii \ {Newline, 0}
      BY DEF LineByte
    <3>3. QED
      BY <3>1, <3>2, UpToNulType
  <2>3. Append(printed[id], UpToNul(fifos[id])) \in Seq(Seq(Ascii \ {Newline, 0}))
    BY <1>1, <2>2, AppendProperties
  <2>4. fifos' \in [0 .. 4 -> Seq(Ascii \ {Newline})] /\ fifos'[id] = <<>>
    <3>1. <<>> \in Seq(Ascii \ {Newline})
      BY EmptySeq
    <3>2. QED
      BY <1>1, <2>1, <3>1
  <2>5. /\ printed' \in [0 .. 4 -> Seq(Seq(Ascii \ {Newline, 0}))]
        /\ printed'[id] = Append(printed[id], UpToNul(fifos[id]))
    BY <1>1, <2>1, <2>3
  <2>6. Delimits(sent'[id], printed'[id], fifos'[id]) /\ StartsInside(sent'[id])
    <3> DEFINE S == Seq(Ascii \ {Newline, 0})
    <3>1. sent[id] \in Seq(Ascii) /\ sent'[id] = Append(sent[id], Newline)
      BY <1>1, <1>3, <1>6
    <3>2. printed[id] \in Seq(S)
      BY <1>1
    <3>3. UpToNul(fifos[id]) \in S
      BY <2>2
    <3> HIDE DEF S
    <3>4. ASSUME NEW t \in Seq(Ascii), NEW lines \in Seq(S), NEW rest, UpToNul(rest) \in S,
                 Delimits(t, lines, rest), StartsInside(t)
          PROVE  /\ Delimits(Append(t, Newline), Append(lines, UpToNul(rest)), <<>>)
                 /\ StartsInside(Append(t, Newline))
      BY <3>4, NewlineDelimits
    <3>5. /\ Delimits(Append(sent[id], Newline), Append(printed[id], UpToNul(fifos[id])), <<>>)
          /\ StartsInside(Append(sent[id], Newline))
      BY <1>4, <3>1, <3>2, <3>3, <3>4
    <3>6. QED
      BY <2>4, <2>5, <3>1, <3>5
  <2>7. \A j \in 0 .. 4 : j # id => /\ sent'[j] = sent[j] /\ fifos'[j] = fifos[j]
                                    /\ printed'[j] = printed[j]
    BY <1>1, <2>1
  <2>8. AllDelimited'
    BY <2>6, <2>7 DEF UartInv, AllDelimited
  <2>9. QED
    BY <1>3, <2>4, <2>5, <2>8
<1>7. QED
  BY <1>5, <1>6

\* A driver's write reaches the UART it is meant for.
LEMMA SendInv ==
  ASSUME UartInv, NEW c \in Cores, Send(c)
  PROVE  UartInv'
<1>1. /\ driver[c].at = "write"
      /\ WriteUart(Reg(driver[c].id, UART_THR_DLAB_0_0), driver[c].word)
      /\ sent' = [sent EXCEPT ![driver[c].id] = @ \o Text(driver[c].word)]
      /\ driver' = [driver EXCEPT ![c] = NoByte] /\ begun' = begun
  BY DEF Send
<1>2. driver \in [Cores ->
        {NoByte} \cup [at : {"poll", "write"}, id : Uarts, word : SentWords]]
  BY DEF UartInv, UartTypeOK
<1>3. PICK id \in 0 .. 4, word \in Nat : driver[c].id = id /\ driver[c].word = word
  <2>1. NoByte.at = "idle"
    BY DEF NoByte
  <2>2. driver[c] \in [at : {"poll", "write"}, id : Uarts, word : SentWords]
    BY <1>1, <1>2, <2>1
  <2>3. QED
    BY <2>2, UartNumbers, UartAssumption
<1>4. driver' \in [Cores ->
        {NoByte} \cup [at : {"poll", "write"}, id : Uarts, word : SentWords]]
  BY <1>1, <1>2
<1>5. /\ addr_to_id(Reg(id, UART_THR_DLAB_0_0)) = id
      /\ Shifted(Reg(id, UART_THR_DLAB_0_0)) = UART_THR_DLAB_0_0
  BY Decoded
<1>6. CASE Byte(word) <= \h7F
  <2>1. Byte(word) \in Ascii
    BY <1>6 DEF Byte, Ascii
  <2>2. Transmit(id, Byte(word))
    BY <1>1, <1>3, <1>5, <1>6 DEF WriteUart
  <2>3. sent' = [sent EXCEPT ![id] = Append(@, Byte(word))]
    <3>1. sent' = [sent EXCEPT ![id] = @ \o <<Byte(word)>>]
      BY <1>1, <1>3, <1>6 DEF Text
    <3>2. sent[id] \in Seq(Ascii)
      BY DEF UartInv, UartTypeOK
    <3>3. Append(sent[id], Byte(word)) = sent[id] \o <<Byte(word)>>
      BY <2>1, <3>2, AppendIsConcat
    <3>4. QED
      BY <3>1, <3>3
  <2>4. QED
    BY <1>1, <1>4, <2>1, <2>2, <2>3, TransmitInv DEF UartInv, UartTypeOK
<1>7. CASE ~(Byte(word) <= \h7F)
  <2>1. UNCHANGED <<fifos, printed>>
    BY <1>1, <1>3, <1>5, <1>7 DEF WriteUart
  <2>2. sent' = sent
    <3>1. sent' = [sent EXCEPT ![id] = @ \o <<>>]
      BY <1>1, <1>3, <1>7 DEF Text
    <3>2. sent \in [0 .. 4 -> Seq(Ascii)]
      BY DEF UartInv, UartTypeOK
    <3>3. sent[id] \o <<>> = sent[id]
      BY <3>2, ConcatEmptySeq
    <3>4. QED
      BY <3>1, <3>2, <3>3
  <2>3. QED
    BY <1>1, <1>4, <2>1, <2>2 DEF UartInv, UartTypeOK, AllDelimited
<1>8. QED
  BY <1>6, <1>7

\* It holds at the start,
LEMMA UartInitInv == UartInit => UartInv
<1> SUFFICES ASSUME UartInit PROVE UartInv
  OBVIOUS
<1>1. UartTypeOK
  BY EmptySeq, UartNumbers DEF UartInit, UartTypeOK
<1>2. AllDelimited
  BY NothingDelimits DEF UartInit, AllDelimited
<1>3. QED
  BY <1>1, <1>2 DEF UartInv

\* every step keeps it,
LEMMA UartNextInv == UartInv /\ [UartNext]_uartVars => UartInv'
<1> SUFFICES ASSUME UartInv, [UartNext]_uartVars PROVE UartInv'
  OBVIOUS
<1> DEFINE Busy == [at : {"poll", "write"}, id : Uarts, word : SentWords]
<1>1. driver \in [Cores -> {NoByte} \cup Busy] /\ begun \in 0 .. MaxSent /\ MaxSent \in Nat
  BY UartNumbers DEF UartInv, UartTypeOK
<1>2. ASSUME NEW c \in Cores, NEW id \in Uarts, NEW word \in SentWords, Begin(c, id, word)
      PROVE  UartInv'
  <2>1. driver' \in [Cores -> {NoByte} \cup Busy]
    BY <1>1, <1>2 DEF Begin
  <2>2. begun' \in 0 .. MaxSent
    BY <1>1, <1>2 DEF Begin
  <2>3. QED
    BY <1>2, <2>1, <2>2 DEF Begin, UartInv, UartTypeOK, AllDelimited
<1>3. ASSUME NEW c \in Cores, AwaitEmpty(c) PROVE UartInv'
  <2>1. driver[c] \in Busy
    BY <1>1, <1>3 DEF AwaitEmpty, NoByte
  <2>2. [driver[c] EXCEPT !.at = "write"] \in Busy
    BY <2>1
  <2>3. driver' \in [Cores -> {NoByte} \cup Busy]
    BY <1>1, <1>3, <2>2 DEF AwaitEmpty
  <2>4. QED
    BY <1>1, <1>3, <2>3 DEF AwaitEmpty, UartInv, UartTypeOK, AllDelimited
<1>4. ASSUME NEW c \in Cores, Send(c) PROVE UartInv'
  BY <1>4, SendInv
<1>5. ASSUME NEW c \in Cores, NEW id \in Uarts, NEW word \in SentWords, SetLine(c, id, word)
      PROVE  UartInv'
  <2>1. Shifted(Reg(id, UART_LCR_0)) # UART_THR_DLAB_0_0
    BY Decoded, UartNumbers
  <2>2. UNCHANGED uartVars
    BY <1>5, <2>1 DEF SetLine, WriteUart, uartVars
  <2>3. QED
    BY <2>2 DEF uartVars, UartInv, UartTypeOK, AllDelimited
<1>6. CASE UNCHANGED uartVars
  BY <1>6 DEF uartVars, UartInv, UartTypeOK, AllDelimited
<1>7. QED
  BY <1>2, <1>3, <1>4, <1>5, <1>6 DEF UartNext

\* so it always holds.
LEMMA UartInvariance == UartSafety => []UartInv
BY UartInitInv, UartNextInv, PTL DEF UartSafety

\* Only ASCII is collected and printed, and a line ends at its newline or NUL.
THEOREM UartTypeCorrect == UartSafety => []UartTypeOK
BY UartInvariance, PTL DEF UartInv

\* Every UART prints exactly the lines that were sent to it, in order, and holds
\* the beginning of the next, for text of any length from any number of cores.
THEOREM OutputIsExact == UartSafety => []OutputExact
<1>1. UartInv => OutputExact
  BY UartNumbers DEF UartInv, AllDelimited, Delimits, OutputExact
<1>2. QED
  BY <1>1, UartInvariance, PTL

(***************************************************************************)
(* The timer.                                                              *)
(***************************************************************************)
\* Facts about division.

\* Quotient and remainder make the number up.
LEMMA DivMod ==
  ASSUME NEW m \in Nat, m > 0, NEW x \in Nat,
         NEW q, q = x \div m, NEW r, r = x % m
  PROVE  /\ q * m + r = x
         /\ q \in Nat /\ r \in 0 .. m - 1
<1>1. q * m + r = x
  BY SMTT(60)
<1>2. q \in Nat /\ r \in 0 .. m - 1
  OBVIOUS
<1>3. QED
  BY <1>1, <1>2

\* They are the only ones that do.
LEMMA ModUnique ==
  ASSUME NEW m \in Nat \ {0}, NEW q \in Nat, NEW r \in 0 .. m - 1
  PROVE  (q * m + r) % m = r
OBVIOUS

\* Multiples of m are m apart.
LEMMA NextMultiple ==
  ASSUME NEW n \in Nat \ {0}, NEW m \in Nat \ {0}, NEW q \in Nat, NEW r \in Nat,
         q * m + r < n * m
  PROVE  (q + 1) * m <= n * m
<1>1. q < n
  OBVIOUS
<1>2. q + 1 <= n
  BY <1>1
<1>3. QED
  BY <1>2

\* The difference of two numbers below m, modulo m.
LEMMA Difference ==
  ASSUME NEW m \in Nat \ {0}, NEW a \in 0 .. m - 1, NEW b \in 0 .. m - 1
  PROVE  (a - b) % m = IF b <= a THEN a - b ELSE a - b + m
<1>1. CASE b <= a
  BY <1>1
<1>2. CASE a < b
  BY <1>2
<1>3. QED
  BY <1>1, <1>2

\* One later is one further, but for the last number, after which 0 follows.
LEMMA OneLater ==
  ASSUME NEW m \in Nat, m > 0, NEW x \in Nat,
         NEW q, q = x \div m, NEW r, r = x % m
  PROVE  (x + 1) % m = IF r + 1 = m THEN 0 ELSE r + 1
<1>1. /\ q * m + r = x
      /\ q \in Nat /\ r \in 0 .. m - 1
  BY DivMod
<1>2. CASE r + 1 = m
  <2>1. x + 1 = (q + 1) * m + 0
    BY <1>1, <1>2
  <2>2. q + 1 \in Nat /\ 0 \in 0 .. m - 1
    BY <1>1
  <2>3. ((q + 1) * m + 0) % m = 0
    BY <2>2, ModUnique
  <2>4. QED
    BY <1>2, <2>1, <2>3
<1>3. CASE r + 1 # m
  <2>1. x + 1 = q * m + (r + 1)
    BY <1>1
  <2>2. r + 1 \in 0 .. m - 1
    BY <1>1, <1>3
  <2>3. (q * m + (r + 1)) % m = r + 1
    BY <1>1, <2>2, ModUnique
  <2>4. QED
    BY <1>3, <2>1, <2>3
<1>4. QED
  BY <1>2, <1>3

-----------------------------------------------------------------------------
\* The counter.

\* How often the counter has wrapped.
Laps == host \div Wrap

\* Seconds and microseconds, put together, are the host's clock.
LEMMA TimeIsHost == host \in Nat => time_us = host
<1> SUFFICES ASSUME host \in Nat PROVE time_us = host
  OBVIOUS
<1>1. Second \in Nat /\ Second > 0
  BY TimerAssumption
<1>2. tv_sec = host \div Second /\ tv_usec = host % Second
  BY DEF tv_sec, tv_usec
<1>3. tv_sec * Second + tv_usec = host
  BY <1>1, <1>2, DivMod
<1>4. QED
  BY <1>3 DEF time_us

\* So the counter is the clock in 32 bits.
LEMMA CounterIsHost == host \in Nat => Counter = host % Wrap /\ Counter \in 0 .. Wrap - 1
<1> SUFFICES ASSUME host \in Nat
             PROVE  Counter = host % Wrap /\ Counter \in 0 .. Wrap - 1
  OBVIOUS
<1>1. Counter = host % Wrap
  BY TimeIsHost DEF Counter
<1>2. QED
  BY <1>1, TimerAssumption

\* Laps and counter make the clock up.
LEMMA LapsAndCounter == host \in Nat => Laps * Wrap + Counter = host /\ Laps \in Nat
<1> SUFFICES ASSUME host \in Nat
             PROVE  Laps * Wrap + Counter = host /\ Laps \in Nat
  OBVIOUS
<1>1. Wrap \in Nat /\ Wrap > 0
  BY TimerAssumption
<1>2. Laps = host \div Wrap /\ Counter = host % Wrap
  BY CounterIsHost DEF Laps
<1>3. Laps * Wrap + Counter = host
  BY <1>1, <1>2, DivMod
<1>4. Laps \in Nat
  BY <1>1, <1>2
<1>5. QED
  BY <1>3, <1>4

\* The clock runs in a cycle that is not empty.
LEMMA CycleType == Cycle \in Nat \ {0}
BY TimerAssumption DEF Cycle

\* With each microsecond the counter counts one, and wraps where 32 bits do,
\* also when it is the end of the cycle.
LEMMA CounterTicks ==
  ASSUME host \in 0 .. Cycle - 1, host' = (host + 1) % Cycle
  PROVE  Counter' = IF Counter + 1 = Wrap THEN 0 ELSE Counter + 1
<1>1. /\ host \in Nat /\ host' \in Nat
      /\ Wrap \in Nat \ {0} /\ Second \in Nat \ {0}
  BY CycleType, TimerAssumption
<1>2. Counter = host % Wrap /\ Counter \in 0 .. Wrap - 1
  BY <1>1, CounterIsHost
<1>3. Counter' = host' % Wrap
  <2>1. (host \in Nat => Counter = host % Wrap)'
    BY CounterIsHost, PTL
  <2>2. QED
    BY <1>1, <2>1
<1>4. CASE host + 1 < Cycle
  <2>1. host' = host + 1
    BY <1>4, <1>1, CycleType
  <2>2. (host + 1) % Wrap = IF Counter + 1 = Wrap THEN 0 ELSE Counter + 1
    <3>1. Wrap \in Nat /\ Wrap > 0 /\ host \in Nat
      BY <1>1
    <3>2. Laps = host \div Wrap /\ Counter = host % Wrap
      BY <1>2 DEF Laps
    <3>3. QED
      BY <3>1, <3>2, OneLater
  <2>3. QED
    BY <1>3, <2>1, <2>2
<1>5. CASE host + 1 = Cycle
  <2>1. host' = 0
    BY <1>5, <1>1, CycleType
  <2>2. Counter' = 0
    BY <1>1, <1>3, <2>1
  <2>3. Laps * Wrap + Counter = host /\ Laps \in Nat
    BY <1>1, LapsAndCounter
  <2>4. (Laps + 1) * Wrap <= Second * Wrap
    <3>1. Laps * Wrap + Counter < Second * Wrap /\ Counter \in Nat
      BY <1>1, <1>2, <1>5, <2>3 DEF Cycle
    <3>2. QED
      BY <1>1, <2>3, <3>1, NextMultiple
  <2>5. Counter + 1 = Wrap
    BY <1>1, <1>2, <1>5, <2>3, <2>4 DEF Cycle
  <2>6. QED
    BY <2>2, <2>5
<1>6. QED
  BY <1>4, <1>5, CycleType

-----------------------------------------------------------------------------
\* Type correctness.

\* At the start,
LEMMA TimerTypeInit == TimerInit => TimerTypeOK
<1> SUFFICES ASSUME TimerInit PROVE TimerTypeOK
  OBVIOUS
<1>1. 0 \in 0 .. Wrap - 1 /\ 0 \in 0 .. Wrap /\ 0 \in 0 .. Gap - 1
  BY TimerAssumption
<1>2. QED
  BY <1>1 DEF TimerInit, TimerTypeOK, NoDelay, JustNow

\* and after every step.
LEMMA TimerTypeNext == TimerTypeOK /\ [TimerNext]_timerVars => TimerTypeOK'
<1> SUFFICES ASSUME TimerTypeOK, [TimerNext]_timerVars PROVE TimerTypeOK'
  OBVIOUS
<1> DEFINE Loop   == [waits : BOOLEAN, start : 0 .. Wrap - 1, delay : Delays \cup {0}]
           Memory == [begun : 0 .. Wrap, polled : 0 .. Gap - 1, set : BOOLEAN]
<1>1. /\ host \in 0 .. Cycle - 1
      /\ guest \in [Cores -> Loop]
      /\ past \in [Cores -> Memory]
  BY DEF TimerTypeOK
<1>2. NoDelay \in Loop /\ JustNow \in Memory /\ 0 \in 0 .. Gap - 1
  BY TimerAssumption DEF NoDelay, JustNow
<1>3. Counter \in 0 .. Wrap - 1
  BY <1>1, CounterIsHost, CycleType
<1>4. CASE Tick
  <2>1. host' \in 0 .. Cycle - 1
    <3>1. host + 1 \in Nat
      BY <1>1, CycleType
    <3>2. \A n \in Nat : n % Cycle \in 0 .. Cycle - 1
      BY CycleType
    <3>3. host' = (host + 1) % Cycle
      BY <1>4 DEF Tick
    <3>4. QED
      BY <3>1, <3>2, <3>3
  <2>2. past' \in [Cores -> Memory]
    <3>1. ASSUME NEW c \in Cores
          PROVE  (IF guest[c].waits
                  THEN [past[c] EXCEPT !.begun = IF @ < Wrap THEN @ + 1 ELSE @,
                                       !.polled = @ + 1]
                  ELSE JustNow) \in Memory
      <4>1. CASE guest[c].waits
        <5>1. past[c] \in Memory
          BY <1>1
        <5>2. past[c].polled + 1 \in 0 .. Gap - 1
          <6>1. past[c].polled + 1 < Gap
            BY <1>4, <4>1 DEF Tick
          <6>2. QED
            BY <5>1, <6>1, TimerAssumption
        <5>3. (IF past[c].begun < Wrap THEN past[c].begun + 1 ELSE past[c].begun) \in 0 .. Wrap
          BY <5>1, TimerAssumption
        <5>4. QED
          BY <4>1, <5>1, <5>2, <5>3
      <4>2. CASE ~guest[c].waits
        BY <1>2, <4>2
      <4>3. QED
        BY <4>1, <4>2
    <3>2. QED
      BY <1>4, <3>1 DEF Tick
  <2>3. QED
    BY <1>1, <1>4, <2>1, <2>2 DEF Tick, TimerTypeOK
<1>5. ASSUME NEW shift \in Shifts, SetClock(shift) PROVE TimerTypeOK'
  <2>1. host' \in 0 .. Cycle - 1
    <3>1. host + shift \in Nat
      BY <1>1, CycleType, TimerAssumption
    <3>2. QED
      BY <1>5, <3>1, CycleType DEF SetClock
  <2>2. past' \in [Cores -> Memory]
    <3>1. \A c \in Cores : guest[c].waits \in BOOLEAN
      BY <1>1
    <3>2. \A c \in Cores : [past[c] EXCEPT !.set = guest[c].waits] \in Memory
      BY <1>1, <3>1
    <3>3. QED
      BY <1>5, <3>2 DEF SetClock
  <2>3. QED
    BY <1>1, <1>5, <2>1, <2>2 DEF SetClock, TimerTypeOK
<1>6. ASSUME NEW c \in Cores, PollCounter(c) PROVE TimerTypeOK'
  <2>1. guest' \in [Cores -> Loop]
    BY <1>1, <1>2, <1>6 DEF PollCounter
  <2>2. past' \in [Cores -> Memory]
    BY <1>1, <1>2, <1>6 DEF PollCounter
  <2>3. QED
    BY <1>1, <1>6, <2>1, <2>2 DEF PollCounter, TimerTypeOK
<1>7. ASSUME NEW c \in Cores, NEW d \in Delays, BeginDelay(c, d) PROVE TimerTypeOK'
  <2>1. guest' \in [Cores -> Loop]
    BY <1>1, <1>3, <1>7 DEF BeginDelay
  <2>2. past' \in [Cores -> Memory]
    BY <1>1, <1>2, <1>7 DEF BeginDelay
  <2>3. QED
    BY <1>1, <1>7, <2>1, <2>2 DEF BeginDelay, TimerTypeOK
<1>8. CASE UNCHANGED timerVars
  BY <1>1, <1>8 DEF timerVars, TimerTypeOK
<1>9. QED
  BY <1>4, <1>5, <1>6, <1>7, <1>8 DEF TimerNext

\* The clock, the loops and what is remembered of them have their types.
THEOREM TimerTypeCorrect == TimerSafety => []TimerTypeOK
BY TimerTypeInit, TimerTypeNext, PTL DEF TimerSafety

-----------------------------------------------------------------------------
\* Delays.

\* What a poll of core c computes.
Waited(c) == (Counter - guest[c].start) % Wrap

\* A poll finds the time that has passed, as long as that fits the counter and
\* nobody sets the clock.
Measured ==
  \A c \in Cores :
    guest[c].waits /\ ~past[c].set /\ past[c].begun < Wrap => Waited(c) = past[c].begun

\* A microsecond passes in all of them, whatever is done to the clock.
LEMMA MeasuredTick ==
  ASSUME TimerTypeOK, Measured, Tick
  PROVE  Measured'
<1> SUFFICES ASSUME NEW c \in Cores,
                    guest'[c].waits, ~past'[c].set, past'[c].begun < Wrap
             PROVE  (Counter' - guest'[c].start) % Wrap = past'[c].begun
  BY DEF Measured, Waited
<1>1. /\ host \in Nat /\ Wrap \in Nat \ {0}
      /\ Counter \in 0 .. Wrap - 1
      /\ guest[c].start \in 0 .. Wrap - 1
      /\ past[c].begun \in Nat
  <2>1. host \in Nat
    BY CycleType DEF TimerTypeOK
  <2>2. past[c].begun \in Nat
    BY TimerAssumption DEF TimerTypeOK
  <2>3. QED
    BY <2>1, <2>2, CounterIsHost, TimerAssumption DEF TimerTypeOK
<1>2. guest'[c] = guest[c]
  BY DEF Tick
<1>3. past'[c] = [past[c] EXCEPT !.begun = IF @ < Wrap THEN @ + 1 ELSE @, !.polled = @ + 1]
  BY <1>2 DEF Tick
<1>4. /\ ~past[c].set
      /\ past[c].begun + 1 < Wrap
      /\ past'[c].begun = past[c].begun + 1
  <2>1. past[c] \in [begun : 0 .. Wrap, polled : 0 .. Gap - 1, set : BOOLEAN]
    BY DEF TimerTypeOK
  <2>2. /\ past'[c].set = past[c].set
        /\ past'[c].begun = IF past[c].begun < Wrap THEN past[c].begun + 1
                                                    ELSE past[c].begun
    BY <1>3, <2>1
  <2>3. QED
    BY <1>1, <2>2
<1>5. (Counter - guest[c].start) % Wrap = past[c].begun
  BY <1>1, <1>2, <1>4 DEF Measured, Waited
<1>6. Counter' = IF Counter + 1 = Wrap THEN 0 ELSE Counter + 1
  BY CounterTicks DEF TimerTypeOK, Tick
<1>7. (Counter - guest[c].start) % Wrap =
        IF guest[c].start <= Counter THEN Counter - guest[c].start
                                     ELSE Counter - guest[c].start + Wrap
  BY <1>1, Difference
<1>8. Counter' \in 0 .. Wrap - 1
  BY <1>1, <1>6
<1>9. (Counter' - guest[c].start) % Wrap =
        IF guest[c].start <= Counter' THEN Counter' - guest[c].start
                                      ELSE Counter' - guest[c].start + Wrap
  BY <1>1, <1>8, Difference
<1>10. (Counter' - guest[c].start) % Wrap = past[c].begun + 1
  <2>1. past[c].begun = IF guest[c].start <= Counter THEN Counter - guest[c].start
                                                     ELSE Counter - guest[c].start + Wrap
    BY <1>5, <1>7
  <2>2. (IF guest[c].start <= Counter' THEN Counter' - guest[c].start
                                       ELSE Counter' - guest[c].start + Wrap)
          = past[c].begun + 1
    BY <1>1, <1>4, <1>6, <2>1
  <2>3. QED
    BY <1>9, <2>2
<1>11. QED
  BY <1>2, <1>4, <1>10

\* One step per action.
LEMMA MeasuredNext ==
  TimerTypeOK /\ Measured /\ [TimerNext]_timerVars => Measured'
<1> SUFFICES ASSUME TimerTypeOK, Measured, [TimerNext]_timerVars PROVE Measured'
  OBVIOUS
<1>1. CASE Tick
  BY <1>1, MeasuredTick
<1>2. ASSUME NEW shift \in Shifts, SetClock(shift) PROVE Measured'
  <2>1. \A c \in Cores : guest'[c].waits => past'[c].set
    BY <1>2 DEF SetClock, TimerTypeOK
  <2>2. QED
    BY <2>1 DEF Measured
<1>3. CASE \E c \in Cores : PollCounter(c) \/ \E d \in Delays : BeginDelay(c, d)
  <2>1. PICK c \in Cores : PollCounter(c) \/ \E d \in Delays : BeginDelay(c, d)
    BY <1>3
  <2>2. Counter' = Counter
    BY <2>1 DEF PollCounter, BeginDelay, Counter, time_us, tv_sec, tv_usec
  <2>3. ASSUME NEW d \in Cores, d # c
        PROVE  guest'[d] = guest[d] /\ past'[d] = past[d]
    BY <2>1, <2>3 DEF PollCounter, BeginDelay, TimerTypeOK
  <2>4. CASE PollCounter(c)
    <3>1. /\ guest'[c].waits => guest'[c] = guest[c]
          /\ past'[c].set = past[c].set /\ past'[c].begun = past[c].begun
      BY <2>4 DEF PollCounter, TimerTypeOK, NoDelay
    <3>2. QED
      BY <2>2, <2>3, <3>1 DEF Measured, Waited
  <2>5. ASSUME NEW d \in Delays, BeginDelay(c, d)
        PROVE  Measured'
    <3>1. guest'[c].start = Counter /\ past'[c].begun = 0
      BY <2>5 DEF BeginDelay, TimerTypeOK, JustNow
    <3>2. (Counter - Counter) % Wrap = 0
      <4>1. host \in Nat
        BY CycleType DEF TimerTypeOK
      <4>2. Counter \in Int
        BY <4>1, CounterIsHost, TimerAssumption
      <4>3. Counter - Counter = 0 /\ 0 % Wrap = 0
        BY <4>2, TimerAssumption
      <4>4. QED
        BY <4>3
    <3>3. QED
      BY <2>2, <2>3, <3>1, <3>2 DEF Measured, Waited
  <2>6. QED
    BY <2>1, <2>4, <2>5
<1>4. CASE UNCHANGED timerVars
  BY <1>4 DEF timerVars, Measured, Waited, Counter, time_us, tv_sec, tv_usec
<1>5. QED
  BY <1>1, <1>2, <1>3, <1>4 DEF TimerNext

\* A poll finds the time that has passed.
LEMMA MeasuredInvariance == TimerSafety => []Measured
<1>1. TimerInit => Measured
  BY DEF TimerInit, Measured, NoDelay
<1>2. QED
  BY <1>1, MeasuredNext, TimerTypeCorrect, PTL DEF TimerSafety

\* A delay that fits the counter is never cut short, wherever it begins: across
\* the end of a second, the counter's wrap or both, for every length of the two.
THEOREM DelaysAreFull == TimerSafety => NeverEarly
<1> DEFINE Full == \A c \in Cores : guest[c].waits /\ ~guest'[c].waits =>
                     past[c].begun >= guest[c].delay \/ past[c].set
<1>1. TimerTypeOK /\ Measured /\ [TimerNext]_timerVars => [Full]_timerVars
  <2> SUFFICES ASSUME TimerTypeOK, Measured, TimerNext,
                      NEW c \in Cores, guest[c].waits, ~guest'[c].waits, ~past[c].set
               PROVE  past[c].begun >= guest[c].delay
    OBVIOUS
  <2>1. guest[c].delay <= Wrap /\ guest[c].delay \in Nat /\ past[c].begun \in 0 .. Wrap
    BY TimerAssumption DEF TimerTypeOK
  <2>2. PollCounter(c)
    <3>1. Tick \/ (\E shift \in Shifts : SetClock(shift)) => guest' = guest
      BY DEF Tick, SetClock
    <3>2. ASSUME NEW b \in Cores, NEW d \in Delays, BeginDelay(b, d) PROVE FALSE
      BY <3>2 DEF BeginDelay, TimerTypeOK
    <3>3. ASSUME NEW b \in Cores, b # c, PollCounter(b) PROVE FALSE
      BY <3>3 DEF PollCounter, TimerTypeOK
    <3>4. QED
      BY <3>1, <3>2, <3>3 DEF TimerNext
  <2>3. ~(Waited(c) < guest[c].delay)
    BY <2>2 DEF PollCounter, Waited
  <2>4. CASE past[c].begun < Wrap
    BY <2>1, <2>3, <2>4 DEF Measured
  <2>5. CASE past[c].begun = Wrap
    BY <2>1, <2>5
  <2>6. QED
    BY <2>1, <2>4, <2>5, TimerAssumption
<1>2. QED
  BY <1>1, TimerTypeCorrect, MeasuredInvariance, PTL DEF TimerSafety, NeverEarly

(***************************************************************************)
(* The devices together.                                                   *)
(***************************************************************************)
\* A device is started and runs on its own.
LEMMA RegistersRun == DevSafety => RegSpec
<1>1. DevInit => RegInit
  BY DEF DevInit
<1>2. [DevNext]_devVars => [RegNext]_regVars
  BY DEF DevNext, devVars, OfRegisters, OfUart, OfTimer
<1>3. QED
  BY <1>1, <1>2, PTL DEF DevSafety, RegSpec

\* The same of the UARTs,
LEMMA UartsRun == DevSafety => UartSafety
<1>1. DevInit => UartInit
  BY DEF DevInit
<1>2. [DevNext]_devVars => [UartNext]_uartVars
  BY DEF DevNext, devVars, OfRegisters, OfUart, OfTimer
<1>3. QED
  BY <1>1, <1>2, PTL DEF DevSafety, UartSafety

\* and of the timer.
LEMMA TimerRuns == DevSafety => TimerSafety
<1>1. DevInit => TimerInit
  BY DEF DevInit
<1>2. [DevNext]_devVars => [TimerNext]_timerVars
  BY DEF DevNext, devVars, OfRegisters, OfUart, OfTimer
<1>3. QED
  BY <1>1, <1>2, PTL DEF DevSafety, TimerSafety

\* Every variable of every device always has its type.
THEOREM DevTypeCorrect == DevSafety => []DevTypeOK
<1>1. RegTypeOK /\ UartTypeOK /\ TimerTypeOK => DevTypeOK
  BY DEF DevTypeOK
<1>2. QED
  BY <1>1, RegistersRun, UartsRun, TimerRuns,
     RegTypeCorrect, UartTypeCorrect, TimerTypeCorrect, PTL

\* What is proved of each device holds of the machine that has them all.
THEOREM DevicesAreCorrect ==
  ASSUME IidrIsApart
  PROVE  DevSafety => RegistersSeparate /\ WritesReadBack /\ []OutputExact /\ NeverEarly
BY RegistersRun, UartsRun, TimerRuns, RegistersAreSeparate, WritesAreReadBack,
   OutputIsExact, DelaysAreFull, PTL
=============================================================================
