---------------------------- MODULE IoMapProofs ----------------------------
(***************************************************************************)
(* Proofs about IoMap, for any devices, windows, page size and data.       *)
(***************************************************************************)
EXTENDS IoMap, TLAPS

\* What new_space has handed out: one piece behind the other, in whole pages.
Laid ==
  /\ base \in Seq(Nat) /\ p_space \in Nat /\ Len(base) <= Len(Devices)
  /\ Len(base) > 0 => p_space < SpaceMax
  /\ \A d \in 1 .. Len(base) : base[d] + Rounded(Devices[d].len) <= p_space
  /\ \A d, e \in 1 .. Len(base) : d < e => base[d] + Rounded(Devices[d].len) <= base[e]

MapType == [dev : Device, low : Int, high : Int]

\* Every map is the window of a device that has its space.
Windowed(maps) ==
  /\ maps \in Seq(MapType)
  /\ \A i \in 1 .. Len(maps) :
       /\ maps[i].dev <= Len(base)
       /\ maps[i].high = maps[i].low + Devices[maps[i].dev].len - 1

Registers == UNION {[0 .. n - 1 -> Byte] : n \in Nat}

Copied ==
  /\ io_space \in [0 .. SpaceMax - 1 -> Byte]
  /\ shadow \in Seq(Registers) /\ Len(shadow) = Len(base)
  /\ \A d \in 1 .. Len(base) : DOMAIN shadow[d] = 0 .. Devices[d].len - 1
  /\ WindowsAgree

\* Nothing is accessed before all devices have their space.
Untold == Len(base) < Len(Devices) => did = Nothing

Inv == Laid /\ Windowed(pio) /\ Windowed(mmio) /\ Copied /\ Untold /\ HostInTouch

-----------------------------------------------------------------------------

LEMMA Kinds ==
  /\ Page \in Nat \ {0} /\ SpaceMax \in Nat /\ 0 \in Byte
  /\ Len(Devices) \in Nat /\ Device = 1 .. Len(Devices)
  /\ \A d \in Device : /\ Devices[d].len \in Nat \ {0} /\ Devices[d].mmio \in Nat
                       /\ Devices[d].port \in Int
<1>1. Page \in Nat \ {0} /\ SpaceMax \in Nat /\ 0 \in Byte
  BY ZeroAssumption, SizeAssumption
<1> DEFINE Kind == [name : {"serial", "rtc", "screen", "sync", "vmem", "keyboard"},
                    len : Nat \ {0}, mmio : Nat, port : Nat \cup {-1}]
<1>2. Devices \in Seq(Kind)
  BY DeviceAssumption
<1>3. ASSUME NEW d \in 1 .. Len(Devices) PROVE Devices[d] \in Kind
  <2> HIDE DEF Kind
  <2> QED BY <1>2
<1>4. Len(Devices) \in Nat
  BY <1>2
<1> QED BY <1>1, <1>3, <1>4 DEF Device

\* A piece of whole pages holds what was asked for.
LEMMA RoundedHolds ==
  ASSUME NEW n \in Nat \ {0}
  PROVE  Rounded(n) \in Nat /\ Rounded(n) >= n
<1> DEFINE v == n + Page - 1
           q == v \div Page
<1>1. Page \in Nat \ {0}
  BY Kinds
<1>2. v \in Nat /\ q \in Int /\ v % Page \in 0 .. Page - 1 /\ v = Page * q + (v % Page)
  BY <1>1
<1>3. Page * q = q * Page /\ q * Page \in Int
  BY <1>1, <1>2
<1>4. Rounded(n) = q * Page
  BY DEF Rounded
<1> HIDE DEF q
<1> QED BY <1>1, <1>2, <1>3, <1>4

\* The bytes of data go where they are put, the others stay.
LEMMA PutAt ==
  ASSUME NEW space, NEW at \in Int, NEW data \in Seq(Byte), NEW i \in DOMAIN space, i \in Int
  PROVE  Put(space, at, data)[i] =
           IF i \in at .. at + Len(data) - 1 THEN data[i - at + 1] ELSE space[i]
<1>1. DOMAIN data = 1 .. Len(data) /\ Len(data) \in Nat
  OBVIOUS
<1>2. i - at + 1 \in DOMAIN data <=> i \in at .. at + Len(data) - 1
  BY <1>1
<1>3. Put(space, at, data)[i] = IF i - at + 1 \in DOMAIN data THEN data[i - at + 1] ELSE space[i]
  BY DEF Put
<1> QED BY <1>2, <1>3

LEMMA PutType ==
  ASSUME NEW n \in Int, NEW space \in [0 .. n - 1 -> Byte], NEW at \in Int, NEW data \in Seq(Byte)
  PROVE  Put(space, at, data) \in [0 .. n - 1 -> Byte]
<1>1. ASSUME NEW i \in 0 .. n - 1 PROVE (IF i - at + 1 \in DOMAIN data THEN data[i - at + 1] ELSE space[i]) \in Byte
  OBVIOUS
<1> QED BY <1>1 DEF Put

\* A device's register lies in io_space and in the device's own pages.
LEMMA InOwnPages ==
  ASSUME Laid, NEW d \in 1 .. Len(base), NEW i \in 0 .. Devices[d].len - 1
  PROVE  /\ base[d] + i \in 0 .. SpaceMax - 1
         /\ base[d] \in Nat /\ i < Rounded(Devices[d].len)
<1>1. d \in Device /\ base[d] \in Nat /\ SpaceMax \in Nat
  BY Kinds DEF Laid
<1>2. Devices[d].len \in Nat \ {0}
  BY <1>1, Kinds
<1>3. Rounded(Devices[d].len) \in Nat /\ Rounded(Devices[d].len) >= Devices[d].len
  BY <1>2, RoundedHolds
<1>4. base[d] + Rounded(Devices[d].len) <= p_space /\ p_space < SpaceMax /\ p_space \in Nat
  BY DEF Laid
<1> QED BY <1>1, <1>2, <1>3, <1>4

-----------------------------------------------------------------------------

\* Bytes put into the registers of a device, by an access or by its callback.
Stored(d, offset, data) ==
  /\ io_space' = Put(io_space, base[d] + offset, data)
  /\ shadow' = [shadow EXCEPT ![d] = Put(@, offset, data)]
  /\ spilled' \/ offset + Len(data) <= Rounded(Devices[d].len)
  /\ spilled => spilled'
  /\ UNCHANGED <<base, p_space, pio, mmio>>

LEMMA StoredStep ==
  ASSUME Laid, Copied, NEW d \in 1 .. Len(base), NEW offset \in Nat, NEW data \in Seq(Byte),
         Stored(d, offset, data)
  PROVE  Copied'
<1>1. base' = base /\ Len(base) \in Nat /\ base[d] \in Nat /\ d \in Device
  BY Kinds DEF Stored, Laid
<1>2. io_space' \in [0 .. SpaceMax - 1 -> Byte]
  <2>1. /\ SpaceMax \in Int /\ base[d] + offset \in Int
        /\ io_space \in [0 .. SpaceMax - 1 -> Byte] /\ io_space' = Put(io_space, base[d] + offset, data)
    BY <1>1, Kinds DEF Stored, Copied
  <2> QED BY <2>1, PutType
<1>3. shadow[d] \in Registers /\ DOMAIN shadow[d] = 0 .. Devices[d].len - 1 /\ Devices[d].len \in Nat
  BY <1>1, Kinds DEF Copied
<1>4. shadow[d] \in [0 .. Devices[d].len - 1 -> Byte]
  BY <1>3 DEF Registers
<1>5. Put(shadow[d], offset, data) \in [0 .. Devices[d].len - 1 -> Byte]
  <2>1. Devices[d].len \in Int /\ offset \in Int
    BY <1>3
  <2> QED BY <1>4, <2>1, PutType
<1>6. Put(shadow[d], offset, data) \in Registers
  BY <1>3, <1>5 DEF Registers
<1>7. /\ shadow' \in Seq(Registers) /\ Len(shadow') = Len(base) /\ DOMAIN shadow' = 1 .. Len(base)
      /\ shadow'[d] = Put(shadow[d], offset, data)
      /\ \A e \in 1 .. Len(base) : e # d => shadow'[e] = shadow[e]
  BY <1>1, <1>6 DEF Stored, Copied
<1>8. \A e \in 1 .. Len(base) : DOMAIN shadow'[e] = 0 .. Devices[e].len - 1
  BY <1>5, <1>7 DEF Copied
<1>9. ASSUME ~spilled', NEW e \in 1 .. Len(base), NEW i \in 0 .. Devices[e].len - 1
      PROVE  io_space'[base[e] + i] = shadow'[e][i]
  <2> DEFINE at == base[d] + offset
             j == base[e] + i
  <2>1. j \in 0 .. SpaceMax - 1 /\ base[e] \in Nat /\ i < Rounded(Devices[e].len)
    BY InOwnPages
  <2>2. i \in Nat /\ at \in Int /\ j \in Int /\ Len(data) \in Nat
    BY <1>1, <2>1
  <2>3. io_space[j] = shadow[e][i]
    <3>2. ~spilled
      BY <1>9 DEF Stored
    <3>3. DOMAIN base = 1 .. Len(base) /\ DOMAIN shadow[e] = 0 .. Devices[e].len - 1
      BY DEF Copied, Laid
    <3>1. e \in DOMAIN base /\ i \in DOMAIN shadow[e]
      BY <3>3
    <3> QED BY <3>2, <3>1 DEF Copied, WindowsAgree
  <2>4. io_space'[j] = IF j \in at .. at + Len(data) - 1 THEN data[j - at + 1] ELSE io_space[j]
    <3>1. io_space' = Put(io_space, at, data)
      BY DEF Stored
    <3>2. j \in DOMAIN io_space
      BY <2>1 DEF Copied
    <3> HIDE DEF at, j
    <3> QED BY <2>2, <3>1, <3>2, PutAt
  <2>5. CASE e = d
    <3>1. shadow'[d][i] =
            IF i \in offset .. offset + Len(data) - 1 THEN data[i - offset + 1] ELSE shadow[d][i]
      <4>1. i \in DOMAIN shadow[d] /\ offset \in Int
        BY <1>3, <2>5
      <4>2. shadow'[d] = Put(shadow[d], offset, data)
        BY <1>7
      <4> QED BY <2>2, <4>1, <4>2, PutAt
    <3>2. j - at + 1 = i - offset + 1
          /\ (j \in at .. at + Len(data) - 1 <=> i \in offset .. offset + Len(data) - 1)
      BY <1>1, <2>2, <2>5
    <3> HIDE DEF at
    <3> QED BY <2>3, <2>4, <2>5, <3>1, <3>2
  <2>6. CASE e # d
    <3>1. j \notin at .. at + Len(data) - 1
      <4> DEFINE re == Rounded(Devices[e].len)
                 rd == Rounded(Devices[d].len)
      <4>1. offset + Len(data) <= rd /\ rd \in Nat
        BY <1>1, <1>9, Kinds, RoundedHolds DEF Stored
      <4>2. re \in Nat
        <5>1. Devices[e].len \in Nat \ {0}
          BY Kinds DEF Laid
        <5> QED  BY <5>1, RoundedHolds, Zenon
      <4>3. e < d => base[e] + re <= base[d]
        BY DEF Laid
      <4>4. d < e => base[d] + rd <= base[e]
        BY DEF Laid
      <4>5. i < re
        BY <2>1
      <4> HIDE DEF re, rd
      <4>6. CASE e < d
        BY <1>1, <2>1, <2>2, <4>2, <4>3, <4>5, <4>6, SMTT(60)
      <4>7. CASE d < e
        BY <1>1, <2>1, <2>2, <4>1, <4>4, <4>7, SMTT(60)
      <4> QED BY <1>1, <2>6, <4>6, <4>7
    <3>2. shadow'[e] = shadow[e]
      BY <1>7, <2>6
    <3> HIDE DEF at
    <3> QED BY <2>3, <2>4, <3>1, <3>2
  <2> QED BY <2>5, <2>6
<1>10. WindowsAgree'
  <2>1. DOMAIN base' = 1 .. Len(base)
    BY <1>1 DEF Laid
  <2> QED BY <1>1, <1>8, <1>9, <2>1 DEF WindowsAgree
<1> QED BY <1>1, <1>2, <1>7, <1>8, <1>10 DEF Copied

\* What the host and the guest put into a register.
LEMMA Bytes4 ==
  /\ \A w \in Word \cup {ScreenSize} : w \in Seq(Byte) /\ Len(w) = 4
  /\ \A data \in Data : data \in Seq(Byte) /\ Len(data) \in 1 .. 4
  /\ Lens \subseteq Int
<1>1. ASSUME NEW n \in Nat, NEW w \in [1 .. n -> Byte] PROVE w \in Seq(Byte) /\ Len(w) = n
  OBVIOUS
<1>2. \A w \in Word \cup {ScreenSize} : w \in [1 .. 4 -> Byte]
  BY WordAssumption
<1>3. ASSUME NEW data \in Data PROVE data \in Seq(Byte) /\ Len(data) \in 1 .. 4
  <2>1. PICK n \in 1 .. 4 : data \in [1 .. n -> Byte]
    BY SizeAssumption
  <2> QED BY <1>1, <2>1
<1>4. Lens \subseteq Int
  BY SizeAssumption
<1> QED BY <1>1, <1>2, <1>3, <1>4

\* The map that was found leads to a register of a device that has its space.
LEMMA Found ==
  ASSUME Laid, NEW maps, Windowed(maps), NEW addr \in Int, NEW i \in find_mapid_by_addr(maps, addr)
  PROVE  LET m == maps[i] IN
         /\ m.dev \in 1 .. Len(base) /\ m.dev \in Device
         /\ m.low \in Int /\ addr - m.low \in 0 .. Devices[m.dev].len - 1
<1>1. i \in 1 .. Len(maps) /\ maps[i].low <= addr /\ addr <= maps[i].high
  BY DEF find_mapid_by_addr, map_inside, Windowed
<1>2. maps[i] \in MapType
  BY <1>1 DEF Windowed
<1>3. /\ maps[i].dev \in Device /\ maps[i].low \in Int
      /\ maps[i].dev <= Len(base) /\ maps[i].high = maps[i].low + Devices[maps[i].dev].len - 1
  BY <1>1, <1>2 DEF Windowed, MapType
<1>4. Devices[maps[i].dev].len \in Nat
  BY <1>3, Kinds
<1>5. maps[i].dev \in 1 .. Len(base)
  BY <1>3, Kinds DEF Laid
<1> QED BY <1>1, <1>3, <1>4, <1>5, SMTT(60)

\* What a callback puts into the first registers of a device, and what is read then.
LEMMA FetchStep ==
  ASSUME Inv, NEW d \in 1 .. Len(base), NEW w \in Seq(Byte), Len(w) <= Devices[d].len,
         io_space' = Put(io_space, base[d], w), shadow' = [shadow EXCEPT ![d] = Put(@, 0, w)],
         UNCHANGED <<spilled, base, p_space, pio, mmio>>
  PROVE  Copied' /\ \A j \in 1 .. Len(w) : io_space'[base[d] + j - 1] = w[j]
<1>1. d \in Device /\ base[d] \in Nat
  BY Kinds DEF Inv, Laid
<1>2. Devices[d].len \in Nat \ {0} /\ Len(w) \in Nat
  BY <1>1, Kinds
<1>3. Rounded(Devices[d].len) \in Nat /\ Devices[d].len <= Rounded(Devices[d].len)
  BY <1>2, RoundedHolds
<1>4. base[d] + 0 = base[d] /\ 0 + Len(w) <= Rounded(Devices[d].len)
  BY <1>1, <1>2, <1>3
<1>5. Stored(d, 0, w)
  BY <1>4 DEF Stored
<1>6. Copied'
  BY <1>5, StoredStep DEF Inv
<1>7. ASSUME NEW j \in 1 .. Len(w) PROVE io_space'[base[d] + j - 1] = w[j]
  <2> DEFINE at == base[d]
             k == at + j - 1
  <2>1. j - 1 \in 0 .. Devices[d].len - 1 /\ k = at + (j - 1)
    BY <1>1, <1>2
  <2>2. k \in 0 .. SpaceMax - 1
    BY <2>1, InOwnPages DEF Inv
  <2>3. at \in Int /\ k \in at .. at + Len(w) - 1 /\ k - at + 1 = j
    BY <1>1, <1>2
  <2>4. k \in DOMAIN io_space /\ k \in Int /\ io_space' = Put(io_space, at, w)
    BY <1>1, <2>2 DEF Inv, Copied
  <2>5. io_space'[k] = w[j]
    <3> HIDE DEF at, k
    <3> QED BY <2>3, <2>4, PutAt
  <2> QED BY <2>5
<1> QED BY <1>6, <1>7

LEMMA ReadStep ==
  ASSUME Inv, NEW maps, Windowed(maps), NEW addr \in Int, NEW len \in Lens,
         NEW i \in find_mapid_by_addr(maps, addr), map_read(maps[i], addr, len),
         UNCHANGED <<base, p_space, pio, mmio>>
  PROVE  Copied' /\ HostInTouch'
<1>1. PICK d \in 1 .. Len(base) : d = maps[i].dev /\ d \in Device
  BY Found DEF Inv
<1>2. PICK offset \in 0 .. Devices[d].len - 1 : offset = addr - maps[i].low
  BY <1>1, Found DEF Inv
<1>3. PICK w \in Fetched(Devices[d]) :
        /\ Readable(Devices[d], offset)
        /\ io_space' = Put(io_space, base[d], w) /\ shadow' = [shadow EXCEPT ![d] = Put(@, 0, w)]
        /\ did' = [kind |-> "read", name |-> Devices[d].name, host |-> w,
                   data |-> Told(Devices[d], Take(io_space', base[d] + addr - maps[i].low, len))]
        /\ spilled' = spilled
  BY <1>1, <1>2 DEF map_read
<1>4. base[d] \in Nat /\ Devices[d].len \in Nat \ {0} /\ maps[i].low \in Int
  <2>1. maps[i].low \in Int
    BY Found DEF Inv
  <2>2. Devices[d].len \in Nat \ {0}
    BY <1>1, Kinds
  <2>3. base \in Seq(Nat)
    BY DEF Inv, Laid
  <2> QED BY <2>1, <2>2, <2>3
<1>5. CASE Devices[d].name \in {"rtc", "keyboard"}
  <2>1. w \in Seq(Byte) /\ Len(w) = 4 /\ Devices[d].len = 4 /\ offset = 0
    BY <1>1, <1>3, <1>5, Bytes4, DeviceAssumption DEF Fetched, Readable
  <2>2. Copied' /\ \A j \in 1 .. 4 : io_space'[base[d] + j - 1] = w[j]
    <3>1. UNCHANGED <<spilled, base, p_space, pio, mmio>> /\ Len(w) <= Devices[d].len
      BY <1>3, <2>1
    <3>2. Copied' /\ \A j \in 1 .. Len(w) : io_space'[base[d] + j - 1] = w[j]
      BY <1>3, <2>1, <3>1, FetchStep
    <3> QED BY <2>1, <3>2
  <2>3. base[d] + addr - maps[i].low = base[d]
    BY <1>2, <1>4, <2>1
  <2>4. did'.kind = "read" /\ did'.host = w /\ did'.data = Take(io_space', base[d], len)
    BY <1>3, <1>5, <2>3 DEF Told
  <2>5. ASSUME NEW j \in DOMAIN did'.data, j <= 4 PROVE did'.data[j] = did'.host[j]
    <3>1. len \in Int
      BY Bytes4
    <3>2. j \in 1 .. 4 /\ did'.data[j] = io_space'[base[d] + j - 1]
      BY <2>4, <2>5, <3>1 DEF Take
    <3> QED BY <2>2, <2>4, <3>2
  <2> QED BY <2>2, <2>4, <2>5 DEF HostInTouch
<1>6. CASE Devices[d].name \notin {"rtc", "keyboard"}
  <2>1. w \in Seq(Byte) /\ Len(w) <= Devices[d].len
    BY <1>3, <1>4, <1>6 DEF Fetched
  <2>2. Copied'
    <3>1. UNCHANGED <<spilled, base, p_space, pio, mmio>>
      BY <1>3
    <3> QED BY <1>3, <2>1, <3>1, FetchStep
  <2>3. did'.kind = "read" /\ did'.name \notin {"rtc", "keyboard"}
    BY <1>3, <1>6
  <2> QED BY <2>2, <2>3 DEF HostInTouch
<1> QED BY <1>5, <1>6

LEMMA WriteStep ==
  ASSUME Inv, Len(base) = Len(Devices), NEW maps, Windowed(maps), NEW addr \in Int, NEW data \in Data,
         NEW i \in find_mapid_by_addr(maps, addr), map_write(maps[i], addr, data),
         UNCHANGED <<base, p_space, pio, mmio>>
  PROVE  Copied' /\ HostInTouch'
<1>1. PICK d \in 1 .. Len(base) : d = maps[i].dev /\ d \in Device
  BY Found DEF Inv
<1>2. PICK offset \in 0 .. Devices[d].len - 1 : offset = addr - maps[i].low
  BY <1>1, Found DEF Inv
<1>3. /\ Writable(Devices[d], offset, Len(data))
      /\ io_space' = Put(io_space, base[d] + offset, data)
      /\ did' = [kind |-> "write", name |-> Devices[d].name, data |-> Told(Devices[d], data),
                 host |-> Shown(d, io_space')]
      /\ shadow' = [shadow EXCEPT ![d] = Put(@, offset, data)]
      /\ spilled' = (spilled \/ offset + Len(data) > Pages(Devices[d]) * Page)
  BY <1>1, <1>2 DEF map_write
<1>4. /\ base[d] \in Nat /\ Devices[d].len \in Nat \ {0} /\ offset \in Nat
      /\ data \in Seq(Byte) /\ Len(data) \in 1 .. 4
  <2>1. base[d] \in Nat
    BY DEF Inv, Laid
  <2>2. data \in Seq(Byte) /\ Len(data) \in 1 .. 4
    BY Bytes4
  <2>3. Devices[d].len \in Nat \ {0}
    BY <1>1, Kinds
  <2> QED BY <2>1, <2>2, <2>3
<1>5. Stored(d, offset, data)
  <2>1. Pages(Devices[d]) * Page = Rounded(Devices[d].len)
    BY DEF Pages, Rounded
  <2>2. Rounded(Devices[d].len) \in Nat
    BY <1>4, RoundedHolds
  <2>3. offset + Len(data) > Pages(Devices[d]) * Page \/ offset + Len(data) <= Rounded(Devices[d].len)
    BY <1>4, <2>1, <2>2
  <2>4. spilled' \/ offset + Len(data) <= Rounded(Devices[d].len)
    BY <1>3, <2>3, Zenon
  <2>5. spilled => spilled'
    BY <1>3, Zenon
  <2> QED BY <1>3, <2>4, <2>5 DEF Stored
<1>6. Copied'
  BY <1>4, <1>5, StoredStep DEF Inv
<1>7. did'.kind = "write" /\ did'.name = Devices[d].name /\ did'.host = Shown(d, io_space')
  BY <1>3
<1>8. ASSUME Devices[d].name = "serial" PROVE did'.host = did'.data
  <2>1. offset = 0 /\ Len(data) = 1 /\ did'.data = data
    BY <1>3, <1>8 DEF Writable, Told
  <2>2. did'.host = Take(io_space', base[d], 1)
    BY <1>7, <1>8 DEF Shown
  <2>3. base[d] + offset = base[d] /\ base[d] + 1 - 1 = base[d] /\ base[d] - base[d] + 1 = 1
    BY <1>4, <2>1
  <2>4. base[d] \in DOMAIN io_space
    <3>1. 0 \in 0 .. Devices[d].len - 1
      BY <1>4
    <3>2. base[d] + 0 \in 0 .. SpaceMax - 1
      BY <3>1, InOwnPages DEF Inv
    <3> QED BY <1>4, <3>2 DEF Inv, Copied
  <2>5. io_space'[base[d]] = data[1]
    <3>1. io_space' = Put(io_space, base[d], data) /\ base[d] \in Int
      BY <1>3, <1>4, <2>3
    <3>2. base[d] \in base[d] .. base[d] + Len(data) - 1
      BY <1>4, <2>1
    <3>3. io_space'[base[d]] = data[base[d] - base[d] + 1]
      BY <1>4, <2>4, <3>1, <3>2, PutAt
    <3> QED BY <2>3, <3>3
  <2>6. did'.host = [j \in 1 .. 1 |-> io_space'[base[d] + j - 1]]
    BY <2>2 DEF Take
  <2>7. data = [j \in 1 .. 1 |-> data[1]]
    BY <1>4, <2>1
  <2>8. \A j \in 1 .. 1 : io_space'[base[d] + j - 1] = data[1]
    BY <2>3, <2>5
  <2> QED BY <2>1, <2>6, <2>7, <2>8
<1>9. ASSUME Devices[d].name = "sync", ~spilled'
      PROVE  \E v \in Device : /\ Devices[v].name = "vmem"
                               /\ \A j \in DOMAIN did'.host : did'.host[j] = shadow'[v][j - 1]
  <2> DEFINE v == CHOOSE u \in Device : Devices[u].name = "vmem"
  <2>1. v \in Device /\ Devices[v].name = "vmem"
    BY <1>1, <1>9, DeviceAssumption
  <2>2. did'.host = Take(io_space', base[v], Devices[v].len)
    BY <1>7, <1>9 DEF Shown
  <2> HIDE DEF v
  <2>3. v \in 1 .. Len(base) /\ base[v] \in Nat /\ Devices[v].len \in Nat \ {0} /\ base' = base
    BY <2>1, Kinds DEF Inv, Laid
  <2>4. DOMAIN base' = 1 .. Len(base) /\ DOMAIN shadow'[v] = 0 .. Devices[v].len - 1
    BY <1>6, <2>3 DEF Copied, Inv, Laid
  <2>5. ASSUME NEW j \in DOMAIN did'.host PROVE did'.host[j] = shadow'[v][j - 1]
    <3>1. j \in 1 .. Devices[v].len /\ did'.host[j] = io_space'[base[v] + j - 1]
      BY <2>2, <2>5 DEF Take
    <3>2. j - 1 \in DOMAIN shadow'[v] /\ base[v] + j - 1 = base[v] + (j - 1)
      BY <2>3, <2>4, <3>1
    <3>3. io_space'[base[v] + (j - 1)] = shadow'[v][j - 1]
      BY <1>6, <1>9, <2>3, <2>4, <3>2 DEF Copied, WindowsAgree
    <3> QED BY <3>1, <3>2, <3>3
  <2> QED BY <2>1, <2>5
<1>10. HostInTouch'
  BY <1>7, <1>8, <1>9 DEF HostInTouch
<1> QED BY <1>6, <1>10

-----------------------------------------------------------------------------

\* A device gets its space and its windows.
Granted ==
  /\ InitDevice /\ Fits(Devices[Next1])

LEMMA GrantedStep ==
  ASSUME Inv, Granted
  PROVE  Inv'
<1> DEFINE new == Len(base) + 1
           d == Devices[new]
<1>1. /\ Len(base) < Len(Devices) /\ p_space + Rounded(d.len) < SpaceMax
      /\ base' = Append(base, p_space) /\ p_space' = p_space + Rounded(d.len)
      /\ io_space' = IF d.name = "screen" THEN Put(io_space, p_space, ScreenSize) ELSE io_space
      /\ shadow' = Append(shadow, [i \in 0 .. d.len - 1 |-> io_space'[p_space + i]])
      /\ mmio' = Append(mmio, Map(new, d.mmio))
      /\ pio' = IF d.port = -1 THEN pio ELSE Append(pio, Map(new, d.port))
      /\ UNCHANGED <<did, spilled>>
  BY DEF Granted, InitDevice, Fits, Next1
<1>2. /\ new \in Device /\ Len(base) \in Nat /\ p_space \in Nat /\ base \in Seq(Nat)
      /\ d.len \in Nat \ {0} /\ d.mmio \in Int /\ d.port \in Int
  BY <1>1, Kinds DEF Inv, Laid
<1>3. Rounded(d.len) \in Nat /\ Rounded(d.len) >= d.len
  BY <1>2, RoundedHolds
<1>4. /\ base' \in Seq(Nat) /\ Len(base') = new /\ base'[new] = p_space
      /\ \A e \in 1 .. Len(base) : base'[e] = base[e] /\ e \in 1 .. new /\ e # new
      /\ \A e \in 1 .. new : e = new \/ e \in 1 .. Len(base)
  BY <1>1, <1>2, SMTT(60)
<1>5. Laid'
  <2>1. ASSUME NEW e \in 1 .. new PROVE base'[e] + Rounded(Devices[e].len) <= p_space'
    <3>1. CASE e = new
      BY <1>1, <1>2, <1>3, <1>4, <3>1
    <3>2. CASE e \in 1 .. Len(base)
      <4>1. base[e] + Rounded(Devices[e].len) <= p_space /\ base[e] \in Nat
        BY <1>2, <3>2 DEF Inv, Laid
      <4>2. Devices[e].len \in Nat \ {0}
        BY <1>2, Kinds
      <4>3. Rounded(Devices[e].len) \in Nat
        BY <4>2, RoundedHolds
      <4> QED BY <1>1, <1>2, <1>3, <1>4, <3>2, <4>1, <4>3
    <3> QED BY <1>4, <3>1, <3>2
  <2>2. ASSUME NEW e \in 1 .. new, NEW f \in 1 .. new, e < f
        PROVE  base'[e] + Rounded(Devices[e].len) <= base'[f]
    <3>1. e \in 1 .. Len(base)
      BY <1>2, <2>2
    <3>2. CASE f = new
      BY <1>2, <1>4, <3>1, <3>2 DEF Inv, Laid
    <3>3. CASE f \in 1 .. Len(base)
      BY <1>4, <2>2, <3>1, <3>3 DEF Inv, Laid
    <3> QED BY <1>4, <3>2, <3>3
  <2>3. new <= Len(Devices) /\ p_space' < SpaceMax /\ p_space' \in Nat
    BY <1>1, <1>2, <1>3, Kinds
  <2> HIDE DEF new, d
  <2> QED BY <1>4, <2>1, <2>2, <2>3 DEF Laid
<1>6. ASSUME NEW maps, Windowed(maps) PROVE
        /\ maps \in Seq(MapType)
        /\ \A i \in 1 .. Len(maps) :
             /\ maps[i].dev <= Len(base')
             /\ maps[i].high = maps[i].low + Devices[maps[i].dev].len - 1
  <2>1. ASSUME NEW i \in 1 .. Len(maps) PROVE maps[i].dev <= new
    <3>1. maps[i] \in MapType /\ maps[i].dev <= Len(base)
      BY <1>6 DEF Windowed
    <3>2. maps[i].dev \in Int
      BY <3>1 DEF MapType, Device
    <3> QED BY <1>2, <3>1, <3>2
  <2> QED BY <1>4, <1>6, <2>1 DEF Windowed
<1>7. ASSUME NEW maps, Windowed(maps), NEW low \in Int PROVE
        /\ Append(maps, Map(new, low)) \in Seq(MapType)
        /\ \A i \in 1 .. Len(Append(maps, Map(new, low))) :
             LET m == Append(maps, Map(new, low))[i] IN
             /\ m.dev <= Len(base')
             /\ m.high = m.low + Devices[m.dev].len - 1
  <2>1. Map(new, low) \in MapType
    BY <1>2, <1>7 DEF Map, MapType
  <2>2. /\ Map(new, low).dev <= Len(base')
        /\ Map(new, low).high = Map(new, low).low + Devices[Map(new, low).dev].len - 1
    BY <1>2, <1>4 DEF Map
  <2> DEFINE one == Map(new, low)
  <2>3. one \in MapType /\ one.dev <= Len(base') /\ one.high = one.low + Devices[one.dev].len - 1
    BY <2>1, <2>2
  <2> HIDE DEF one
  <2>4. maps \in Seq(MapType)
    BY <1>7 DEF Windowed
  <2>5. \A i \in 1 .. Len(maps) : /\ maps[i].dev <= Len(base')
                                 /\ maps[i].high = maps[i].low + Devices[maps[i].dev].len - 1
    BY <1>6, <1>7
  <2>6. /\ Append(maps, one) \in Seq(MapType) /\ Len(Append(maps, one)) = Len(maps) + 1
        /\ \A i \in 1 .. Len(maps) + 1 :
             Append(maps, one)[i] = IF i = Len(maps) + 1 THEN one ELSE maps[i]
    BY <2>3, <2>4
  <2>7. ASSUME NEW i \in 1 .. Len(maps) + 1
        PROVE  LET m == Append(maps, one)[i] IN
               m.dev <= Len(base') /\ m.high = m.low + Devices[m.dev].len - 1
    <3>1. CASE i = Len(maps) + 1
      BY <2>3, <2>6, <3>1
    <3>2. CASE i # Len(maps) + 1
      <4>1. i \in 1 .. Len(maps) /\ Append(maps, one)[i] = maps[i]
        BY <2>4, <2>6, <3>2
      <4> QED BY <2>5, <4>1
    <3> QED BY <3>1, <3>2
  <2>8. QED
    BY <2>6, <2>7 DEF one
<1>8. Windowed(mmio)' /\ Windowed(pio)'
  <2>1. Windowed(mmio)'
    BY <1>1, <1>2, <1>7, ZenonT(60) DEF Inv, Windowed
  <2>2. CASE d.port = -1
    <3>1. Windowed(pio)'
      BY <1>1, <1>6, <2>2 DEF Inv, Windowed
    <3> QED BY <2>1, <3>1
  <2>3. CASE d.port # -1
    <3>1. pio' = Append(pio, Map(new, d.port)) /\ d.port \in Int
      BY <1>1, <1>2, <2>3
    <3>2. Windowed(pio)
      BY DEF Inv
    <3>3. Windowed(pio)'
      BY <1>7, <3>1, <3>2 DEF Windowed
    <3> QED BY <2>1, <3>3
  <2> QED BY <2>2, <2>3
<1>9. Copied'
  <2> DEFINE put == [i \in 0 .. d.len - 1 |-> io_space'[p_space + i]]
  <2>1. p_space \in Int /\ SpaceMax \in Int /\ ScreenSize \in Seq(Byte) /\ Len(ScreenSize) = 4
    BY <1>2, Kinds, Bytes4
  <2>2. io_space \in [0 .. SpaceMax - 1 -> Byte]
    BY DEF Inv, Copied
  <2>3. io_space' \in [0 .. SpaceMax - 1 -> Byte]
    <3>1. Put(io_space, p_space, ScreenSize) \in [0 .. SpaceMax - 1 -> Byte]
      BY <2>1, <2>2, PutType
    <3> QED BY <1>1, <2>2, <3>1
  <2>4. put \in Registers
    <3>1. ASSUME NEW i \in 0 .. d.len - 1 PROVE io_space'[p_space + i] \in Byte
      <4>1. p_space + Rounded(d.len) < SpaceMax
        BY <1>1
      <4>2. p_space \in Nat /\ i \in 0 .. d.len - 1 /\ d.len \in Nat
        BY <1>2
      <4> HIDE DEF d
      <4>3. p_space + i \in 0 .. SpaceMax - 1
        BY <1>3, <2>1, <4>1, <4>2
      <4> QED BY <2>3, <4>3
    <3>2. put \in [0 .. d.len - 1 -> Byte] /\ d.len \in Nat
      BY <1>2, <3>1
    <3> HIDE DEF put
    <3> QED BY <3>2 DEF Registers
  <2>5. /\ shadow \in Seq(Registers) /\ Len(shadow) = Len(base) /\ shadow' = Append(shadow, put)
        /\ DOMAIN put = 0 .. d.len - 1
    BY <1>1 DEF Inv, Copied
  <2>6. /\ shadow' \in Seq(Registers) /\ Len(shadow') = new /\ shadow'[new] = put
        /\ \A e \in 1 .. Len(base) : shadow'[e] = shadow[e]
    <3> HIDE DEF put, d
    <3> QED BY <1>2, <2>4, <2>5
  <2>7. \A e \in 1 .. new : DOMAIN shadow'[e] = 0 .. Devices[e].len - 1
    BY <1>4, <2>5, <2>6 DEF Inv, Copied
  <2>8. ASSUME ~spilled', NEW e \in 1 .. new, NEW i \in 0 .. Devices[e].len - 1
        PROVE  io_space'[base'[e] + i] = shadow'[e][i]
    <3>1. CASE e = new
      BY <1>4, <2>6, <3>1
    <3>2. CASE e \in 1 .. Len(base)
      <4> DEFINE j == base[e] + i
      <4>1. j \in 0 .. SpaceMax - 1 /\ base[e] \in Nat /\ i < Rounded(Devices[e].len)
        BY <3>2, InOwnPages DEF Inv
      <4>2. base[e] + Rounded(Devices[e].len) <= p_space /\ Rounded(Devices[e].len) \in Nat
        <5>1. e \in Device
          BY <1>2, <3>2 DEF Device
        <5>2. Rounded(Devices[e].len) \in Nat
          BY <5>1, Kinds, RoundedHolds
        <5> QED BY <3>2, <5>2 DEF Inv, Laid
      <4>3. j < p_space /\ j \in Int
        BY <1>2, <4>1, <4>2
      <4>4. Put(io_space, p_space, ScreenSize)[j] = io_space[j]
        <5>1. j \in DOMAIN io_space /\ j \notin p_space .. p_space + Len(ScreenSize) - 1
          BY <2>1, <2>2, <4>1, <4>3
        <5> HIDE DEF j
        <5> QED BY <2>1, <4>3, <5>1, PutAt
      <4>5. io_space'[j] = io_space[j]
        BY <1>1, <4>4
      <4>6. io_space[j] = shadow[e][i]
        <5>1. ~spilled /\ DOMAIN base = 1 .. Len(base) /\ DOMAIN shadow[e] = 0 .. Devices[e].len - 1
          BY <1>1, <1>2, <2>8, <3>2 DEF Inv, Copied
        <5>2. e \in DOMAIN base /\ i \in DOMAIN shadow[e]
          BY <3>2, <5>1
        <5> QED BY <5>1, <5>2 DEF Inv, Copied, WindowsAgree
      <4> QED BY <1>4, <2>6, <3>2, <4>5, <4>6
    <3> QED BY <1>4, <3>1, <3>2
  <2>9. WindowsAgree'
    <3>1. DOMAIN base' = 1 .. new
      BY <1>4
    <3> HIDE DEF new, d, put
    <3> QED BY <2>7, <2>8, <3>1 DEF WindowsAgree
  <2> HIDE DEF new, d, put
  <2> QED BY <1>4, <2>3, <2>6, <2>7, <2>9 DEF Copied
<1>10. Untold' /\ HostInTouch'
  <2>1. did = Nothing /\ did' = Nothing
    BY <1>1 DEF Inv, Untold
  <2> QED BY <2>1 DEF Untold, HostInTouch, Nothing, Inv
<1> QED BY <1>5, <1>8, <1>9, <1>10 DEF Inv

LEMMA PortInt ==
  ASSUME Inv
  PROVE  Ports \subseteq Int /\ Addresses \subseteq Int
<1>1. ASSUME NEW maps, Windowed(maps) PROVE Windows(maps) \subseteq Int
  <2>1. ASSUME NEW i \in 1 .. Len(maps) PROVE maps[i].low \in Int /\ maps[i].high \in Int
    <3>1. maps[i] \in MapType
      BY <1>1 DEF Windowed
    <3> QED BY <3>1 DEF MapType
  <2>2. DOMAIN maps = 1 .. Len(maps)
    BY <1>1 DEF Windowed
  <2> QED BY <2>1, <2>2 DEF Windows
<1>2. PmemSize \in Int
  BY SizeAssumption
<1> QED BY <1>1, <1>2 DEF Inv, Ports, Addresses

\* An access that ends, on either bus or in memory.
LEMMA InvStep ==
  ASSUME Inv, [Next]_vars
  PROVE  Inv'
<1> USE DEF Inv
<1>1. ASSUME UNCHANGED <<base, p_space, io_space, pio, mmio, did, shadow, spilled>>
      PROVE  Inv'
  BY <1>1 DEF Laid, Windowed, Copied, Untold, HostInTouch, WindowsAgree
<1>2. ASSUME Abort PROVE Inv'
  BY <1>1, <1>2 DEF Abort
<1>3. CASE InitDevice
  <2>1. CASE Fits(Devices[Next1])
    BY <1>3, <2>1, GrantedStep DEF Granted
  <2>2. CASE ~Fits(Devices[Next1])
    BY <1>2, <1>3, <2>2 DEF InitDevice
  <2> QED BY <2>1, <2>2
<1>4. CASE AccessFails
  BY <1>2, <1>4 DEF AccessFails
<1>5. ASSUME UNCHANGED <<base, p_space, pio, mmio>>, Running, Copied', HostInTouch'
      PROVE  Inv'
  <2>1. Laid' /\ Windowed(pio)' /\ Windowed(mmio)'
    BY <1>5 DEF Laid, Windowed
  <2>2. Untold'
    BY <1>5, Kinds DEF Untold, Running, Laid
  <2> QED BY <1>5, <2>1, <2>2
<1>6. ASSUME UNCHANGED <<base, p_space, pio, mmio, io_space, shadow, spilled>>, Running,
             did'.name = "pmem"
      PROVE  Inv'
  <2>1. Laid' /\ Windowed(pio)' /\ Windowed(mmio)' /\ Copied'
    BY <1>6 DEF Laid, Windowed, Copied, WindowsAgree
  <2>2. Untold'
    BY <1>6, Kinds DEF Untold, Running, Laid
  <2>3. HostInTouch'
    BY <1>6 DEF HostInTouch
  <2> QED BY <2>1, <2>2, <2>3
<1>7. ASSUME NEW addr \in Ports, NEW len \in Lens, pio_read(addr, len) PROVE Inv'
  <2>1. PICK i \in find_mapid_by_addr(pio, addr) : map_read(pio[i], addr, len)
    BY <1>7 DEF pio_read
  <2> QED BY <1>5, <1>7, <2>1, ReadStep, PortInt DEF pio_read
<1>8. ASSUME NEW addr \in Ports, NEW data \in Data, pio_write(addr, data) PROVE Inv'
  <2>1. PICK i \in find_mapid_by_addr(pio, addr) : map_write(pio[i], addr, data)
    BY <1>8 DEF pio_write
  <2> QED BY <1>5, <1>8, <2>1, WriteStep, PortInt DEF pio_write, Running
<1>9. ASSUME NEW addr \in Addresses, NEW len \in Lens, paddr_read(addr, len) PROVE Inv'
  <2>1. CASE addr < PmemSize
    BY <1>6, <1>9, <2>1 DEF paddr_read
  <2>2. CASE ~(addr < PmemSize)
    <3>1. PICK i \in find_mapid_by_addr(mmio, addr) : map_read(mmio[i], addr, len)
      BY <1>9, <2>2 DEF paddr_read
    <3> QED BY <1>5, <1>9, <2>2, <3>1, ReadStep, PortInt DEF paddr_read
  <2> QED BY <2>1, <2>2
<1>10. ASSUME NEW addr \in Addresses, NEW data \in Data, paddr_write(addr, data) PROVE Inv'
  <2>1. CASE addr < PmemSize
    BY <1>6, <1>10, <2>1 DEF paddr_write
  <2>2. CASE ~(addr < PmemSize)
    <3>1. PICK i \in find_mapid_by_addr(mmio, addr) : map_write(mmio[i], addr, data)
      BY <1>10, <2>2 DEF paddr_write
    <3> QED BY <1>5, <1>10, <2>2, <3>1, WriteStep, PortInt DEF paddr_write, Running
  <2> QED BY <2>1, <2>2
<1>11. CASE UNCHANGED vars
  BY <1>1, <1>11 DEF vars
<1> QED BY <1>3, <1>4, <1>7, <1>8, <1>9, <1>10, <1>11 DEF Next

LEMMA InvInit == Init => Inv
BY Kinds DEF Init, Inv, Laid, Windowed, Copied, Untold, WindowsAgree, HostInTouch, Nothing

LEMMA InvCorrect == Spec => []Inv
BY InvInit, InvStep, PTL DEF Spec

\* new_space gives every device registers of its own inside io_space, whatever the
\* devices' sizes and that of a page are.
THEOREM SpacesDisjointCorrect == Spec => []SpacesDisjoint
<1>1. Inv => SpacesDisjoint
  <2> SUFFICES ASSUME Inv PROVE SpacesDisjoint
    OBVIOUS
  <2>1. DOMAIN base = 1 .. Len(base) /\ Len(base) \in Nat /\ DOMAIN io_space = 0 .. SpaceMax - 1
    BY DEF Inv, Laid, Copied
  <2>2. \A d \in 1 .. Len(base) : Devices[d].len \in Nat \ {0} /\ base[d] \in Nat
    BY Kinds DEF Inv, Laid
  <2>3. ASSUME NEW d \in 1 .. Len(base), NEW e \in 1 .. Len(base), d < e
        PROVE  Bytes(d) \cap Bytes(e) = {}
    <3>1. base[d] + Rounded(Devices[d].len) <= base[e]
      BY <2>3 DEF Inv, Laid
    <3>2. Rounded(Devices[d].len) \in Nat /\ Rounded(Devices[d].len) >= Devices[d].len
      BY <2>2, RoundedHolds
    <3>3. base[d] + Devices[d].len - 1 < base[e]
      BY <2>2, <3>1, <3>2
    <3> QED BY <2>2, <3>3 DEF Bytes
  <2>4. ASSUME NEW d \in 1 .. Len(base) PROVE Bytes(d) \subseteq 0 .. SpaceMax - 1
    <3>1. ASSUME NEW x \in Bytes(d) PROVE x \in 0 .. SpaceMax - 1
      <4>1. x - base[d] \in 0 .. Devices[d].len - 1 /\ base[d] + (x - base[d]) = x
        BY <2>2, <3>1 DEF Bytes
      <4> QED BY <4>1, InOwnPages DEF Inv
    <3> QED BY <3>1
  <2>5. \A d, e \in 1 .. Len(base) : d # e => Bytes(d) \cap Bytes(e) = {}
    BY <2>1, <2>3
  <2> QED BY <2>1, <2>4, <2>5 DEF SpacesDisjoint
<1> QED BY <1>1, InvCorrect, PTL

\* Both windows of a device show what was put there last, as long as no access left the
\* pages of its device: no access that begins in the window of one device changes another.
THEOREM WindowsAgreeCorrect == Spec => []WindowsAgree
<1>1. Inv => WindowsAgree
  BY DEF Inv, Copied
<1> QED BY <1>1, InvCorrect, PTL

\* The callbacks of clock, keyboard, serial port and screen run on the right side of
\* the transfer, for whatever they give or get.
THEOREM HostInTouchCorrect == Spec => []HostInTouch
<1>1. Inv => HostInTouch
  BY DEF Inv
<1> QED BY <1>1, InvCorrect, PTL
=============================================================================
