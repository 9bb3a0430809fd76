------------------------------- MODULE IoMap -------------------------------
(***************************************************************************)
(* How an access of the guest or of the debugger reaches memory or a       *)
(* device: memory/memory.c, device/io and the callbacks of the devices.    *)
(* Each device has a piece of io_space, seen through a window of memory    *)
(* addresses and mostly through one of ports too.                          *)
(***************************************************************************)
EXTENDS Integers, Sequences

CONSTANTS Byte,      \* the values of a byte, 0 among them
          Word,      \* the 4-byte values the host's clock and keys may have
          ScreenSize,\* the word init_vga puts into the screen register
          Lens,      \* the lengths of a read
          Data,      \* what is written, as sequences of bytes
          Devices,   \* what init_device sets up: name, len, mmio and port (-1: none)
          Page,      \* PAGE_SIZE
          SpaceMax,  \* IO_SPACE_MAX
          NrMap,     \* NR_MAP
          PortMax,   \* PORT_IO_SPACE_MAX
          PmemSize,  \* PMEM_SIZE; memory begins at address 0
          MaxWrites  \* bound: writes to devices

Device == 1 .. Len(Devices)

ASSUME ZeroAssumption == 0 \in Byte
ASSUME SizeAssumption ==
  /\ Page \in Nat \ {0} /\ {SpaceMax, NrMap, PortMax, PmemSize, MaxWrites} \subseteq Nat
  /\ Lens \subseteq 1 .. 4 /\ Data \subseteq UNION {[1 .. len -> Byte] : len \in 1 .. 4}
ASSUME WordAssumption == Word \cup {ScreenSize} \subseteq [1 .. 4 -> Byte]
ASSUME DeviceAssumption ==
  /\ Devices \in Seq([name : {"serial", "rtc", "screen", "sync", "vmem", "keyboard"},
                      len : Nat \ {0}, mmio : Nat, port : Nat \cup {-1}])
  /\ \A d \in Device : /\ Devices[d].mmio >= PmemSize
                       /\ Devices[d].name \in {"rtc", "keyboard"} => Devices[d].len = 4
                       /\ Devices[d].name \in {"screen", "sync"} =>
                            \E v \in Device : Devices[v].name = "vmem"

VARIABLES
  base,         \* the pointers new_space returned, as indices of io_space
  p_space,      \* the first free byte of io_space
  io_space, pmem,
  pio, mmio,    \* the two arrays maps[], as sequences
  is_skip_ref,  \* what difftest_skip_ref leaves for this access
  aborted,      \* an assertion ended NEMU
  did,          \* history: the access that ended last and what the host gave or got
  shadow,       \* history: for each device, the bytes last put there
  spilled,      \* history: a write ran over the end of a device that fills its pages
  writes        \* writes to devices so far

vars == <<base, p_space, io_space, pmem, pio, mmio, is_skip_ref, aborted,
          did, shadow, spilled, writes>>

-----------------------------------------------------------------------------

Put(space, at, data) ==
  [i \in DOMAIN space |-> IF i - at + 1 \in DOMAIN data THEN data[i - at + 1] ELSE space[i]]
Take(space, at, len) == [i \in 1 .. len |-> space[at + i - 1]]

\* Variant: whole pages only.
RoundedDown(size) == (size \div Page) * Page
\* Variant: spaces are not aligned.
Unrounded(size) == size
Rounded(size) == ((size + Page - 1) \div Page) * Page

Map(d, low) == [dev |-> d, low |-> low, high |-> low + Devices[d].len - 1]
map_inside(m, addr) == m.low <= addr /\ addr <= m.high

\* The maps that hold the address: the first one is taken.
find_mapid_by_addr(maps, addr) ==
  {i \in DOMAIN maps : /\ map_inside(maps[i], addr)
                       /\ \A j \in 1 .. i - 1 : ~map_inside(maps[j], addr)}

\* The history keeps the data only where the host has a part in it.
Told(d, data) == IF d.name \in {"rtc", "keyboard", "serial"} THEN data ELSE <<>>

\* The pages a device lies in
Pages(d) == (d.len + Page - 1) \div Page

Nothing == [kind |-> "none", name |-> "none", data |-> <<>>, host |-> <<>>]

Init ==
  /\ base = <<>> /\ p_space = 0 /\ io_space = [i \in 0 .. SpaceMax - 1 |-> 0]
  /\ pmem = [i \in 0 .. PmemSize - 1 |-> 0]
  /\ pio = <<>> /\ mmio = <<>>
  /\ is_skip_ref = FALSE /\ aborted = FALSE
  /\ did = Nothing /\ shadow = <<>> /\ spilled = FALSE /\ writes = 0

Abort ==
  /\ aborted' = TRUE
  /\ UNCHANGED <<base, p_space, io_space, pmem, pio, mmio, is_skip_ref, did, shadow, spilled,
                 writes>>

Next1 == Len(base) + 1   \* the device whose turn it is

\* The assertions of new_space and of add_mmio_map and add_pio_map.
Fits(d) ==
  /\ p_space + Rounded(d.len) < SpaceMax
  /\ Len(mmio) < NrMap
  /\ d.port # -1 => Len(pio) < NrMap /\ d.port + d.len <= PortMax

\* The init function of one device: its space, then its maps.  screen, sync and
\* vmem share init_vga, which nothing interrupts.
InitDevice ==
  /\ ~aborted /\ Len(base) < Len(Devices)
  /\ LET d == Devices[Next1] IN
     IF ~Fits(d) THEN Abort
     ELSE /\ base' = Append(base, p_space) /\ p_space' = p_space + Rounded(d.len)
          /\ io_space' = IF d.name = "screen" THEN Put(io_space, p_space, ScreenSize) ELSE io_space
          /\ shadow' = Append(shadow, [i \in 0 .. d.len - 1 |-> io_space'[p_space + i]])
          /\ mmio' = Append(mmio, Map(Next1, d.mmio))
          /\ pio' = IF d.port = -1 THEN pio ELSE Append(pio, Map(Next1, d.port))
          /\ UNCHANGED <<pmem, is_skip_ref, aborted, did, spilled, writes>>

Running == ~aborted /\ Len(base) = Len(Devices)

-----------------------------------------------------------------------------
(* Reading                                                                 *)

\* What the callback asserts before a read; serial is for writing only.
Readable(d, offset) ==
  CASE d.name = "serial" -> FALSE
    [] d.name \in {"rtc", "keyboard"} -> offset = 0
    [] OTHER -> TRUE

\* The clock and the keyboard put what the host has into their register first.
Fetched(d) == IF d.name \in {"rtc", "keyboard"} THEN Word ELSE {<<>>}

\* Variant: the data is taken before the callback runs.
map_read_early(m, addr, len) ==
  LET d == Devices[m.dev]
      at == base[m.dev] + addr - m.low IN
  /\ Readable(d, addr - m.low)
  /\ \E w \in Fetched(d) :
       /\ io_space' = Put(io_space, base[m.dev], w)
       /\ shadow' = [shadow EXCEPT ![m.dev] = Put(@, 0, w)]
       /\ did' = [kind |-> "read", name |-> d.name, data |-> Told(d, Take(io_space, at, len)),
                  host |-> w]
  /\ UNCHANGED <<spilled, writes, aborted>>

map_read(m, addr, len) ==
  LET d == Devices[m.dev]
      at == base[m.dev] + addr - m.low IN
  /\ Readable(d, addr - m.low)
  /\ \E w \in Fetched(d) :
       /\ io_space' = Put(io_space, base[m.dev], w)
       /\ shadow' = [shadow EXCEPT ![m.dev] = Put(@, 0, w)]
       /\ did' = [kind |-> "read", name |-> d.name, data |-> Told(d, Take(io_space', at, len)),
                  host |-> w]
  /\ UNCHANGED <<spilled, writes, aborted>>

\* difftest_skip_ref, as soon as a map is found, whatever becomes of the access.
Skipped == is_skip_ref' = TRUE

pio_read(addr, len) ==
  /\ Running /\ addr + len - 1 < PortMax
  /\ \E i \in find_mapid_by_addr(pio, addr) : map_read(pio[i], addr, len)
  /\ Skipped
  /\ UNCHANGED <<base, p_space, pmem, pio, mmio>>

paddr_read(addr, len) ==
  /\ Running
  /\ IF addr < PmemSize
     THEN /\ addr + len <= PmemSize
          /\ did' = [kind |-> "read", name |-> "pmem", data |-> <<>>, host |-> <<>>]
          /\ is_skip_ref' = FALSE
          /\ UNCHANGED <<io_space, shadow, spilled, writes, aborted>>
     ELSE /\ \E i \in find_mapid_by_addr(mmio, addr) : map_read(mmio[i], addr, len)
          /\ Skipped
  /\ UNCHANGED <<base, p_space, pmem, pio, mmio>>

-----------------------------------------------------------------------------
(* Writing                                                                 *)

\* What the callback asserts after a write; the keyboard is for reading only.
Writable(d, offset, len) ==
  CASE d.name = "serial" -> offset = 0 /\ len = 1
    [] d.name = "rtc" -> offset = 0
    [] d.name = "keyboard" -> FALSE
    [] OTHER -> TRUE

\* What the callback shows the user: the character, or the screen.
Shown(dev, space) ==
  LET vmem == CHOOSE v \in Device : Devices[v].name = "vmem" IN
  CASE Devices[dev].name = "serial" -> Take(space, base[dev], 1)
    [] Devices[dev].name \in {"screen", "sync"} -> Take(space, base[vmem], Devices[vmem].len)
    [] OTHER -> <<>>

map_write(m, addr, data) ==
  LET d == Devices[m.dev]
      offset == addr - m.low IN
  /\ writes < MaxWrites /\ writes' = writes + 1
  /\ Writable(d, offset, Len(data))
  /\ io_space' = Put(io_space, base[m.dev] + offset, data)
  /\ did' = [kind |-> "write", name |-> d.name, data |-> Told(d, data), host |-> Shown(m.dev, io_space')]
  /\ shadow' = [shadow EXCEPT ![m.dev] = Put(@, offset, data)]
  /\ spilled' = (spilled \/ offset + Len(data) > Pages(d) * Page)
  /\ UNCHANGED aborted

pio_write(addr, data) ==
  /\ Running /\ addr + Len(data) - 1 < PortMax
  /\ \E i \in find_mapid_by_addr(pio, addr) : map_write(pio[i], addr, data)
  /\ Skipped
  /\ UNCHANGED <<base, p_space, pmem, pio, mmio>>

paddr_write(addr, data) ==
  /\ Running
  /\ IF addr < PmemSize
     THEN /\ addr + Len(data) <= PmemSize
          /\ writes < MaxWrites /\ writes' = writes + 1
          /\ pmem' = Put(pmem, addr, data)
          /\ did' = [kind |-> "write", name |-> "pmem", data |-> <<>>, host |-> <<>>]
          /\ is_skip_ref' = FALSE
          /\ UNCHANGED <<io_space, shadow, spilled, aborted>>
     ELSE /\ \E i \in find_mapid_by_addr(mmio, addr) : map_write(mmio[i], addr, data)
          /\ Skipped /\ UNCHANGED pmem
  /\ UNCHANGED <<base, p_space, pio, mmio>>
-----------------------------------------------------------------------------

\* The addresses tried: those of the windows and, on each bus, one behind them.
Windows(maps) == UNION {maps[i].low .. maps[i].high + 1 : i \in DOMAIN maps}
Ports == Windows(pio)
Addresses == (0 .. PmemSize - 1) \cup Windows(mmio)

\* No map (check_bound, the assertions of port-io.c), or a callback refuses.
Refused(maps, addr, len) ==
  \/ find_mapid_by_addr(maps, addr) = {}
  \/ \E i \in find_mapid_by_addr(maps, addr) :
       LET d == Devices[maps[i].dev] IN
       \/ ~Readable(d, addr - maps[i].low)
       \/ ~Writable(d, addr - maps[i].low, len)

AccessFails ==
  /\ Running
  /\ \E len \in Lens \cup {Len(data) : data \in Data} :
       \/ \E port \in Ports : Refused(pio, port, len)
       \/ \E addr \in Windows(mmio) : Refused(mmio, addr, len)
  /\ Abort

Next ==
  \/ InitDevice \/ AccessFails
  \/ \E addr \in Ports : \/ \E len \in Lens : pio_read(addr, len)
                         \/ \E data \in Data : pio_write(addr, data)
  \/ \E addr \in Addresses : \/ \E len \in Lens : paddr_read(addr, len)
                             \/ \E data \in Data : paddr_write(addr, data)

Spec == Init /\ [][Next]_vars

-----------------------------------------------------------------------------
(* Properties                                                              *)

\* The bytes of io_space behind a device
Bytes(d) == base[d] .. base[d] + Devices[d].len - 1

\* new_space never hands out a byte twice, nor one beyond io_space: two devices
\* share no register.
SpacesDisjoint ==
  /\ \A d, e \in DOMAIN base : d # e => Bytes(d) \cap Bytes(e) = {}
  /\ \A d \in DOMAIN base : Bytes(d) \subseteq DOMAIN io_space

\* Through the port as through the memory window, by accesses of any length
\* that begin in the window, a device holds what was put there last: an access
\* that runs over the end of one device reaches no other, unless the device
\* fills its pages.
WindowsAgree ==
  ~spilled => \A d \in DOMAIN base : \A i \in DOMAIN shadow[d] :
                io_space[base[d] + i] = shadow[d][i]

\* Clock and keyboard answer what the host has at the time of the read, serial
\* prints the character that was written, and a write to sync shows the pixels
\* written so far: callbacks run on the right side of the transfer.
HostInTouch ==
  /\ did.kind = "read" /\ did.name \in {"rtc", "keyboard"} =>
       \A i \in DOMAIN did.data : i <= 4 => did.data[i] = did.host[i]
  /\ did.kind = "write" /\ did.name = "serial" => did.host = did.data
  /\ did.kind = "write" /\ did.name = "sync" /\ ~spilled =>
       \E v \in Device : /\ Devices[v].name = "vmem"
                         /\ \A i \in DOMAIN did.host : did.host[i] = shadow[v][i - 1]
=============================================================================
