---------------------------- MODULE SysInfoProofs ----------------------------
(***************************************************************************)
(* For every number of hosts, of places and of packets: between a swipe    *)
(* and a packet that arrive in any order, the screen comes to rest on the  *)
(* device that is selected, and never shows the numbers of one device      *)
(* under the name of another.                                              *)
(*                                                                         *)
(* The accesses without the lock are harmless because the receiver writes  *)
(* to the record only packets of the selected device (OnShow), except      *)
(* between the two halves of a swipe, whose second half overwrites the     *)
(* whole record under the lock.                                            *)
(***************************************************************************)
EXTENDS SysInfo, TLAPS

\* The last packet of the device that is selected.
Selected == devices[current].packet

\* A device is selected once there is one.
SelectedIs ==
  IF devices = <<>>
  THEN /\ current = 1 /\ rx = "idle" /\ ui = "idle"
       /\ shown = [name |-> NoPacket, numbers |-> NoPacket]
  ELSE current \in DOMAIN devices

\* The packet the receiver works on is in the table.
StoredIs == rx # "idle" => \E i \in DOMAIN devices : devices[i].packet = packet

\* What the record holds, unless a swipe is half-way.
OnShow ==
  ui # "switch" /\ devices # <<>> =>
    /\ rx = "idle" \/ (rx = "stored" /\ packet # Selected) =>
         shown.name = Selected /\ shown.numbers = Selected
    /\ rx = "copying" => packet = Selected /\ shown.name = packet

\* What a swipe draws is of the selected device.
Drawing ==
  /\ ui \in {"draw", "draw numbers"} =>
       shown.name.from = Selected.from /\ shown.numbers.from = Selected.from
  /\ ui = "draw numbers" => display.name.from = Selected.from

IInv == TypeOK /\ SelectedIs /\ StoredIs /\ OnShow /\ Drawing /\ OneDeviceDrawn

Entries == [packet : Packets, update : 0 .. Turn - 1]

\* A packet is filed and copied within one period of the timer.
HeardIs ==
  /\ \A d \in Devices : heard[d] <= now
  /\ rx # "idle" => packet \in Packets /\ heard[packet.from] = now
  /\ devices = <<>> => ~received

\* How old a time is that was taken when h was now, while the tick has not jumped.
Aged(update, h) == clock = update + (now - h)

\* The times in the table and of the record on show, for the devices that were
\* heard since the tick last jumped.
TimesKept ==
  /\ \A i \in DOMAIN devices :
       devices[i].packet.from \in steady =>
         Aged(devices[i].update, heard[devices[i].packet.from])
  /\ /\ ui # "switch" /\ devices # <<>> /\ (rx = "idle" \/ (rx = "stored" /\ packet # Selected))
     /\ Selected.from \in steady
     => lastRecv = devices[current].update

TimeInv == HeardIs /\ TimesKept
-----------------------------------------------------------------------------
LEMMA ModRange ==
  ASSUME NEW a \in Nat, NEW n \in Nat \ {0}
  PROVE  a % n \in 0 .. n - 1
OBVIOUS

\* The index of a sender that is in the table.
LEMMA IndexKnown ==
  ASSUME TypeOK, NEW i \in DOMAIN devices
  PROVE  IndexOf(devices[i].packet.from) = i
<1> DEFINE d == devices[i].packet.from
<1>1. \A j \in DOMAIN devices : devices[j].packet.from = d => j = i
  BY DEF TypeOK
<1>2. (CHOOSE j \in DOMAIN devices : devices[j].packet.from = d) = i
  BY <1>1
<1> QED BY <1>2 DEF IndexOf

\* The index of any sender: its place, the next free one, or 0.
LEMMA IndexOfAny ==
  ASSUME TypeOK, NEW d
  PROVE  \/ \E i \in DOMAIN devices : devices[i].packet.from = d /\ IndexOf(d) = i
         \/ /\ \A i \in DOMAIN devices : devices[i].packet.from # d
            /\ IndexOf(d) \in {0, Len(devices) + 1}
            /\ IndexOf(d) # 0 => Len(devices) < MaxDevices
<1>1. CASE \E i \in DOMAIN devices : devices[i].packet.from = d
  BY <1>1, IndexKnown
<1>2. CASE \A i \in DOMAIN devices : devices[i].packet.from # d
  BY <1>2 DEF IndexOf
<1> QED BY <1>1, <1>2

\* The table is a sequence.
LEMMA Table ==
  ASSUME TypeOK
  PROVE  /\ devices \in Seq(Entries) /\ Len(devices) \in Nat
         /\ DOMAIN devices = 1 .. Len(devices)
         /\ devices = <<>> <=> Len(devices) = 0
         /\ \A i \in DOMAIN devices : devices[i] \in Entries /\ devices[i].packet \in Packets
<1>1. devices \in Seq(Entries)
  BY DEF TypeOK, Entries
<1>2. /\ Len(devices) \in Nat /\ DOMAIN devices = 1 .. Len(devices)
      /\ devices = <<>> <=> Len(devices) = 0
      /\ \A i \in DOMAIN devices : devices[i] \in Entries
  BY <1>1
<1> QED BY <1>1, <1>2 DEF Entries

LEMMA InitIInv == ASSUME Init PROVE IInv
<1>1. <<>> \in Seq([packet : Packets, update : 0 .. Turn - 1])
  OBVIOUS
<1>2. devices \in Seq([packet : Packets, update : 0 .. Turn - 1])
  BY <1>1, Zenon DEF Init
<1>3. Len(devices) = 0 /\ DOMAIN devices = {}
  BY DEF Init
<1>4. TypeOK
  <2>1. NoPacket \in PacketOrNA
    BY DEF PacketOrNA
  <2>2. current \in 1 .. MaxDevices /\ lastRecv \in 0 .. Turn - 1
        /\ Len(devices) <= MaxDevices
    BY <1>3, SysInfoAssumption DEF Init
  <2>3. now \in Nat /\ heard \in [Devices -> Nat]
    BY DEF Init
  <2> QED BY <1>2, <1>3, <2>1, <2>2, <2>3 DEF Init, TypeOK
<1>5. SelectedIs /\ StoredIs /\ OnShow /\ Drawing /\ OneDeviceDrawn
  BY DEF Init, SelectedIs, StoredIs, OnShow, Drawing, OneDeviceDrawn
<1> QED BY <1>4, <1>5 DEF IInv
-----------------------------------------------------------------------------
\* A packet that has a place is filed there: its row is the new one, the other
\* rows are those of other senders and stay.
LEMMA Filed ==
  ASSUME IInv, NEW d \in Devices, Receive(d), IndexOf(d) # 0
  PROVE  /\ rx = "idle" /\ rx' = "stored"
         /\ packet' \in Packets /\ packet'.from = d
         /\ heard' = [heard EXCEPT ![d] = now] /\ steady' = steady \cup {d}
         /\ UNCHANGED <<current, shown, received, lastRecv, display, ui, clock, now,
                        refreshed>>
         /\ devices' \in Seq(Entries) /\ DOMAIN devices' = 1 .. Len(devices')
         /\ Len(devices') <= MaxDevices /\ devices' # <<>>
         /\ IndexOf(d) \in DOMAIN devices'
         /\ devices'[IndexOf(d)].packet = packet' /\ devices'[IndexOf(d)].update = clock
         /\ \A j \in DOMAIN devices' : j # IndexOf(d) =>
              /\ j \in DOMAIN devices /\ devices'[j] = devices[j]
              /\ devices[j].packet.from # d
         /\ IndexOf(d) \in DOMAIN devices => devices[IndexOf(d)].packet.from = d
         /\ current \in DOMAIN devices'
         /\ current = IndexOf(d) => Selected' = packet'
         /\ current # IndexOf(d) =>
              devices # <<>> /\ Selected' = Selected /\ packet' # Selected'
<1> USE SysInfoAssumption
<1> DEFINE i == IndexOf(d)
           e == [packet |-> packet', update |-> clock]
<1>1. /\ rx = "idle" /\ rx' = "stored"
      /\ \E gpu \in BOOLEAN :
           packet' = [from |-> d, serial |-> packet.serial + 1, gpu |-> gpu]
      /\ devices' = IF i > Len(devices) THEN Append(devices, e)
                    ELSE [devices EXCEPT ![i] = e]
      /\ heard' = [heard EXCEPT ![d] = now] /\ steady' = steady \cup {d}
      /\ UNCHANGED <<current, shown, received, lastRecv, display, ui, clock, now,
                     refreshed>>
  BY DEF Receive, shownVars, timeVars
<1>2. packet' \in Packets /\ e \in Entries /\ packet'.from = d
  <2>1. packet.serial \in 0 .. MaxPackets /\ packet.serial < MaxPackets
    <3>1. packet \in PacketOrNA
      BY DEF IInv, TypeOK
    <3> QED BY <3>1 DEF Receive, PacketOrNA, Packets, NoPacket
  <2>2. packet' \in Packets
    BY <1>1, <2>1 DEF Packets
  <2>3. packet'.from = d
    BY <1>1
  <2>4. clock \in 0 .. Turn - 1
    BY DEF IInv, TypeOK
  <2> QED BY <2>2, <2>3, <2>4, Zenon DEF Entries
<1>3. /\ devices \in Seq(Entries) /\ Len(devices) \in Nat
      /\ DOMAIN devices = 1 .. Len(devices)
      /\ devices = <<>> <=> Len(devices) = 0
  BY Table DEF IInv
<1> HIDE DEF e
<1>4. /\ devices' \in Seq(Entries) /\ DOMAIN devices' = 1 .. Len(devices')
      /\ Len(devices') <= MaxDevices /\ Len(devices') >= Len(devices) /\ devices' # <<>>
      /\ i \in DOMAIN devices' /\ devices'[i] = e
      /\ \A j \in DOMAIN devices' : j # i =>
           /\ j \in DOMAIN devices /\ devices'[j] = devices[j]
           /\ devices[j].packet.from # d
      /\ i \in DOMAIN devices => devices[i].packet.from = d
  <2>1. CASE /\ i \in DOMAIN devices /\ devices[i].packet.from = d
    <3> HIDE DEF i
    <3>1. devices' = [devices EXCEPT ![i] = e]
      <4>1. ~(i > Len(devices))
        BY <1>3, <2>1
      <4> QED BY <1>1, <4>1
    <3>2. devices' \in Seq(Entries) /\ Len(devices') = Len(devices)
      BY <1>2, <1>3, <2>1, <3>1
    <3>3. \A j \in DOMAIN devices : j # i => devices[j].packet.from # d
      BY <2>1 DEF IInv, TypeOK
    <3>4. DOMAIN devices' = DOMAIN devices /\ devices' # <<>>
      BY <1>3, <2>1, <3>1
    <3>5. Len(devices) <= MaxDevices
      BY DEF IInv, TypeOK
    <3> QED BY <1>3, <2>1, <3>1, <3>2, <3>3, <3>4, <3>5
  <2>2. CASE /\ \A j \in DOMAIN devices : devices[j].packet.from # d
             /\ i = Len(devices) + 1 /\ Len(devices) < MaxDevices
    <3> HIDE DEF i
    <3>1. devices' = Append(devices, e)
      <4>1. i > Len(devices)
        BY <1>3, <2>2
      <4> QED BY <1>1, <4>1
    <3> QED BY <1>2, <1>3, <2>2, <3>1
  <2> QED BY <2>1, <2>2, IndexOfAny DEF IInv
<1>5. devices'[i].packet = packet' /\ devices'[i].update = clock
  BY <1>4 DEF e
<1> HIDE DEF i
<1>6. current \in DOMAIN devices'
  <2>1. CASE devices = <<>>
    BY <1>3, <1>4, <2>1 DEF IInv, SelectedIs
  <2>2. CASE devices # <<>>
    BY <1>3, <1>4, <2>2 DEF IInv, SelectedIs
  <2> QED BY <2>1, <2>2
<1>7. /\ current = i => Selected' = packet'
      /\ current # i => devices # <<>> /\ Selected' = Selected /\ packet' # Selected'
  <2>1. current = i => Selected' = packet'
    BY <1>1, <1>5 DEF Selected
  <2>2. ASSUME current # i
        PROVE  devices # <<>> /\ Selected' = Selected /\ packet' # Selected'
    <3>1. /\ current \in DOMAIN devices /\ devices'[current] = devices[current]
          /\ devices[current].packet.from # d
      BY <1>4, <1>6, <2>2
    <3> QED BY <1>1, <1>2, <1>3, <3>1 DEF Selected
  <2> QED BY <2>1, <2>2
<1> QED BY <1>1, <1>2, <1>4, <1>5, <1>6, <1>7 DEF i

LEMMA FiledIInv ==
  ASSUME IInv, NEW d \in Devices, Receive(d), IndexOf(d) # 0
  PROVE  IInv'
<1> DEFINE i == IndexOf(d)
<1>1. /\ rx = "idle" /\ rx' = "stored" /\ heard' = [heard EXCEPT ![d] = now]
      /\ steady' = steady \cup {d}
      /\ UNCHANGED <<current, shown, received, lastRecv, display, ui, clock, now,
                     refreshed>>
  BY Filed
<1>2. packet' \in Packets /\ packet'.from = d
  BY Filed
<1>3. devices = <<>> <=> Len(devices) = 0
  BY Table DEF IInv
<1>4. /\ devices' \in Seq(Entries) /\ DOMAIN devices' = 1 .. Len(devices')
      /\ Len(devices') <= MaxDevices /\ devices' # <<>>
      /\ i \in DOMAIN devices'
      /\ \A j \in DOMAIN devices' : j # i =>
           /\ j \in DOMAIN devices /\ devices'[j] = devices[j]
           /\ devices[j].packet.from # d
      /\ i \in DOMAIN devices => devices[i].packet.from = d
  BY Filed
<1>5. devices'[i].packet = packet'
  BY Filed
<1>6. current \in DOMAIN devices'
  BY Filed
<1>7. /\ current = i => Selected' = packet'
      /\ current # i => devices # <<>> /\ Selected' = Selected /\ packet' # Selected'
  BY Filed
<1> HIDE DEF i
<1>8. TypeOK'
  <2>1. \A j, k \in DOMAIN devices' :
          devices'[j].packet.from = devices'[k].packet.from => j = k
    <3>1. \A j \in DOMAIN devices' : j # i => devices'[j].packet.from # d
      BY <1>4
    <3> QED BY <1>2, <1>4, <1>5, <3>1 DEF IInv, TypeOK
  <2>2. heard' \in [Devices -> Nat]
    BY <1>1 DEF IInv, TypeOK
  <2>3. packet' \in PacketOrNA
    BY <1>2 DEF PacketOrNA
  <2> QED BY <1>1, <1>4, <2>1, <2>2, <2>3 DEF IInv, TypeOK, Entries
<1>9. devices # <<>> => Selected'.from = Selected.from
  <2>1. CASE current = i
    <3>1. devices # <<>> => devices[i].packet.from = d
      BY <1>4, <2>1 DEF IInv, SelectedIs
    <3> QED BY <1>2, <1>7, <2>1, <3>1 DEF Selected
  <2> QED BY <2>1, <1>7
<1>10. SelectedIs' /\ StoredIs'
  BY <1>1, <1>4, <1>5, <1>6 DEF SelectedIs, StoredIs
<1>11. OnShow'
  BY <1>1, <1>4, <1>7 DEF IInv, OnShow
<1>12. Drawing'
  <2>1. ui # "idle" => devices # <<>>
    BY DEF IInv, SelectedIs
  <2> QED BY <1>1, <1>9, <2>1 DEF IInv, Drawing
<1> QED BY <1>1, <1>8, <1>10, <1>11, <1>12 DEF IInv, OneDeviceDrawn

\* One that has none is dropped.
LEMMA DroppedIInv ==
  ASSUME IInv, NEW d \in Devices, Receive(d), IndexOf(d) = 0
  PROVE  IInv'
<1>1. /\ rx = "idle" /\ rx' = "idle"
      /\ \E gpu \in BOOLEAN :
           packet' = [from |-> d, serial |-> packet.serial + 1, gpu |-> gpu]
      /\ UNCHANGED <<devices, heard, current, shown, received, lastRecv, display,
                     ui, clock, now, refreshed, steady>>
  BY DEF Receive, shownVars, timeVars
<1>2. packet' \in PacketOrNA
  <2>1. packet \in PacketOrNA /\ packet.serial < MaxPackets
    BY DEF IInv, TypeOK, Receive
  <2>2. packet.serial + 1 \in 1 .. MaxPackets
    BY <2>1, SysInfoAssumption DEF PacketOrNA, Packets, NoPacket
  <2> QED BY <1>1, <2>2 DEF PacketOrNA, Packets
<1> QED BY <1>1, <1>2 DEF IInv, TypeOK, SelectedIs, StoredIs, OnShow, Drawing,
     OneDeviceDrawn, Selected

\* The two halves of the copy.
LEMMA CopyIInv == ASSUME IInv, Copy \/ CopyRest PROVE IInv'
<1>t. TypeOK /\ shown \in [name : PacketOrNA, numbers : PacketOrNA]
      /\ packet \in PacketOrNA
  BY DEF IInv, TypeOK
<1>1. CASE Copy
  <2>1. /\ rx = "stored"
        /\ UNCHANGED <<devices, packet, heard, current, received, lastRecv, display,
                       ui, clock, now, refreshed, steady>>
    BY <1>1 DEF Copy, tableVars, timeVars
  <2>2. PICK i \in DOMAIN devices : devices[i].packet = packet
    BY <2>1 DEF IInv, StoredIs
  <2>3. IndexOf(packet.from) = i /\ devices # <<>> /\ current \in DOMAIN devices
    <3>1. devices # <<>>
      BY <2>2, Table, <1>t
    <3> QED BY <2>2, <3>1, <1>t, IndexKnown DEF IInv, SelectedIs
  <2>4. i = current <=> packet = Selected
    <3>1. \A j \in DOMAIN devices : devices[j].packet.from = devices[i].packet.from => j = i
      BY <1>t DEF TypeOK
    <3> QED BY <2>2, <2>3, <3>1 DEF Selected
  <2>5. Len(devices) = 1 => i = current
    BY <1>t, <2>2, <2>3, Table
  <2>6. /\ packet = Selected => shown' = [shown EXCEPT !.name = packet] /\ rx' = "copying"
        /\ packet # Selected => shown' = shown /\ rx' = "idle"
    BY <1>1, <2>3, <2>4, <2>5 DEF Copy
  <2>7. Selected' = Selected
    BY <2>1 DEF Selected
  <2>8. TypeOK'
    BY <1>t, <2>1, <2>6 DEF TypeOK
  <2>9. OnShow'
    BY <1>t, <2>1, <2>6, <2>7 DEF IInv, OnShow
  <2>10. Drawing'
    BY <1>t, <2>1, <2>6, <2>7 DEF IInv, Drawing
  <2> QED BY <2>1, <2>2, <2>3, <2>8, <2>9, <2>10
    DEF IInv, SelectedIs, StoredIs, OneDeviceDrawn
<1>2. CASE CopyRest
  <2>1. /\ rx = "copying" /\ rx' = "idle" /\ received' = TRUE /\ lastRecv' = clock
        /\ shown' = [shown EXCEPT !.numbers = packet]
        /\ UNCHANGED <<devices, packet, heard, current, display, ui, clock, now,
                       refreshed, steady>>
    BY <1>2 DEF CopyRest, tableVars, timeVars
  <2>2. devices # <<>> /\ current \in DOMAIN devices
    BY <2>1 DEF IInv, SelectedIs
  <2>3. Selected' = Selected
    BY <2>1 DEF Selected
  <2>4. TypeOK'
    BY <1>t, <2>1 DEF TypeOK
  <2>5. OnShow' /\ Drawing'
    BY <1>t, <2>1, <2>2, <2>3 DEF IInv, OnShow, Drawing
  <2> QED BY <2>1, <2>2, <2>4, <2>5 DEF IInv, SelectedIs, StoredIs, OneDeviceDrawn
<1> QED BY <1>1, <1>2

\* A swipe, from the selection to the last widget.
LEMMA SwipeIInv ==
  ASSUME IInv, Swipe \/ Switch \/ DrawName \/ DrawNumbers PROVE IInv'
<1>t. TypeOK
  BY DEF IInv
<1>d. /\ devices \in Seq(Entries) /\ Len(devices) \in Nat
      /\ DOMAIN devices = 1 .. Len(devices)
      /\ devices = <<>> <=> Len(devices) = 0
      /\ \A i \in DOMAIN devices : devices[i] \in Entries /\ devices[i].packet \in Packets
  BY <1>t, Table
<1>1. CASE Swipe
  <2>1. /\ Len(devices) > 1 /\ ui' = "switch"
        /\ current' \in {(current % Len(devices)) + 1,
                         ((current + Len(devices) - 2) % Len(devices)) + 1}
        /\ UNCHANGED <<devices, packet, heard, shown, received, lastRecv, display, rx,
                       clock, now, refreshed, steady>>
    BY <1>1 DEF Swipe, shownVars, tableVars, timeVars
  <2>2. current \in Nat /\ Len(devices) \in Nat \ {0}
        /\ current + Len(devices) - 2 \in Nat
    <3>1. current \in 1 .. MaxDevices
      BY <1>t DEF TypeOK
    <3> QED BY <1>d, <2>1, <3>1, SysInfoAssumption
  <2>3. current' \in 1 .. Len(devices)
    <3>1. current % Len(devices) \in 0 .. Len(devices) - 1
      BY <2>2, ModRange
    <3>2. (current + Len(devices) - 2) % Len(devices) \in 0 .. Len(devices) - 1
      BY <2>2, ModRange
    <3> DEFINE a == current % Len(devices)
               b == (current + Len(devices) - 2) % Len(devices)
    <3>3. current' \in {a + 1, b + 1}
      BY <2>1
    <3> HIDE DEF a, b
    <3> QED BY <1>d, <3>1, <3>2, <3>3 DEF a, b
  <2>4. TypeOK'
    <3>1. Len(devices) <= MaxDevices
      BY <1>t DEF TypeOK
    <3>2. current' \in 1 .. MaxDevices
      BY <1>d, <2>3, <3>1, SysInfoAssumption
    <3> QED BY <1>t, <2>1, <3>2 DEF TypeOK
  <2>5. devices # <<>>
    BY <1>d, <2>1
  <2> QED BY <1>d, <2>1, <2>3, <2>4, <2>5
    DEF IInv, SelectedIs, StoredIs, OnShow, Drawing, OneDeviceDrawn
<1>2. CASE Switch
  <2> DEFINE e == devices[current]
  <2>1. /\ rx = "idle" /\ ui = "switch" /\ ui' = "draw" /\ received' = TRUE
        /\ shown' = [name |-> e.packet, numbers |-> e.packet] /\ lastRecv' = e.update
        /\ UNCHANGED <<devices, packet, heard, current, display, rx, clock, now,
                       refreshed, steady>>
    BY <1>2 DEF Switch, tableVars, timeVars
  <2>2. devices # <<>> /\ current \in DOMAIN devices
    BY <2>1 DEF IInv, SelectedIs
  <2>3. e.packet \in Packets /\ e.update \in 0 .. Turn - 1
    BY <1>d, <2>2 DEF Entries
  <2>4. TypeOK'
    BY <1>t, <2>1, <2>3 DEF TypeOK, PacketOrNA
  <2>5. Selected' = e.packet
    BY <2>1 DEF Selected
  <2> QED BY <2>1, <2>2, <2>4, <2>5
    DEF IInv, SelectedIs, StoredIs, OnShow, Drawing, OneDeviceDrawn
<1>3. CASE DrawName \/ DrawNumbers
  <2>1. UNCHANGED <<devices, packet, heard, current, shown, received, lastRecv, rx,
                    clock, now, refreshed, steady>>
        /\ ui \in {"draw", "draw numbers"}
    BY <1>3 DEF DrawName, DrawNumbers, shownVars, tableVars, timeVars
  <2>2. Selected' = Selected
    BY <2>1 DEF Selected
  <2>3. shown \in [name : PacketOrNA, numbers : PacketOrNA]
        /\ display \in [name : PacketOrNA, numbers : PacketOrNA, gpu : PacketOrNA, net : PacketOrNA]
        /\ NoPacket \in PacketOrNA
    BY <1>t DEF TypeOK, PacketOrNA
  <2>4. CASE DrawName
    <3>1. display' = [display EXCEPT !.name = shown.name] /\ ui' = "draw numbers"
          /\ ui = "draw"
      BY <2>4 DEF DrawName
    <3>2. TypeOK'
      BY <1>t, <2>1, <2>3, <3>1 DEF TypeOK
    <3> QED BY <2>1, <2>2, <2>3, <3>1, <3>2
      DEF IInv, SelectedIs, StoredIs, OnShow, Drawing, OneDeviceDrawn
  <2>5. CASE DrawNumbers
    <3>1. /\ display' = [display EXCEPT !.numbers = Numbers(received), !.gpu = Gpu(received),
                                       !.net = shown.numbers]
          /\ ui' = "idle" /\ ui = "draw numbers"
          /\ Numbers(received) \in {shown.numbers, NoPacket}
          /\ Gpu(received) \in {Numbers(received), display.gpu}
          /\ Numbers(received).gpu => Gpu(received) = shown.numbers
      BY <2>5 DEF DrawNumbers, Numbers, Gpu, NoPacket
    <3>2. TypeOK'
      BY <1>t, <2>1, <2>3, <3>1 DEF TypeOK
    <3>3. OneDeviceDrawn'
      BY <2>1, <2>3, <3>1 DEF IInv, Drawing, OneDeviceDrawn
    <3> QED BY <2>1, <2>2, <3>1, <3>2, <3>3
      DEF IInv, SelectedIs, StoredIs, OnShow, Drawing
  <2> QED BY <1>3, <2>4, <2>5
<1> QED BY <1>1, <1>2, <1>3

\* A run of the LVGL timer.
LEMMA RefreshIInv == ASSUME IInv, Refresh PROVE IInv'
<1>1. /\ ui = "idle" /\ rx = "idle" /\ received' \in BOOLEAN
      /\ display' = [name |-> shown.name, numbers |-> Numbers(received'),
                     gpu |-> Gpu(received'), net |-> shown.numbers]
      /\ Numbers(received') \in {shown.numbers, NoPacket}
      /\ Gpu(received') \in {Numbers(received'), display.gpu}
      /\ Numbers(received').gpu => Gpu(received') = shown.numbers
      /\ refreshed' = TRUE
      /\ UNCHANGED <<shown, lastRecv, devices, packet, heard, current, ui, rx, clock,
                     now, steady>>
  BY DEF Refresh, Numbers, Gpu, NoPacket, tableVars, IInv, TypeOK
<1>2. shown \in [name : PacketOrNA, numbers : PacketOrNA] /\ NoPacket \in PacketOrNA
  BY DEF IInv, TypeOK, PacketOrNA
<1>3. TypeOK'
  BY <1>1, <1>2 DEF IInv, TypeOK
<1>4. shown.name = shown.numbers
  BY <1>1 DEF IInv, SelectedIs, OnShow
<1> QED BY <1>1, <1>3, <1>4
  DEF IInv, SelectedIs, StoredIs, OnShow, Drawing, OneDeviceDrawn, Selected

\* Time passes, or NTP sets the clock.
LEMMA TimeIInv == ASSUME IInv, Tick \/ NtpStep PROVE IInv'
<1>1. UNCHANGED <<devices, packet, heard, current, shown, received, lastRecv, display,
                  ui, rx>>
  BY DEF Tick, NtpStep, shownVars
<1>2. clock' \in 0 .. Turn - 1
  <2>1. clock \in Nat /\ Turn \in Nat \ {0}
    <3>1. clock \in 0 .. Turn - 1
      BY DEF IInv, TypeOK
    <3> QED BY <3>1, SysInfoAssumption
  <2>2. (clock + 1) % Turn \in 0 .. Turn - 1
    BY <2>1, ModRange
  <2>3. \A s \in ClockSteps : (clock + s) % Turn \in 0 .. Turn - 1
    BY <2>1, ModRange, SysInfoAssumption
  <2> QED BY <2>2, <2>3 DEF Tick, NtpStep
<1>3. now' \in Nat /\ refreshed' \in BOOLEAN /\ steady' \subseteq Devices
  <2>1. now \in Nat /\ refreshed \in BOOLEAN /\ steady \subseteq Devices
    BY DEF IInv, TypeOK
  <2>2. now' \in Nat
    BY <2>1 DEF Tick, NtpStep
  <2>3. refreshed' \in BOOLEAN
    BY <2>1, Zenon DEF Tick, NtpStep
  <2>4. steady' \in {steady, {}}
    BY Zenon DEF Tick, NtpStep
  <2> QED BY <2>1, <2>2, <2>3, <2>4
<1>4. TypeOK'
  BY <1>1, <1>2, <1>3 DEF IInv, TypeOK
<1> QED BY <1>1, <1>4
  DEF IInv, SelectedIs, StoredIs, OnShow, Drawing, OneDeviceDrawn, Selected

\* The invariant holds in every state.
LEMMA Inductive == Spec => []IInv
<1>1. IInv /\ [Next]_vars => IInv'
  <2> SUFFICES ASSUME IInv, [Next]_vars PROVE IInv'
    OBVIOUS
  <2>1. CASE Receiver
    BY <2>1, FiledIInv, DroppedIInv, CopyIInv DEF Receiver
  <2>2. CASE UI
    BY <2>2, RefreshIInv, SwipeIInv DEF UI
  <2>3. CASE Tick \/ NtpStep
    BY <2>3, TimeIInv
  <2>4. CASE UNCHANGED vars
    BY <2>4 DEF vars, IInv, TypeOK, SelectedIs, StoredIs, OnShow, Drawing,
       OneDeviceDrawn, Selected
  <2> QED BY <2>1, <2>2, <2>3, <2>4 DEF Next
<1> QED BY InitIInv, <1>1, PTL DEF Spec
-----------------------------------------------------------------------------
(* The times. *)

\* What remains of less than two turns of the clock.
LEMMA ModTurn ==
  ASSUME NEW n \in Nat \ {0}, NEW a \in 0 .. n - 1
  PROVE  a % n = a /\ (n + a) % n = a /\ (a + 1) % n = IF a + 1 = n THEN 0 ELSE a + 1
OBVIOUS

\* The difference of two ticks between which the tick did not start again is
\* the time that has passed.
LEMMA ElapsedIsAge ==
  ASSUME TypeOK, NEW h \in Nat, h <= now, Aged(lastRecv, h)
  PROVE  Elapsed = now - h
<1> DEFINE a == now - h
<1>1. /\ now \in Nat /\ Turn \in Nat \ {0} /\ ClockSize \in Nat /\ Turn <= ClockSize
      /\ clock \in 0 .. Turn - 1 /\ lastRecv \in 0 .. Turn - 1
  BY SysInfoAssumption DEF TypeOK
<1>2. a \in Nat /\ clock = lastRecv + a
  BY <1>1 DEF Aged
<1> HIDE DEF a
<1>3. a \in 0 .. ClockSize - 1 /\ ClockSize \in Nat \ {0}
      /\ clock + ClockSize - lastRecv = ClockSize + a
  BY <1>1, <1>2
<1>4. (ClockSize + a) % ClockSize = a
  BY <1>3, ModTurn
<1>5. Elapsed = a
  BY <1>3, <1>4, Zenon DEF Elapsed
<1> QED BY <1>5 DEF a

LEMMA TimeReceive ==
  ASSUME IInv, TimeInv, NEW d \in Devices, Receive(d)
  PROVE  TimeInv'
<1>t. /\ now \in Nat /\ heard \in [Devices -> Nat] /\ clock \in 0 .. Turn - 1
      /\ Turn \in Nat
  BY SysInfoAssumption DEF IInv, TypeOK
<1>1. CASE IndexOf(d) = 0
  <2>1. UNCHANGED <<devices, heard, rx, current, received, lastRecv, ui, clock, now, steady>>
        /\ rx = "idle"
    BY <1>1 DEF Receive, shownVars, timeVars
  <2>2. HeardIs'
    BY <2>1 DEF TimeInv, HeardIs
  <2>3. TimesKept'
    BY <2>1 DEF TimeInv, TimesKept, Aged, Selected
  <2> QED BY <2>2, <2>3 DEF TimeInv
<1>2. CASE IndexOf(d) # 0
  <2> DEFINE i == IndexOf(d)
  <2>1. /\ rx' = "stored" /\ heard' = [heard EXCEPT ![d] = now] /\ steady' = steady \cup {d}
        /\ UNCHANGED <<current, received, lastRecv, ui, clock, now>>
        /\ rx = "idle" /\ packet' \in Packets /\ packet'.from = d /\ devices' # <<>>
    BY <1>2, Filed
  <2>2. /\ i \in DOMAIN devices' /\ current \in DOMAIN devices'
        /\ devices'[i].packet = packet' /\ devices'[i].update = clock
        /\ \A j \in DOMAIN devices' : j # i =>
             /\ j \in DOMAIN devices /\ devices'[j] = devices[j]
             /\ devices[j].packet.from # d
    BY <1>2, Filed
  <2>3. /\ current = i => Selected' = packet'
        /\ current # i => devices # <<>> /\ Selected' = Selected
    BY <1>2, Filed
  <2> HIDE DEF i
  <2>4. HeardIs'
    BY <1>t, <2>1 DEF TimeInv, HeardIs
  <2>5. ASSUME NEW j \in DOMAIN devices', devices'[j].packet.from \in steady'
        PROVE  Aged(devices[j].update, heard[devices[j].packet.from])'
    <3>1. CASE j = i
      <4>1. devices'[j].update = clock /\ heard'[devices'[j].packet.from] = now
        BY <1>t, <2>1, <2>2, <3>1
      <4> QED BY <1>t, <2>1, <4>1 DEF Aged
    <3>2. CASE j # i
      <4>1. /\ devices'[j] = devices[j] /\ j \in DOMAIN devices
            /\ heard'[devices'[j].packet.from] = heard[devices[j].packet.from]
            /\ devices[j].packet.from \in steady
        <5>1. devices[j].packet \in Packets
          BY <2>2, <3>2, Table DEF IInv
        <5> QED BY <1>t, <2>1, <2>2, <2>5, <3>2, <5>1 DEF Packets
      <4> QED BY <2>1, <4>1 DEF TimeInv, TimesKept, Aged
    <3> QED BY <3>1, <3>2
  <2>6. ui' # "switch" /\ packet' # Selected' /\ Selected'.from \in steady' =>
          lastRecv' = devices'[current'].update
    <3> SUFFICES ASSUME ui' # "switch", packet' # Selected', Selected'.from \in steady'
                 PROVE  lastRecv' = devices'[current'].update
      OBVIOUS
    <3>1. current # i
      BY <2>3
    <3>2. /\ devices'[current] = devices[current] /\ devices[current].packet.from # d
          /\ Selected' = Selected /\ devices # <<>>
      BY <2>2, <2>3, <3>1
    <3>3. Selected.from \in steady
      BY <2>1, <3>2 DEF Selected
    <3> QED BY <2>1, <3>2, <3>3 DEF TimeInv, TimesKept
  <2>7. TimesKept'
    BY <2>1, <2>5, <2>6 DEF TimesKept
  <2> QED BY <2>4, <2>7 DEF TimeInv
<1> QED BY <1>1, <1>2

LEMMA TimeCopy ==
  ASSUME IInv, TimeInv, Copy \/ CopyRest
  PROVE  TimeInv'
<1>1. /\ rx \in {"stored", "copying"} /\ rx' \in {"copying", "idle"} /\ devices # <<>>
      /\ UNCHANGED <<devices, packet, heard, current, ui, clock, now, steady>>
      /\ Selected' = Selected
  BY DEF Copy, CopyRest, tableVars, timeVars, Selected, IInv, SelectedIs
<1>2. HeardIs'
  BY <1>1 DEF TimeInv, HeardIs
<1>3. CASE Copy
  <2>1. UNCHANGED <<received, lastRecv>> /\ rx = "stored"
    BY <1>3 DEF Copy
  <2>2. rx' = "idle" => packet # Selected
    <3>1. PICK i \in DOMAIN devices : devices[i].packet = packet
      BY <1>1 DEF IInv, StoredIs
    <3>2. current \in DOMAIN devices /\ IndexOf(Selected.from) = current
      BY <1>1, IndexKnown DEF IInv, SelectedIs, Selected
    <3> QED BY <1>3, <3>2 DEF Copy
  <2>3. TimesKept'
    BY <1>1, <2>1, <2>2 DEF TimeInv, TimesKept, Aged
  <2> QED BY <1>2, <2>3 DEF TimeInv
<1>4. CASE CopyRest
  <2>1. rx = "copying" /\ rx' = "idle" /\ lastRecv' = clock
    BY <1>4 DEF CopyRest
  <2>2. ui # "switch" => packet = Selected /\ current \in DOMAIN devices
    BY <1>1, <2>1 DEF IInv, OnShow, SelectedIs
  <2>3. ui # "switch" /\ Selected.from \in steady => devices[current].update = clock
    <3>1. heard[packet.from] = now /\ now \in Nat
      BY <2>1 DEF TimeInv, HeardIs, IInv, TypeOK
    <3>2. ASSUME ui # "switch", Selected.from \in steady
          PROVE  devices[current].update = clock
      <4>1. Aged(devices[current].update, now)
        BY <2>2, <3>1, <3>2 DEF TimeInv, TimesKept, Selected
      <4>2. devices[current].update \in Nat
        <5>1. devices[current].update \in 0 .. Turn - 1
          BY <2>2, <3>2, Table DEF Entries, IInv
        <5> QED BY <5>1, SysInfoAssumption
      <4> QED BY <3>1, <4>1, <4>2 DEF Aged
    <3> QED BY <3>2
  <2>4. TimesKept'
    BY <1>1, <2>1, <2>3 DEF TimeInv, TimesKept, Aged
  <2> QED BY <1>2, <2>4 DEF TimeInv
<1> QED BY <1>3, <1>4

LEMMA TimeUI ==
  ASSUME IInv, TimeInv, UI
  PROVE  TimeInv'
<1>1. UNCHANGED <<devices, packet, heard, rx, clock, now, steady>>
  BY DEF UI, Refresh, Swipe, Switch, DrawName, DrawNumbers, tableVars, timeVars
<1>2. ui # "idle" => devices # <<>>
  BY DEF IInv, SelectedIs
<1>3. HeardIs'
  <2>1. received' => received \/ devices # <<>>
    BY <1>2 DEF UI, Refresh, Swipe, Switch, DrawName, DrawNumbers, shownVars
  <2> QED BY <1>1, <2>1 DEF TimeInv, HeardIs
<1>4. TimesKept'
  <2>1. CASE Refresh
    BY <1>1, <2>1 DEF Refresh, TimeInv, TimesKept, Aged, Selected
  <2>2. CASE Swipe
    BY <1>1, <2>2 DEF Swipe, TimeInv, TimesKept, Aged
  <2>3. CASE Switch
    BY <1>1, <2>3 DEF Switch, TimeInv, TimesKept, Aged
  <2>4. CASE DrawName \/ DrawNumbers
    BY <1>1, <2>4 DEF DrawName, DrawNumbers, shownVars, TimeInv, TimesKept, Aged, Selected
  <2> QED BY <2>1, <2>2, <2>3, <2>4 DEF UI
<1> QED BY <1>3, <1>4 DEF TimeInv

\* One run of the timer makes every row older by one, or the tick starts again
\* and no device has been heard since.
LEMMA TimeTick ==
  ASSUME IInv, TimeInv, Tick
  PROVE  TimeInv'
<1>1. /\ rx = "idle" /\ now' = now + 1 /\ clock' = (clock + 1) % Turn
      /\ steady' = IF clock + 1 = Turn THEN {} ELSE steady
      /\ UNCHANGED <<devices, packet, heard, rx, current, received, lastRecv, ui>>
  BY DEF Tick, shownVars
<1>2. /\ now \in Nat /\ heard \in [Devices -> Nat] /\ clock \in 0 .. Turn - 1
      /\ Turn \in Nat \ {0}
  BY SysInfoAssumption DEF IInv, TypeOK
<1>3. HeardIs'
  BY <1>1, <1>2 DEF TimeInv, HeardIs
<1>4. CASE clock + 1 = Turn
  BY <1>1, <1>3, <1>4 DEF TimeInv, TimesKept
<1>5. CASE clock + 1 # Turn
  <2>1. clock' = clock + 1 /\ steady' = steady
    BY <1>1, <1>2, <1>5, ModTurn
  <2>2. ASSUME NEW j \in DOMAIN devices, devices[j].packet.from \in steady
        PROVE  Aged(devices[j].update, heard[devices[j].packet.from])'
    <3>1. heard[devices[j].packet.from] \in Nat /\ devices[j].update \in Nat
      <4>1. devices[j].packet \in Packets /\ devices[j].update \in 0 .. Turn - 1
        BY Table DEF IInv, Entries
      <4> QED BY <1>2, <4>1 DEF Packets
    <3>2. Aged(devices[j].update, heard[devices[j].packet.from])
      BY <2>2 DEF TimeInv, TimesKept
    <3> QED BY <1>1, <1>2, <2>1, <3>1, <3>2 DEF Aged
  <2>3. TimesKept'
    BY <1>1, <2>1, <2>2 DEF TimeInv, TimesKept, Selected
  <2> QED BY <1>3, <2>3 DEF TimeInv
<1> QED BY <1>4, <1>5

LEMMA TimeInductive == Spec => []TimeInv
<1>1. Init => TimeInv
  BY DEF Init, TimeInv, HeardIs, TimesKept
<1>2. IInv /\ TimeInv /\ [Next]_vars => TimeInv'
  <2> SUFFICES ASSUME IInv, TimeInv, [Next]_vars PROVE TimeInv'
    OBVIOUS
  <2>1. CASE Receiver
    BY <2>1, TimeReceive, TimeCopy DEF Receiver
  <2>2. CASE UI
    BY <2>2, TimeUI
  <2>3. CASE Tick
    BY <2>3, TimeTick
  <2>4. CASE NtpStep
    BY <2>4 DEF NtpStep, shownVars, TimeInv, HeardIs, TimesKept
  <2>5. CASE UNCHANGED vars
    BY <2>5 DEF vars, TimeInv, HeardIs, TimesKept, Aged, Selected
  <2> QED BY <2>1, <2>2, <2>3, <2>4, <2>5 DEF Next
<1> QED BY <1>1, <1>2, Inductive, PTL DEF Spec
-----------------------------------------------------------------------------
\* Types; the table keeps to MAX_DEVICES and to one row for a sender.
THEOREM TypeOKAlways == Spec => []TypeOK
<1>1. IInv => TypeOK
  BY DEF IInv
<1> QED BY Inductive, <1>1, PTL

\* The screen comes to rest on the selected device.
THEOREM ShowsSelectedAlways == Spec => []ShowsSelected
<1>1. IInv => ShowsSelected
  BY DEF IInv, OnShow, Selected, ShowsSelected
<1> QED BY Inductive, <1>1, PTL

\* The name, the numbers and the network speeds on the screen are of one device,
\* and so are the GPU numbers where the packet drawn has a GPU.
THEOREM OneDeviceDrawnAlways == Spec => []OneDeviceDrawn
<1>1. IInv => OneDeviceDrawn
  BY DEF IInv
<1> QED BY Inductive, <1>1, PTL

\* A run of the timer takes the numbers off the screen exactly when the device
\* on show was silent for longer than the timeout, if the tick has not jumped
\* since it was heard: for every timeout and wherever the tick starts again, and
\* whatever swipes and packets came in between (sysinfo_timer_callback,
\* switch_to_device).
THEOREM NumbersAreTimely == Spec => TimelyNumbers
<1> DEFINE Timely ==
      /\ Refresh /\ received /\ shown.name.from \in steady
      => (received' <=> now - heard[shown.name.from] <= Timeout)
<1>1. ASSUME IInv, TimeInv, Refresh, received, shown.name.from \in steady
      PROVE  received' <=> now - heard[shown.name.from] <= Timeout
  <2>1. /\ ui = "idle" /\ rx = "idle" /\ devices # <<>> /\ current \in DOMAIN devices
        /\ received' = (received /\ Elapsed <= Timeout)
    BY <1>1 DEF Refresh, TimeInv, HeardIs, IInv, SelectedIs
  <2>2. shown.name = devices[current].packet /\ lastRecv = devices[current].update
    BY <1>1, <2>1 DEF IInv, OnShow, Selected, TimeInv, TimesKept
  <2>3. Aged(lastRecv, heard[shown.name.from])
    BY <1>1, <2>1, <2>2 DEF TimeInv, TimesKept
  <2>4. shown.name \in Packets
    BY <1>1, <2>1, <2>2, Table DEF IInv
  <2>5. heard[shown.name.from] \in Nat /\ heard[shown.name.from] <= now
    BY <1>1, <2>4 DEF Packets, IInv, TypeOK, TimeInv, HeardIs
  <2>6. Elapsed = now - heard[shown.name.from]
    BY <1>1, <2>3, <2>5, ElapsedIsAge DEF IInv
  <2> QED BY <1>1, <2>1, <2>6
<1>2. IInv /\ TimeInv /\ [Next]_vars => [Timely]_vars
  BY <1>1
<1> QED BY <1>2, Inductive, TimeInductive, PTL DEF Spec, TimelyNumbers
=============================================================================
