------------------------------ MODULE SysInfo ------------------------------
(***************************************************************************)
(* The system-information screen (sys_info.c): a receiver thread files the *)
(* UDP packets of up to MAX_DEVICES hosts, and the UI thread shows the     *)
(* device that is selected.  They share the device table and the record to *)
(* be shown under g_data_mutex, which two accesses of the UI thread leave  *)
(* out: the selected index is changed before the lock is taken, and a      *)
(* swipe draws the record after it is given back.                          *)
(*                                                                         *)
(* A packet is its sender, a serial number and whether it has GPU values;  *)
(* copying and drawing one are two steps each, its name and then its       *)
(* numbers.                                                                *)
(*                                                                         *)
(* lv_tick_get is custom_tick_get (main.c), which takes the wall clock in  *)
(* microseconds, in the 32-bit long of the board, and then divides by      *)
(* 1000.  So it starts again every 2^32 microseconds (Turn, 71.6 minutes), *)
(* but differences of it are taken modulo 2^32 milliseconds (ClockSize):   *)
(* across such a turn they are not the time that has passed.  The NTP      *)
(* thread may set the clock besides.  Time is counted in runs of the LVGL  *)
(* timer (500 ms).                                                         *)
(***************************************************************************)
EXTENDS Naturals, Sequences

CONSTANTS
  Devices,      \* hosts that send
  MaxDevices,   \* MAX_DEVICES
  Timeout,      \* DATA_TIMEOUT_MS
  Turn,         \* the tick starts again after this: 2^32 microseconds
  ClockSize,    \* what its differences are taken modulo: 2^32 milliseconds
  ClockSteps,   \* bound: by how much NTP may set the clock forward
  MaxPackets,   \* bound: packets that arrive
  MaxTime       \* bound: timer runs

ASSUME SysInfoAssumption ==
  /\ MaxDevices \in Nat \ {0}
  /\ Timeout \in Nat
  /\ Turn \in Nat \ {0} /\ ClockSize \in Nat /\ Turn <= ClockSize
  /\ ClockSteps \subseteq Nat
  /\ MaxPackets \in Nat /\ MaxTime \in Nat

VARIABLES
  devices,    \* g_devices[0 .. g_device_count - 1]: packet and last_update
  current,    \* g_current_device_index + 1
  shown,      \* g_sysinfo_data: name and numbers, each of some packet
  received,   \* g_data_received
  lastRecv,   \* g_last_recv_time
  display,    \* the widgets: name, CPU and memory numbers, GPU numbers, network
              \* speeds, each of some packet
  ui,         \* where the UI thread is
  rx,         \* where the receiver thread is; it holds g_data_mutex if not idle
  packet,     \* recv_data
  clock,      \* lv_tick_get(), but for a constant that differences cancel
  now,        \* history: time passed
  heard,      \* history: when each device was last heard
  refreshed,  \* the LVGL timer has run since the last tick
  steady      \* history: the devices heard since the tick last jumped, by
              \* starting again or by NTP

vars == <<devices, current, shown, received, lastRecv, display, ui, rx,
          packet, clock, now, heard, refreshed, steady>>

tableVars == <<devices, packet, heard, steady>>
shownVars == <<shown, received, lastRecv>>
timeVars == <<clock, now, refreshed>>

NA == "N/A"
NoPacket == [from |-> NA, serial |-> 0, gpu |-> FALSE]
Packets == [from : Devices, serial : 1 .. MaxPackets, gpu : BOOLEAN]

\* Nobody has sent yet, for however long the tick has counted.
Init ==
  /\ devices = <<>> /\ current = 1
  /\ shown = [name |-> NoPacket, numbers |-> NoPacket]
  /\ received = FALSE /\ lastRecv = 0
  /\ display = [name |-> NoPacket, numbers |-> NoPacket, gpu |-> NoPacket, net |-> NoPacket]
  /\ ui = "idle" /\ rx = "idle"
  /\ packet = NoPacket
  /\ clock \in 0 .. Turn - 1 /\ now = 0 /\ refreshed = FALSE
  /\ heard = [d \in Devices |-> 0] /\ steady = {}

IndexNoLimit(d) ==                \* mutant: the table grows past its end
  IF \E i \in DOMAIN devices : devices[i].packet.from = d
  THEN CHOOSE i \in DOMAIN devices : devices[i].packet.from = d
  ELSE Len(devices) + 1
\* The index find_or_add_device gives a sender, 0 for none.
IndexOf(d) ==
  IF \E i \in DOMAIN devices : devices[i].packet.from = d
  THEN CHOOSE i \in DOMAIN devices : devices[i].packet.from = d
  ELSE IF Len(devices) < MaxDevices THEN Len(devices) + 1 ELSE 0
-----------------------------------------------------------------------------
(* The receiver thread, under the lock from the first step to the last.    *)

\* recvfrom; find_or_add_device and update_device_data.
Receive(d) ==
  /\ rx = "idle" /\ packet.serial < MaxPackets
  /\ \E gpu \in BOOLEAN :
       packet' = [from |-> d, serial |-> packet.serial + 1, gpu |-> gpu]
  /\ LET i == IndexOf(d)
         entry == [packet |-> packet', update |-> clock]
     IN IF i = 0
        THEN UNCHANGED <<devices, heard, steady, rx>>
        ELSE /\ devices' = IF i > Len(devices) THEN Append(devices, entry)
                           ELSE [devices EXCEPT ![i] = entry]
             /\ heard' = [heard EXCEPT ![d] = now] /\ steady' = steady \cup {d}
             /\ rx' = "stored"
  /\ UNCHANGED <<current, shownVars, display, ui, timeVars>>

\* Is the sender the device on show?
CopyAlways ==                     \* mutant: whoever sends is shown
  /\ rx = "stored"
  /\ rx' = "copying"
  /\ shown' = [shown EXCEPT !.name = packet]
  /\ UNCHANGED <<tableVars, current, received, lastRecv, display, ui, timeVars>>
Copy ==
  /\ rx = "stored"
  /\ IF IndexOf(packet.from) = current \/ Len(devices) = 1
     THEN /\ shown' = [shown EXCEPT !.name = packet]
          /\ rx' = "copying"
     ELSE /\ rx' = "idle"
          /\ UNCHANGED shown
  /\ UNCHANGED <<tableVars, current, received, lastRecv, display, ui, timeVars>>

\* The rest of the copy, the flag and the time; the lock is given back.
CopyForgetsTime ==                \* mutant: g_last_recv_time is left alone
  /\ rx = "copying"
  /\ shown' = [shown EXCEPT !.numbers = packet]
  /\ received' = TRUE
  /\ rx' = "idle"
  /\ UNCHANGED <<lastRecv, tableVars, current, display, ui, timeVars>>
CopyRest ==
  /\ rx = "copying"
  /\ shown' = [shown EXCEPT !.numbers = packet]
  /\ received' = TRUE /\ lastRecv' = clock
  /\ rx' = "idle"
  /\ UNCHANGED <<tableVars, current, display, ui, timeVars>>
-----------------------------------------------------------------------------
(* The UI thread.                                                          *)

\* The unsigned difference of two ticks.
Elapsed == (clock + ClockSize - lastRecv) % ClockSize

\* What the widgets make of the record: numbers, or N/A.  update_gpu_info
\* leaves its widgets alone if the record has no GPU; the network speeds are
\* drawn last, by update_net_info, and from the record in any case.
Numbers(ok) == IF ok THEN shown.numbers ELSE NoPacket
Gpu(ok) == IF ok /\ ~shown.numbers.gpu THEN display.gpu ELSE Numbers(ok)

\* sysinfo_timer_callback, under the lock.
Refresh ==
  /\ ui = "idle" /\ rx = "idle"
  /\ received' = (received /\ Elapsed <= Timeout)
  /\ display' = [name |-> shown.name, numbers |-> Numbers(received'),
                 gpu |-> Gpu(received'), net |-> shown.numbers]
  /\ refreshed' = TRUE
  /\ UNCHANGED <<shown, lastRecv, tableVars, current, ui, rx, clock, now>>

\* gesture_event_handler and the first lines of switch_to_device: the next
\* or the previous device is selected, without the lock.
Swipe ==
  /\ ui = "idle" /\ Len(devices) > 1
  /\ current' \in {(current % Len(devices)) + 1,
                   ((current + Len(devices) - 2) % Len(devices)) + 1}
  /\ ui' = "switch"
  /\ UNCHANGED <<shownVars, tableVars, display, rx, timeVars>>

\* switch_to_device under the lock: the device's last packet is shown.
SwitchUnlocked ==                 \* mutant: the lock is not taken
  /\ ui = "switch"
  /\ LET e == devices[current]
     IN shown' = [name |-> e.packet, numbers |-> e.packet] /\ lastRecv' = e.update
  /\ received' = TRUE
  /\ ui' = "draw"
  /\ UNCHANGED <<tableVars, current, display, rx, timeVars>>
Switch ==
  /\ ui = "switch" /\ rx = "idle"
  /\ LET e == devices[current]
     IN shown' = [name |-> e.packet, numbers |-> e.packet] /\ lastRecv' = e.update
  /\ received' = TRUE
  /\ ui' = "draw"
  /\ UNCHANGED <<tableVars, current, display, rx, timeVars>>

\* sysinfo_update_display at the end of the swipe, without the lock.
DrawName ==
  /\ ui = "draw"
  /\ display' = [display EXCEPT !.name = shown.name]
  /\ ui' = "draw numbers"
  /\ UNCHANGED <<shownVars, tableVars, current, rx, timeVars>>
DrawNumbers ==
  /\ ui = "draw numbers"
  /\ display' = [display EXCEPT !.numbers = Numbers(received), !.gpu = Gpu(received),
                               !.net = shown.numbers]
  /\ ui' = "idle"
  /\ UNCHANGED <<shownVars, tableVars, current, rx, timeVars>>
-----------------------------------------------------------------------------
(* Time.                                                                   *)

\* The LVGL timer runs every period, and no thread holds the lock that long.
Tick ==
  /\ now < MaxTime /\ refreshed /\ rx = "idle"
  /\ now' = now + 1
  /\ clock' = (clock + 1) % Turn
  /\ steady' = IF clock + 1 = Turn THEN {} ELSE steady
  /\ refreshed' = FALSE
  /\ UNCHANGED <<devices, packet, heard, current, shownVars, display, ui, rx>>

\* The periodic NTP thread (net_date.c) sets the wall clock.
NtpStep ==
  /\ \E s \in ClockSteps : clock' = (clock + s) % Turn
  /\ steady' = {}
  /\ UNCHANGED <<now, refreshed, devices, packet, heard, current, shownVars, display, ui, rx>>

Receiver == (\E d \in Devices : Receive(d)) \/ Copy \/ CopyRest
UI == Refresh \/ Swipe \/ Switch \/ DrawName \/ DrawNumbers

Next == Receiver \/ UI \/ Tick \/ NtpStep

Spec == Init /\ [][Next]_vars
-----------------------------------------------------------------------------
PacketOrNA == Packets \cup {NoPacket}

\* Types; the device table holds at most MAX_DEVICES rows, one for a sender
\* (find_or_add_device).
TypeOK ==
  /\ devices \in Seq([packet : Packets, update : 0 .. Turn - 1])
  /\ Len(devices) <= MaxDevices
  /\ \A i, j \in DOMAIN devices : devices[i].packet.from = devices[j].packet.from => i = j
  /\ current \in 1 .. MaxDevices
  /\ shown \in [name : PacketOrNA, numbers : PacketOrNA]
  /\ display \in [name : PacketOrNA, numbers : PacketOrNA, gpu : PacketOrNA,
                  net : PacketOrNA]
  /\ received \in BOOLEAN
  /\ lastRecv \in 0 .. Turn - 1 /\ clock \in 0 .. Turn - 1
  /\ ui \in {"idle", "switch", "draw", "draw numbers"}
  /\ rx \in {"idle", "stored", "copying"}
  /\ packet \in PacketOrNA
  /\ now \in Nat /\ heard \in [Devices -> Nat]
  /\ refreshed \in BOOLEAN /\ steady \subseteq Devices

\* The selected device is the one on show whenever neither thread is at work:
\* a packet that arrives while a swipe is under way, on either side of the
\* lock, does not put the device the user has left back on the screen.
ShowsSelected ==
  ui = "idle" /\ rx = "idle" /\ devices # <<>> =>
    /\ shown.name = devices[current].packet
    /\ shown.numbers = devices[current].packet

\* The numbers on the screen, the network speeds included, are never those of
\* another device than the name; nor are the GPU numbers, when the packet they
\* were to be drawn from has a GPU.  When it has none update_gpu_info leaves
\* those of the packet before, of whatever device that was.
OneDeviceDrawn ==
  ui = "idle" =>
    /\ display.net.from = display.name.from
    /\ display.numbers # NoPacket => display.numbers.from = display.name.from
    /\ display.numbers.gpu => display.gpu.from = display.name.from

\* A run of the timer takes the numbers off the screen exactly when the device
\* on show, the one selected last or heard last, was silent for longer than the
\* timeout, as long as the tick has not jumped since the device was heard; after
\* a jump this holds again from its next packet on (sysinfo_timer_callback,
\* switch_to_device).
TimelyNumbers ==
  [][/\ Refresh /\ received /\ shown.name.from \in steady
     => (received' <=> now - heard[shown.name.from] <= Timeout)]_vars
=============================================================================
