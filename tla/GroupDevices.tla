----------------------------- MODULE GroupDevices -----------------------------
(***************************************************************************)
(* The devices of a group's page: one stream kept by the device manager      *)
(* (group_device_manager.js), asked for by the dialog that prepares a call   *)
(* and by the test of the microphone (group_v3_app.js), the device           *)
(* remembered and whether it is known to work.  Device 0 is the browser's    *)
(* default, and the one it grants when none is asked for may be any.         *)
(***************************************************************************)
EXTENDS Naturals

CONSTANTS Devices,     \* the input devices
          MaxAcquires  \* bound on the streams asked for
DevicesAssumption == Devices \subseteq Nat \ {0} /\ MaxAcquires \in Nat

VARIABLES
  streams,  \* every acquire: its step, the device asked for, who asked, those pending when it was granted
  manager,  \* activeStream, the meter's stream, the device remembered, mediaReady
  page,     \* prejoinOpen, the streams the test and the dialog know
  ghost     \* streams replaced by one that was pending when they were granted, the device last granted, a test over another device

vars == <<streams, manager, page, ghost>>
Acquires == 1 .. MaxAcquires
Choices == Devices \cup {0}

Init ==
  /\ streams = [i \in Acquires |-> [at |-> "none", device |-> 0, by |-> "none", while |-> {}]]
  /\ \E d \in Choices, r \in BOOLEAN :
       /\ manager = [active |-> 0, meter |-> 0, device |-> d, ready |-> r]
       /\ ghost = [replaced |-> {}, granted |-> d, guessed |-> FALSE]
  /\ page = [prejoin |-> FALSE, test |-> 0]

On == {i \in Acquires : streams[i].at = "on"}
Pending == {i \in Acquires : streams[i].at \in {"asked", "retried"}}
Request(d, by) == [at |-> "asked", device |-> d, by |-> by, while |-> {}]

\* stop
Stopped(s) == [i \in Acquires |-> IF i = manager.active THEN [s[i] EXCEPT !.at = "off"] ELSE s[i]]
Free(m) == [m EXCEPT !.active = 0, !.meter = 0]

\* remember: another device is not known to work.
Remembered(m, d) == [m EXCEPT !.device = d, !.ready = @ /\ m.device = d]

-----------------------------------------------------------------------------
(* acquire *)

\* Mutant of Asked: the stream in use is not stopped.
AskedOver(i, by) ==
  /\ streams[i].at = "none" /\ \A j \in 1 .. (i - 1) : streams[j].at # "none"
  /\ streams' = [streams EXCEPT ![i] = Request(manager.device, by)]
  /\ UNCHANGED manager
\* The stream in use is stopped; the remembered device is asked for.
Asked(i, by) ==
  /\ streams[i].at = "none" /\ \A j \in 1 .. (i - 1) : streams[j].at # "none"
  /\ streams' = [Stopped(streams) EXCEPT ![i] = Request(manager.device, by)]
  /\ manager' = IF manager.active # 0 THEN Free(manager) ELSE manager

\* testCommunicationMicrophone, preparePrejoin.
TestClicked(i) == Asked(i, "test") /\ UNCHANGED <<page, ghost>>
PrepareClicked(i) == page.prejoin /\ Asked(i, "prejoin") /\ UNCHANGED <<page, ghost>>

\* Whether another stream was granted meanwhile, or the dialog closed, is not looked at.
Granted(i, d) ==
  /\ i \in Pending /\ d \in Devices
  /\ streams[i].device \in {0, d}
  /\ streams' = [streams EXCEPT ![i].at = "on", ![i].while = Pending \ {i}]
  /\ ghost' = [ghost EXCEPT !.replaced = @ \cup {j \in {manager.active} \ {0} : i \in streams[j].while},
                            !.granted = d, !.guessed = FALSE]
  /\ manager' = [Remembered(manager, d) EXCEPT !.active = i, !.ready = TRUE,
                                               !.meter = IF streams[i].by = "test" THEN i ELSE @]
  /\ page' = IF streams[i].by = "test" THEN [page EXCEPT !.test = i] ELSE page

\* The device is gone: forgotten, and the default asked for once.
NotFound(i) ==
  /\ streams[i].at = "asked" /\ streams[i].device # 0
  /\ streams' = [streams EXCEPT ![i].at = "retried", ![i].device = 0]
  /\ manager' = Remembered(manager, 0)
  /\ UNCHANGED <<page, ghost>>

\* The test then stops whatever stream the manager has by now; the dialog shows the error.
Denied(i) ==
  /\ i \in Pending
  /\ LET failed == [streams EXCEPT ![i].at = "off"] IN
     IF streams[i].by = "test" THEN streams' = Stopped(failed) /\ manager' = Free(manager)
     ELSE streams' = failed /\ UNCHANGED manager
  /\ UNCHANGED <<page, ghost>>

-----------------------------------------------------------------------------
(* Who holds the stream *)

\* 900 ms after the grant: markReady, the meter and the manager's stream are stopped.
TestOver ==
  /\ page.test # 0
  /\ manager' = [Free(manager) EXCEPT !.ready = TRUE]
  /\ streams' = Stopped(streams)
  /\ page' = [page EXCEPT !.test = 0]
  /\ ghost' = [ghost EXCEPT !.guessed = @ \/ ghost.granted # manager.device]

\* openPrejoin; the dialog's meter follows its stream when the page is rendered.
PrejoinOpened ==
  /\ ~page.prejoin
  /\ page' = [page EXCEPT !.prejoin = TRUE]
  /\ UNCHANGED <<streams, manager, ghost>>

Rendered ==
  /\ page.prejoin /\ manager.active # 0 /\ manager.meter = 0 /\ streams[manager.active].by = "prejoin"
  /\ manager' = [manager EXCEPT !.meter = manager.active]
  /\ UNCHANGED <<streams, page, ghost>>

\* closePrejoin(true), disconnectMedia.
PrejoinClosed ==
  /\ page.prejoin
  /\ page' = [page EXCEPT !.prejoin = FALSE]
  /\ streams' = Stopped(streams) /\ manager' = Free(manager)
  /\ UNCHANGED ghost

\* The device lists of the settings; those of the dialog prepare it again.
DeviceChosen(d) ==
  /\ d # manager.device
  /\ manager' = Remembered(manager, d)
  /\ UNCHANGED <<streams, page, ghost>>

\* Every device change of the dialog asks for a stream.
PrejoinDeviceChosen(i, d) ==
  /\ page.prejoin
  /\ streams[i].at = "none" /\ \A j \in 1 .. (i - 1) : streams[j].at # "none"
  /\ streams' = [Stopped(streams) EXCEPT ![i] = Request(d, "prejoin")]
  /\ manager' = [Remembered(manager, d) EXCEPT !.active = 0, !.meter = IF manager.active # 0 THEN 0 ELSE @]
  /\ UNCHANGED <<page, ghost>>

Next ==
  \/ TestOver \/ PrejoinOpened \/ Rendered \/ PrejoinClosed
  \/ \E d \in Choices : DeviceChosen(d)
  \/ \E i \in Acquires :
       \/ TestClicked(i) \/ PrepareClicked(i) \/ NotFound(i) \/ Denied(i)
       \/ \E d \in Devices : Granted(i, d) \/ PrejoinDeviceChosen(i, d)

Spec == Init /\ [][Next]_vars

-----------------------------------------------------------------------------
TypeOK ==
  /\ streams \in [Acquires -> [at : {"none", "asked", "retried", "on", "off"}, device : Choices,
                               by : {"none", "test", "prejoin"}, while : SUBSET Acquires]]
  /\ manager \in [active : 0 .. MaxAcquires, meter : 0 .. MaxAcquires, device : Choices, ready : BOOLEAN]
  /\ page \in [prejoin : BOOLEAN, test : 0 .. MaxAcquires]
  /\ ghost.replaced \subseteq Acquires /\ ghost.granted \in Choices

\* No stream is on that the manager could not stop, but one replaced by a stream
\* whose permission was pending as well; and a device is known to work only when it is the one last
\* granted, but for a test that ends after another device was chosen.
DeviceAccounted ==
  /\ On \subseteq {manager.active} \cup ghost.replaced
  /\ manager.ready /\ ~ghost.guessed => manager.device = ghost.granted
=============================================================================
