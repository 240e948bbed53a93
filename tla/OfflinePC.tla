----------------------------- MODULE OfflinePC -----------------------------
(***************************************************************************)
(* One paired PC from outage to outage: which mode it boots into           *)
(* (decideBoot), the switches between the modes (go-offline, back-to-web,  *)
(* the Finisher), the files they move (pairing.json, the downloaded copy,  *)
(* the working copy, the finished copies), pairing, re-keying, unpairing   *)
(* and updates.  A mode change is saved and the app relaunches 300 ms      *)
(* later; the mode and the readiness of a process are those of its boot.   *)
(*                                                                         *)
(* Offline rows are the numbers of one id table: every recorded action     *)
(* draws one.  The shop's server is reduced to what the PC learns from it. *)
(***************************************************************************)
EXTENDS Naturals, Sequences, FiniteSetsExt

CONSTANTS
    FinishedKept,  \* FINISHED_KEPT
    MaxId,         \* bound: the highest row number the PC draws
    MaxDevices,    \* bound: PC numbers the server gives out
    MaxVersion,    \* bound: data versions
    MaxBuilds,     \* bound: copies the server builds
    MaxCrashes,    \* bound: crashes between two writes of one operation
    MaxRevokes     \* bound: revocations of the PC's key

ASSUME PCAssumption ==
    /\ FinishedKept \in Nat \ {0}
    /\ {MaxDevices, MaxVersion} \subseteq Nat \ {0}
    /\ {MaxId, MaxBuilds, MaxCrashes, MaxRevokes} \subseteq Nat

VARIABLES
    \* --- the PC's disk
    pairing,   \* pairing.json
    copy,      \* the newest verified copy (mirror-<ts>.db)
    work,      \* the working copy and its outbox (offline-work.db)
    finished,  \* finished/: [dev, n] of each finished copy, newest first
    appVer,    \* the data version of the installed app
    \* --- the PC's process
    mode,      \* the mode it booted into
    ready,     \* decision.ready, of its boot
    exiting,   \* it relaunches within 300 ms
    down,      \* how long no attempt reached the server
    \* --- the server
    net,       \* the network works
    devices,   \* PC numbers given out
    revoked,   \* the PC's key is revoked
    serverVer, \* the server's data version
    stored,    \* [device -> the row numbers its stored events created]
    processed, \* [device -> those whose event left `received`]
    snap,      \* the cached copy: [at, has]
    builds,    \* copies built so far: the time of the model
    \* --- history and bounds
    drawn,     \* [device -> [row number -> how often it was drawn]]
    crashes, revokes

diskVars   == <<pairing, copy, work, finished, appVer>>
procVars   == <<mode, ready, exiting, down>>
serverVars == <<net, devices, revoked, serverVer, stored, processed, snap, builds>>
vars       == <<diskVars, procVars, serverVars, drawn, crashes, revokes>>

Modes   == {"standalone", "standby", "blocked", "offline", "finishing"}
Ids     == 1..MaxId
Numbers == 1..MaxDevices

\* period: lastPeriod, `open` while settledAt is null; told: lastError
NotPaired == [paired |-> FALSE, dev |-> 0, mode |-> "standby", lastUsed |-> 0, srvIds |-> 0,
              srvVer |-> 0, period |-> "none", settledAt |-> 0, told |-> "nothing"]
NoCopy    == [at |-> 0, ver |-> 0, has |-> {}]
NoWork    == [exists |-> FALSE, dev |-> 0, n |-> 0, ver |-> 0,
              waiting |-> {}, sent |-> {}]

Init ==
    /\ pairing = NotPaired /\ copy = NoCopy /\ work = NoWork /\ finished = <<>>
    /\ appVer = 1
    /\ mode = "standalone" /\ ready = FALSE /\ exiting = FALSE /\ down = "some"
    /\ net = TRUE /\ devices = 0 /\ revoked = FALSE /\ serverVer = 1
    /\ stored = [d \in Numbers |-> {}] /\ processed = [d \in Numbers |-> {}]
    /\ snap = [at |-> 0, has |-> {}] /\ builds = 0
    /\ drawn = [d \in Numbers |-> [n \in Ids |-> 0]]
    /\ crashes = 0 /\ revokes = 0

-----------------------------------------------------------------------------
(* Boot.                                                                   *)

\* Variant: the saved mode decides, not the working copy
DecideBySavedMode(p, w, c, app) ==
    IF ~p.paired THEN "standalone"
    ELSE IF p.mode # "standby" THEN p.mode
    ELSE IF c.at = 0 \/ c.ver # app THEN "blocked" ELSE "standby"

\* decideBoot(): a working copy always wins
Decide(p, w, c, app) ==
    IF ~p.paired THEN "standalone"
    ELSE IF w.exists THEN
        IF w.ver # app THEN "blocked"
        ELSE IF p.mode = "finishing" THEN "finishing" ELSE "offline"
    ELSE IF c.at = 0 \/ c.ver # app THEN "blocked" ELSE "standby"

\* decideBoot(): whether offline mode may start from the newest copy
Ready(p, c, app) ==
    /\ p.srvVer = app
    /\ p.period # "none" => p.period = "settled" /\ c.at > p.settledAt

\* the next process starts on these files; it has reached nobody yet
BootOn(p, w, c, app) ==
    /\ mode' = Decide(p, w, c, app)
    /\ ready' = (mode' \in {"offline", "finishing"} \/ (mode' = "standby" /\ Ready(p, c, app)))
    /\ exiting' = FALSE
    /\ down' = "some"

\* app.relaunch() 300 ms after a mode change
Relaunch ==
    /\ exiting
    /\ BootOn(pairing, work, copy, appVer)
    /\ UNCHANGED <<diskVars, serverVars, drawn, crashes, revokes>>

\* the app stops at any time and is started again; while it relaunches anyway
\* this is Relaunch
Restart ==
    /\ ~exiting
    /\ BootOn(pairing, work, copy, appVer)
    /\ UNCHANGED <<diskVars, serverVars, drawn, crashes, revokes>>

\* offline:install-update, on the standby screen only
InstallUpdate ==
    /\ mode \in {"standby", "blocked"}
    /\ appVer < MaxVersion
    /\ appVer' = appVer + 1
    /\ BootOn(pairing, work, copy, appVer')
    /\ UNCHANGED <<pairing, copy, work, finished, serverVars, drawn, crashes, revokes>>

-----------------------------------------------------------------------------
(* Pairing.                                                                *)

\* Variant: a paired PC does not ask for its own number
PairAnew ==
    /\ mode \notin {"offline", "finishing"}
    /\ net
    /\ devices < MaxDevices
    /\ devices' = devices + 1
    /\ pairing' = [pairing EXCEPT !.paired = TRUE, !.dev = devices', !.srvVer = serverVer,
                                  !.told = "nothing"]
    /\ revoked' = FALSE
    /\ exiting' = (exiting \/ mode = "standalone")
    /\ UNCHANGED <<copy, work, finished, appVer, mode, ready, down, net, serverVer,
                   stored, processed, snap, builds, drawn, crashes, revokes>>

\* offline:pair and OfflineDeviceService.pair: a paired PC asks for its own
\* number again and keeps its counters and its last period
Pair ==
    /\ mode \notin {"offline", "finishing"}
    /\ net
    /\ IF pairing.paired
       THEN /\ pairing' = [pairing EXCEPT !.srvVer = serverVer, !.told = "nothing"]
            /\ UNCHANGED devices
       ELSE /\ devices < MaxDevices
            /\ devices' = devices + 1
            /\ pairing' = [NotPaired EXCEPT !.paired = TRUE, !.dev = devices',
                                            !.srvVer = serverVer]
    /\ revoked' = FALSE
    /\ exiting' = (exiting \/ mode = "standalone")
    /\ UNCHANGED <<copy, work, finished, appVer, mode, ready, down, net, serverVer,
                   stored, processed, snap, builds, drawn, crashes, revokes>>

\* offline:unpair: refused while there is a working copy; an admin's password
\* is checked against the open copy when the PC holds data of the shop
Unpair ==
    /\ pairing.paired
    /\ ~work.exists
    /\ copy.at # 0 => mode = "standby"
    /\ pairing' = NotPaired
    /\ copy' = NoCopy
    /\ exiting' = TRUE
    /\ UNCHANGED <<work, finished, appVer, mode, ready, down, serverVars, drawn,
                   crashes, revokes>>

-----------------------------------------------------------------------------
(* Check-in.                                                               *)

\* Variant: the copy is taken whatever version the server runs
RefreshCopyAny ==
    /\ \/ snap.at # 0 /\ UNCHANGED <<snap, builds>>
       \/ /\ builds < MaxBuilds
          /\ builds' = builds + 1
          /\ snap' = [at |-> builds', has |-> {r \in Numbers \X Ids : r[2] \in processed[r[1]]}]
    /\ copy' = [at |-> snap'.at, ver |-> serverVer, has |-> snap'.has]

\* refreshCopy(): the cached copy or a new one, if the versions agree
RefreshCopy ==
    \/ appVer # serverVer /\ UNCHANGED <<copy, snap, builds>>
    \/ /\ appVer = serverVer
       /\ \/ snap.at # 0 /\ UNCHANGED <<snap, builds>>
          \/ /\ builds < MaxBuilds
             /\ builds' = builds + 1
             /\ snap' = [at |-> builds', has |-> {r \in Numbers \X Ids : r[2] \in processed[r[1]]}]
       /\ copy' = [at |-> snap'.at, ver |-> serverVer, has |-> snap'.has]

\* SyncClient.checkin(), answered
Checkin ==
    /\ mode # "standalone" /\ pairing.paired /\ net
    /\ down' = "no"
    /\ IF revoked
       THEN pairing' = [pairing EXCEPT !.told = "re-pair"] /\ UNCHANGED <<copy, snap, builds>>
       ELSE /\ pairing' = [pairing EXCEPT !.srvVer = serverVer, !.told = "nothing",
                             !.srvIds = Max({0} \cup stored[pairing.dev])]
            /\ \/ UNCHANGED <<copy, snap, builds>>
               \/ mode \in {"standby", "blocked"} /\ RefreshCopy
    /\ UNCHANGED <<work, finished, appVer, mode, ready, exiting, net, devices, revoked,
                   serverVer, stored, processed, drawn, crashes, revokes>>

\* an attempt that gets no answer
Unreachable ==
    /\ mode # "standalone" /\ pairing.paired /\ ~net
    /\ down = "no"
    /\ down' = "some"
    /\ UNCHANGED <<diskVars, mode, ready, exiting, serverVars, drawn, crashes, revokes>>

\* 30 seconds without the server
Elapse ==
    /\ down = "some" /\ ~net
    /\ down' = "long"
    /\ UNCHANGED <<diskVars, mode, ready, exiting, serverVars, drawn, crashes, revokes>>

-----------------------------------------------------------------------------
(* Offline mode.                                                           *)

\* Variant: the finished copies are not read
LastUsedOfPairing == Max({pairing.lastUsed, pairing.srvIds})

\* the highest of pairing.json's counter, the finished copies' and the server's
LastUsed == Max({pairing.lastUsed, pairing.srvIds}
                    \cup {finished[i].n : i \in {j \in DOMAIN finished : finished[j].dev = pairing.dev}})

\* createWorkingCopy(): never over an existing one
CreateWork ==
    /\ mode = "standby" /\ ready /\ down = "long"
    /\ pairing.paired /\ copy.at # 0 /\ ~work.exists
    /\ work' = [exists |-> TRUE, dev |-> pairing.dev, n |-> LastUsed, ver |-> copy.ver,
                waiting |-> {}, sent |-> {}]

\* offline:go-offline
GoOffline ==
    /\ CreateWork
    /\ pairing' = [pairing EXCEPT !.mode = "offline"]
    /\ exiting' = TRUE
    /\ UNCHANGED <<copy, finished, appVer, mode, ready, down, serverVars, drawn, crashes, revokes>>

\* the app stops before pairing.json says offline
GoOfflineCrash ==
    /\ crashes < MaxCrashes
    /\ crashes' = crashes + 1
    /\ CreateWork
    /\ BootOn(pairing, work', copy, appVer)
    /\ UNCHANGED <<pairing, copy, finished, appVer, serverVars, drawn, revokes>>

\* Recorder.dispatch: an action is recorded in offline mode only
Record ==
    /\ mode = "offline" /\ work.exists
    /\ work.n < MaxId
    /\ work' = [work EXCEPT !.n = @ + 1, !.waiting = @ \cup {work.n + 1}]
    /\ drawn' = [drawn EXCEPT ![work.dev][work.n + 1] = @ + 1]
    /\ UNCHANGED <<pairing, copy, finished, appVer, procVars, serverVars, crashes, revokes>>

\* sendWaiting() and the status poll at its end, which settles the last period
Send ==
    /\ mode \in {"offline", "finishing"} /\ work.exists /\ down = "no" /\ net
    /\ LET refused == revoked \/ appVer > serverVer
           d       == pairing.dev
       IN  /\ stored' = IF refused THEN stored ELSE [stored EXCEPT ![d] = @ \cup work.waiting]
           /\ work' = IF refused THEN work ELSE [work EXCEPT !.waiting = {}, !.sent = @ \cup work.waiting]
           /\ pairing' =
                IF revoked THEN [pairing EXCEPT !.told = "re-pair"]
                ELSE IF pairing.period = "open" /\ work'.waiting = {} /\ work'.sent \subseteq processed[d]
                THEN [pairing EXCEPT !.period = "settled", !.settledAt = builds]
                ELSE pairing
    /\ UNCHANGED <<copy, finished, appVer, procVars, net, devices, revoked, serverVer,
                   processed, snap, builds, drawn, crashes, revokes>>

\* an upload gets no answer
SendFails ==
    /\ mode \in {"offline", "finishing"} /\ down = "no" /\ ~net
    /\ work.exists /\ work.waiting # {}
    /\ down' = "some"
    /\ UNCHANGED <<diskVars, mode, ready, exiting, serverVars, drawn, crashes, revokes>>

\* offline:back-to-web
BackToWeb ==
    /\ mode = "offline" /\ down = "no"
    /\ pairing' = [pairing EXCEPT !.mode = "finishing"]
    /\ exiting' = TRUE
    /\ UNCHANGED <<copy, work, finished, appVer, mode, ready, down, serverVars, drawn,
                   crashes, revokes>>

-----------------------------------------------------------------------------
(* The Finisher.                                                           *)

\* Variant: the give-up is saved but the app does not relaunch
FinishGiveUpStays ==
    /\ mode = "finishing" /\ ~exiting /\ down = "long"
    /\ pairing' = [pairing EXCEPT !.mode = "offline"]
    /\ UNCHANGED <<copy, work, finished, appVer, procVars, serverVars, drawn, crashes, revokes>>

\* tick(): 30 s without the server send the PC back to offline mode
FinishGiveUp ==
    /\ mode = "finishing" /\ ~exiting /\ down = "long"
    /\ pairing' = [pairing EXCEPT !.mode = "offline"]
    /\ exiting' = TRUE
    /\ UNCHANGED <<copy, work, finished, appVer, mode, ready, down, serverVars, drawn,
                   crashes, revokes>>

\* Variant: a batch that is still waiting does not stop the Finisher
FinishUnsent ==
    /\ mode = "finishing" /\ ~exiting /\ work.exists
    /\ down = "no" /\ net /\ ~revoked
    /\ finished' = SubSeq(<<[dev |-> work.dev, n |-> work.n]>> \o finished, 1,
                          IF Len(finished) < FinishedKept THEN Len(finished) + 1 ELSE FinishedKept)
    /\ work' = NoWork

\* nothing waits and the manifest is accepted: finishWorkingCopy() moves the
\* working copy to finished/
FinishWork ==
    /\ mode = "finishing" /\ ~exiting /\ work.exists
    /\ down = "no" /\ net /\ ~revoked
    /\ work.waiting = {}
    /\ finished' = SubSeq(<<[dev |-> work.dev, n |-> work.n]>> \o finished, 1,
                          IF Len(finished) < FinishedKept THEN Len(finished) + 1 ELSE FinishedKept)
    /\ work' = NoWork

\* .. and pairing.json is written
Finish ==
    /\ FinishWork
    /\ pairing' = [pairing EXCEPT !.mode = "standby", !.period = "open", !.settledAt = 0,
                     !.lastUsed = Max({@, work.n})]
    /\ exiting' = TRUE
    /\ UNCHANGED <<copy, appVer, mode, ready, down, serverVars, drawn, crashes, revokes>>

\* the app stops between the two
FinishCrash ==
    /\ crashes < MaxCrashes
    /\ crashes' = crashes + 1
    /\ FinishWork
    /\ BootOn(pairing, work', copy, appVer)
    /\ UNCHANGED <<pairing, copy, appVer, serverVars, drawn, revokes>>

-----------------------------------------------------------------------------
(* The world around the PC.                                                *)

NetChange ==
    /\ net' = ~net
    /\ UNCHANGED <<diskVars, procVars, devices, revoked, serverVer, stored, processed,
                   snap, builds, drawn, crashes, revokes>>

\* the merge settles one of the PC's events
Process == \E d \in Numbers : \E n \in stored[d] \ processed[d] :
    /\ processed' = [processed EXCEPT ![d] = @ \cup {n}]
    /\ UNCHANGED <<diskVars, procVars, net, devices, revoked, serverVer, stored, snap,
                   builds, drawn, crashes, revokes>>

\* an admin revokes the PC on the Paired PCs panel
Revoke ==
    /\ pairing.paired /\ ~revoked /\ revokes < MaxRevokes
    /\ revokes' = revokes + 1
    /\ revoked' = TRUE
    /\ UNCHANGED <<diskVars, procVars, net, devices, serverVer, stored, processed, snap,
                   builds, drawn, crashes>>

\* a new version of the server is deployed; its cache is empty
Deploy ==
    /\ serverVer < MaxVersion
    /\ serverVer' = serverVer + 1
    /\ snap' = [at |-> 0, has |-> {}]
    /\ UNCHANGED <<diskVars, procVars, net, devices, revoked, stored, processed, builds,
                   drawn, crashes, revokes>>

PCStep ==
    \/ Relaunch \/ Restart \/ InstallUpdate \/ Pair \/ Unpair
    \/ Checkin \/ Unreachable \/ Elapse
    \/ GoOffline \/ GoOfflineCrash \/ Record \/ Send \/ SendFails \/ BackToWeb
    \/ FinishGiveUp \/ Finish \/ FinishCrash

Next == PCStep \/ NetChange \/ Process \/ Revoke \/ Deploy

Spec == Init /\ [][Next]_vars

\* Timers run: the relaunch, the 30 s tick (check-in, upload, Finisher) and
\* the merge; people, crashes and the network are never fair.
Fairness ==
    /\ WF_vars(Relaunch)
    /\ WF_vars(Checkin) /\ WF_vars(Unreachable) /\ WF_vars(Elapse)
    /\ WF_vars(Send) /\ WF_vars(SendFails)
    /\ WF_vars(FinishGiveUp) /\ WF_vars(Finish)
    /\ WF_vars(Process)

FairSpec == Spec /\ Fairness

-----------------------------------------------------------------------------
(* Properties                                                              *)

\* Every file and field holds what the code can put there.
TypeOK ==
    /\ pairing \in [paired : BOOLEAN, dev : 0..MaxDevices, mode : {"standby", "offline", "finishing"},
                    lastUsed : Nat, srvIds : Nat, srvVer : 0..MaxVersion,
                    period : {"none", "open", "settled"}, settledAt : Nat,
                    told : {"nothing", "re-pair"}]
    /\ copy \in [at : Nat, ver : 0..MaxVersion, has : SUBSET (Numbers \X Ids)]
    /\ work \in [exists : BOOLEAN, dev : 0..MaxDevices, n : Nat, ver : 0..MaxVersion,
                 waiting : SUBSET Ids, sent : SUBSET Ids]
    /\ finished \in Seq([dev : Numbers, n : Nat]) /\ Len(finished) <= FinishedKept
    /\ appVer \in 1..MaxVersion /\ serverVer \in 1..MaxVersion
    /\ mode \in Modes /\ {ready, exiting, net, revoked} \subseteq BOOLEAN
    /\ down \in {"no", "some", "long"}
    /\ devices \in 0..MaxDevices
    /\ stored \in [Numbers -> SUBSET Ids] /\ processed \in [Numbers -> SUBSET Ids]
    /\ drawn \in [Numbers -> [Ids -> Nat]]

\* FR-008a: recorded work is in the working copy until the server stores it,
\* through every switch, crash, re-pairing and update.
WorkKept ==
    \A d \in Numbers : \A n \in Ids : drawn[d][n] > 0 =>
        n \in stored[d] \/ (work.exists /\ work.dev = d /\ n \in work.waiting)

\* FR-012: a PC never draws a row number twice, whichever of its counters a
\* crash left behind.
IdsUsedOnce == \A d \in Numbers : \A n \in Ids : drawn[d][n] <= 1

\* A process in offline or finishing mode has a working copy of its own
\* version to write to, until it relaunches.
ModeHasWork ==
    mode \in {"offline", "finishing"} /\ ~exiting => work.exists /\ work.ver = appVer

\* The PC leaves finishing mode, to standby or back to offline, unless its key
\* is revoked, the network never makes up its mind or the app is restarted for
\* ever.
FinishingEnds ==
    ([]~revoked /\ (<>[]net \/ <>[]~net) /\ <>[][~Restart]_vars) => (mode = "finishing" ~> mode # "finishing")

\* FR-008: "Offline mode MUST be startable on a paired PC": once the server has
\* settled everything of the last period, the PC learns it (settledAt).
PeriodSettles ==
    ([]~revoked /\ <>[]net /\ <>[][~Restart]_vars) =>
        ((pairing.period = "open" /\ mode = "standby") ~> pairing.period # "open")

\* A working copy is that of the PC number the PC is paired under, also when it
\* is re-keyed, updated or unpaired in the 300 ms after going offline: decideBoot
\* never opens the working copy of an unpaired PC, and its rows would be uploaded
\* under another number than the one they were recorded with.
WorkIsOwn == work.exists => pairing.paired /\ work.dev = pairing.dev

\* FR-007: offline mode starts on a copy of the app's own data version, also
\* when the copy was replaced since the boot that found it usable.
StartsOnOwnVersion ==
    [][~work.exists /\ work'.exists => work'.ver = appVer]_vars
=============================================================================
