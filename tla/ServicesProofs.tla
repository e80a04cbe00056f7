---------------------------- MODULE ServicesProofs ----------------------------
(***************************************************************************)
(* Proofs about the DB explorer, for any requests, contents of the row,    *)
(* seconds and writes by the client, about the log capture, for any ring,  *)
(* sink, goroutines and entries, and about journeys, for any points and    *)
(* speeds; and from them what the run of the services checks.              *)
(*                                                                         *)
(* D!BackupInv says why an edit can be undone: from the backup to the      *)
(* write nobody else has written, or the edit is no longer alone; a backup *)
(* is never written over while it is there.  D!RestoreInv says why a       *)
(* restore is effective: who writes the file in between becomes its last   *)
(* writer, and makes a device that was read before out of date; the client *)
(* from before is dropped.  L!OrderInv says why the log is in order: what a goroutine      *)
(* carries is its own, and newer than all it pushed and offered before.    *)
(* J!JourneyInv says where a goroutine is on its way.                      *)
(***************************************************************************)
EXTENDS MCServices, SseBrokerProofs, WellFoundedInduction

(***************************************************************************)
(* Types.                                                                  *)
(***************************************************************************)

(* A request that has not arrived.                                         *)
LEMMA FreshType == D!Fresh \in D!Handlers
<1>1. (CHOOSE v \in Values : TRUE) \in Values /\ 0 \in 0 .. MaxSeconds
  BY ExplorerAssumption
<1> QED
  BY <1>1 DEF D!Fresh, D!Handlers, D!None

(* The explorer starts with one backup, of the file or an older one.       *)
LEMMA InitExplorer == D!Init => D!TypeOK /\ D!BackupInv /\ D!RestoreInv /\ D!RestoreTakesEffect
<1> SUFFICES ASSUME D!Init PROVE D!TypeOK /\ D!BackupInv /\ D!RestoreInv /\ D!RestoreTakesEffect
  OBVIOUS
<1>1. D!Fresh \in D!Handlers
  BY FreshType
<1>2. \A r \in DbRequests : request[r] = D!Fresh
  BY DEF D!Init
<1>3. /\ backups \in [DOMAIN backups -> Values] /\ DOMAIN backups = {0}
  BY DEF D!Init
<1>4. D!TypeOK
  <2>1. file \in D!Contents /\ client = D!Device(file, D!Client)
    BY DEF D!Init, D!Contents
  <2>2. client \in D!Devices
    BY <2>1 DEF D!Device, D!Devices
  <2>3. \A r \in DbRequests : request[r].at # "install"
    <3>1. D!Fresh.at = "new"
      BY DEF D!Fresh
    <3> QED
      BY <1>2, <3>1
  <2>4. /\ open \in BOOLEAN /\ dbMu = D!None /\ strays = {} /\ store = D!Client
        /\ closedStores = {} /\ device = [r \in DbRequests |-> D!NoClient]
        /\ clock = 1 /\ saves = 0 /\ writer = D!Client
        /\ request = [r \in DbRequests |-> D!Fresh]
    BY DEF D!Init
  <2> QED
    BY <1>1, <1>3, <2>1, <2>2, <2>3, <2>4, ExplorerAssumption DEF D!TypeOK, D!Contents
<1>5. /\ \A r \in DbRequests : request[r].at = "new" /\ ~request[r].alone
                              /\ ~device[r].current
      /\ writer \notin DbRequests
  BY <1>2, ExplorerAssumption DEF D!Init, D!Fresh, D!NoClient
<1>6. D!BackupInv /\ D!RestoreInv /\ D!RestoreTakesEffect
  BY <1>5 DEF D!BackupInv, D!RestoreInv, D!RestoreTakesEffect, D!Restoring
<1> QED
  BY <1>4, <1>6

(* A device that is no longer current is still a device.                   *)
LEMMA StaleDevice ==
  ASSUME NEW d \in D!Devices \cup {D!NoClient}
  PROVE  /\ [d EXCEPT !.current = FALSE] \in D!Devices \cup {D!NoClient}
         /\ ~[d EXCEPT !.current = FALSE].current
         /\ [d EXCEPT !.current = FALSE] = D!NoClient => d = D!NoClient
<1>1. CASE d \in D!Devices
  <2>1. d.store # D!None
    BY <1>1, ExplorerAssumption DEF D!Devices, D!None, D!Client
  <2> QED
    BY <1>1, <2>1 DEF D!Devices, D!NoClient
<1>2. CASE d = D!NoClient
  <2>1. [D!NoClient EXCEPT !.current = FALSE] = D!NoClient
    <3>1. [D!NoClient EXCEPT !.current = FALSE] = [D!NoClient EXCEPT !.current = D!NoClient.current]
      BY DEF D!NoClient
    <3> QED
      BY <3>1 DEF D!NoClient
  <2>2. ~D!NoClient.current
    BY DEF D!NoClient
  <2> QED
    BY <1>2, <2>1, <2>2
<1> QED
  BY <1>1, <1>2

(* Whoever writes the file changes no more of other requests than alone,   *)
(* and of a device no more than that it is current.                        *)
LEMMA WroteType ==
  ASSUME NEW who, NEW table \in [DbRequests -> D!Handlers], D!Wrote(who, table), D!TypeOK,
         \A q \in DbRequests : table[q].at = "install" => request[q].at = "install"
  PROVE  /\ writer' = who
         /\ device' \in [DbRequests -> D!Devices \cup {D!NoClient}]
         /\ \A q \in DbRequests : ~device'[q].current
         /\ \A q \in DbRequests : request'[q].at = "install" => device'[q] # D!NoClient
         /\ request' \in [DbRequests -> D!Handlers]
         /\ \A q \in DbRequests : request'[q] = table[q] \/ request'[q] = [table[q] EXCEPT !.alone = FALSE]
         /\ \A q \in DbRequests : q # who /\ table[q].at = "write" => ~request'[q].alone
         /\ \A q \in DbRequests : q = who \/ table[q].at # "write" => request'[q] = table[q]
<1> DEFINE Other(h) == [h EXCEPT !.alone = FALSE]
<1>1. \A h \in D!Handlers : Other(h) \in D!Handlers /\ ~Other(h).alone /\ Other(h).at = h.at
  <2> SUFFICES ASSUME NEW h \in D!Handlers
               PROVE  Other(h) \in D!Handlers /\ ~Other(h).alone /\ Other(h).at = h.at
    OBVIOUS
  <2> QED
    BY DEF D!Handlers
<1>2. \A q \in DbRequests : table[q] \in D!Handlers
  OBVIOUS
<1> HIDE DEF Other
<1>3. /\ request' \in [DbRequests -> D!Handlers]
      /\ \A q \in DbRequests : request'[q] = table[q] \/ request'[q] = Other(table[q])
      /\ \A q \in DbRequests : q # who /\ table[q].at = "write" =>
           request'[q] = Other(table[q])
      /\ \A q \in DbRequests : q = who \/ table[q].at # "write" => request'[q] = table[q]
  BY <1>1, <1>2 DEF D!Wrote, Other
<1>4. writer' = who
  BY DEF D!Wrote
<1>5. /\ device \in [DbRequests -> D!Devices \cup {D!NoClient}]
      /\ device' = [q \in DbRequests |-> [device[q] EXCEPT !.current = FALSE]]
  BY DEF D!Wrote, D!TypeOK
<1>6. \A q \in DbRequests : /\ device'[q] \in D!Devices \cup {D!NoClient} /\ ~device'[q].current
                            /\ device'[q] = D!NoClient => device[q] = D!NoClient
  BY <1>5, StaleDevice
<1>7. device' \in [DbRequests -> D!Devices \cup {D!NoClient}]
  BY <1>5, <1>6
<1>8. \A q \in DbRequests : request'[q].at = table[q].at
  BY <1>1, <1>2, <1>3
<1>9. \A q \in DbRequests : request[q].at = "install" => device[q] # D!NoClient
  BY DEF D!TypeOK
<1>10. \A q \in DbRequests : request'[q].at = "install" => device'[q] # D!NoClient
  BY <1>6, <1>8, <1>9
<1>11. /\ request' \in [DbRequests -> D!Handlers]
       /\ \A q \in DbRequests : request'[q] = table[q] \/ request'[q] = [table[q] EXCEPT !.alone = FALSE]
       /\ \A q \in DbRequests : q # who /\ table[q].at = "write" => ~request'[q].alone
       /\ \A q \in DbRequests : q = who \/ table[q].at # "write" => request'[q] = table[q]
  BY <1>1, <1>2, <1>3, ZenonT(40) DEF Other
<1> QED
  BY <1>4, <1>6, <1>7, <1>10, <1>11

(* All that is known of the explorer.                                      *)
ExplorerInv == D!TypeOK /\ D!BackupInv /\ D!RestoreInv /\ D!RestoreTakesEffect

(* The type of the clients, their containers and the devices read.         *)
ClientsType ==
  /\ client \in D!Devices \cup {D!NoClient} /\ strays \subseteq D!Devices
  /\ store \in DbRequests \cup {D!Client, D!None} /\ closedStores \subseteq DbRequests \cup {D!Client}
  /\ device \in [DbRequests -> D!Devices \cup {D!NoClient}]

(* What holds of the devices and, if it is not the old one, of the client. *)
ClientsFollow ==
  /\ \A q \in DbRequests : device'[q].current => device'[q].holds = file
  /\ client' = client \/ (client'.current => client'.holds = file)

(* A step that changes one request, perhaps the clients, and neither the   *)
(* file nor a backup.                                                      *)
LEMMA OneStep ==
  ASSUME ExplorerInv, NEW r \in DbRequests, NEW new \in D!Handlers,
         request' = [request EXCEPT ![r] = new],
         UNCHANGED <<file, backups, clock, writer, saves>>,
         open' \in BOOLEAN, dbMu' \in DbRequests \cup {D!None},
         ClientsType', ClientsFollow,
         \A q \in DbRequests : request'[q].at = "install" => device'[q] # D!NoClient,
         new.alone => request[r].alone /\ new.at \in {"reconnect", "done"}
                      /\ new.backup = request[r].backup /\ new.over = request[r].over,
         new.does = "restore" => new.at \notin {"backup", "write", "reconnect"},
         writer = r /\ new.does = "restore" /\ new.at \in D!Rebuilding \cup {"reopen"} =>
           file = new.copy,
         writer = r /\ new.does = "restore" /\ new.at \in D!Rebuilding \ {"reinitialize"} =>
           (client'.current => client'.holds = file),
         writer = r /\ new.does = "restore" /\ new.at = "done" /\ new.answer = "ok" =>
           file = new.copy /\ (client'.current => client'.holds = file)
  PROVE  ExplorerInv'
<1>1. /\ request' \in [DbRequests -> D!Handlers] /\ request'[r] = new
      /\ \A q \in DbRequests \ {r} : request'[q] = request[q]
  BY DEF ExplorerInv, D!TypeOK
<1>2. D!TypeOK'
  BY <1>1 DEF ExplorerInv, ClientsType, D!TypeOK
<1>3. D!BackupInv'
  BY <1>1 DEF ExplorerInv, D!BackupInv
<1>4. D!RestoreInv'
  <2>1. \A q \in DbRequests : device'[q].current => device'[q].holds = file'
    BY DEF ClientsFollow
  <2>2. ASSUME NEW q \in DbRequests
        PROVE  /\ request'[q].at \in {"backup", "write", "reconnect"} => request'[q].does # "restore"
               /\ D!Restoring(q, D!Rebuilding \cup {"reopen"})' => file' = request'[q].copy
               /\ D!Restoring(q, D!Rebuilding \ {"reinitialize"})' =>
                    (client'.current => client'.holds = file')
    <3>1. CASE q = r
      BY <1>1, <3>1 DEF D!Restoring
    <3>2. CASE q # r
      <4>1. request'[q] = request[q]
        BY <1>1, <3>2
      <4> QED
        BY <4>1 DEF ExplorerInv, ClientsFollow, D!RestoreInv, D!Restoring
    <3> QED
      BY <3>1, <3>2
  <2> QED
    BY <2>1, <2>2 DEF D!RestoreInv
<1>5. D!RestoreTakesEffect'
  BY <1>1 DEF ExplorerInv, ClientsFollow, D!RestoreTakesEffect
<1> QED
  BY <1>2, <1>3, <1>4, <1>5 DEF ExplorerInv

(* A step that changes one request only, which is not reinitializing, and  *)
(* leaves it neither alone nor restored.                                   *)
LEMMA OneRequest ==
  ASSUME ExplorerInv, NEW r \in DbRequests, NEW new \in D!Handlers,
         request' = [request EXCEPT ![r] = new],
         UNCHANGED <<file, backups, D!stack, device, clock, writer, saves>>,
         open' \in BOOLEAN, dbMu' \in DbRequests \cup {D!None},
         new.alone => request[r].alone /\ new.at \in {"reconnect", "done"}
                      /\ new.backup = request[r].backup /\ new.over = request[r].over,
         new.at \notin D!Rebuilding \ {"reinitialize"},
         new.does = "restore" => new.at \notin {"backup", "write", "reconnect"},
         writer = r /\ new.does = "restore" /\ new.at \in {"reopen", "reinitialize"} =>
           file = new.copy,
         new.does = "restore" /\ new.at = "done" => new.answer # "ok"
  PROVE  ExplorerInv'
<1>1. ClientsType'
  BY DEF ExplorerInv, ClientsType, D!TypeOK, D!stack
<1>2. ClientsFollow
  BY DEF ExplorerInv, ClientsFollow, D!RestoreInv, D!stack
<1>3. request \in [DbRequests -> D!Handlers]
  BY DEF ExplorerInv, D!TypeOK
<1>4. \A q \in DbRequests : request'[q].at = "install" => device'[q] # D!NoClient
  BY <1>3 DEF ExplorerInv, D!TypeOK, D!Rebuilding
<1>5. new.at \in D!Rebuilding \cup {"reopen"} => new.at \in {"reopen", "reinitialize"}
  OBVIOUS
<1> QED
  BY <1>1, <1>2, <1>4, <1>5, OneStep

(* A request arrives.                                                      *)
LEMMA ArriveExplorer ==
  ASSUME ExplorerInv, NEW r \in DbRequests, D!Arrive(r)
  PROVE  ExplorerInv'
<1>1. UNCHANGED <<open, dbMu, file, backups, D!stack, device, clock, writer, saves>>
  BY DEF D!Arrive
<1>2. open \in BOOLEAN /\ dbMu \in DbRequests \cup {D!None}
  BY DEF ExplorerInv, D!TypeOK
<1>3. (CHOOSE v \in Values : TRUE) \in Values
  BY ExplorerAssumption
<1>4. ASSUME NEW does \in {"patch", "delete", "backup"},
             NEW value \in IF does = "patch" THEN Values ELSE {D!Fresh.value},
             request' = [request EXCEPT ![r] =
               [D!Fresh EXCEPT !.at = IF open THEN "backup" ELSE "done", !.does = does,
                               !.value = value, !.answer = "unavailable"]]
      PROVE  ExplorerInv'
  <2> DEFINE new == [D!Fresh EXCEPT !.at = IF open THEN "backup" ELSE "done", !.does = does,
                                    !.value = value, !.answer = "unavailable"]
  <2>1. /\ new \in D!Handlers /\ ~new.alone /\ new.does # "restore"
        /\ new.at \in {"backup", "done"}
    BY FreshType, <1>3, <1>4 DEF D!Handlers, D!Fresh
  <2> HIDE DEF new
  <2>2. request' = [request EXCEPT ![r] = new]
    BY <1>4 DEF new
  <2> QED
    BY <1>1, <1>2, <2>1, <2>2, OneRequest DEF D!Rebuilding
<1>5. ASSUME NEW name \in DOMAIN backups,
             request' = [request EXCEPT ![r] =
               [D!Fresh EXCEPT !.at = IF open THEN "lock" ELSE "done", !.does = "restore",
                               !.name = name, !.answer = "unavailable"]]
      PROVE  ExplorerInv'
  <2> DEFINE new == [D!Fresh EXCEPT !.at = IF open THEN "lock" ELSE "done", !.does = "restore",
                                    !.name = name, !.answer = "unavailable"]
  <2>0. name \in 0 .. MaxSeconds
    BY <1>5 DEF ExplorerInv, D!TypeOK
  <2>1. /\ new \in D!Handlers /\ ~new.alone /\ new.answer = "unavailable"
        /\ new.at \in {"lock", "done"}
    BY FreshType, <2>0 DEF D!Handlers, D!Fresh
  <2> HIDE DEF new
  <2>2. request' = [request EXCEPT ![r] = new]
    BY <1>5 DEF new
  <2> QED
    BY <1>1, <1>2, <2>1, <2>2, OneRequest DEF D!Rebuilding
<1>6. ASSUME NEW full \in BOOLEAN,
             request' = [request EXCEPT ![r] =
               [D!Fresh EXCEPT !.at = IF full THEN "reinitialize" ELSE "reconnect",
                               !.does = "reconnect"]]
      PROVE  ExplorerInv'
  <2> DEFINE new == [D!Fresh EXCEPT !.at = IF full THEN "reinitialize" ELSE "reconnect",
                                    !.does = "reconnect"]
  <2>1. /\ new \in D!Handlers /\ ~new.alone /\ new.does = "reconnect"
        /\ new.at \in {"reinitialize", "reconnect"}
    BY FreshType DEF D!Handlers, D!Fresh, D!Rebuilding
  <2> HIDE DEF new
  <2>2. request' = [request EXCEPT ![r] = new]
    BY <1>6 DEF new
  <2> QED
    BY <1>1, <1>2, <2>1, <2>2, OneRequest DEF D!Rebuilding
<1> QED
  BY <1>4, <1>5, <1>6 DEF D!Arrive

(* A backup is deleted: no edit that has it stays alone.                   *)
LEMMA DeleteExplorer ==
  ASSUME ExplorerInv, NEW r \in DbRequests, D!DeleteBackup(r)
  PROVE  ExplorerInv'
<1>1. UNCHANGED <<open, dbMu, file, D!stack, device, clock, writer, saves>>
  BY DEF D!DeleteBackup
<1>2. PICK name \in DOMAIN backups :
        /\ backups' = [n \in DOMAIN backups \ {name} |-> backups[n]]
        /\ request' = [q \in DbRequests |->
             IF q = r THEN [D!Fresh EXCEPT !.answer = "ok", !.at = "done"]
             ELSE IF request[q].backup = name THEN [request[q] EXCEPT !.alone = FALSE]
             ELSE request[q]]
  BY DEF D!DeleteBackup
<1> DEFINE Other(h) == [h EXCEPT !.alone = FALSE]
           new == [D!Fresh EXCEPT !.answer = "ok", !.at = "done"]
<1>3. /\ new \in D!Handlers /\ ~new.alone /\ new.does = "nothing" /\ new.at = "done"
  BY FreshType DEF D!Fresh, D!Handlers
<1>4. \A h \in D!Handlers : /\ Other(h) \in D!Handlers /\ ~Other(h).alone /\ Other(h).at = h.at
                           /\ Other(h).does = h.does /\ Other(h).answer = h.answer
                           /\ Other(h).copy = h.copy
  <2> SUFFICES ASSUME NEW h \in D!Handlers
               PROVE  /\ Other(h) \in D!Handlers /\ ~Other(h).alone /\ Other(h).at = h.at
                      /\ Other(h).does = h.does /\ Other(h).answer = h.answer
                      /\ Other(h).copy = h.copy
    OBVIOUS
  <2> QED
    BY DEF D!Handlers
<1>5. /\ request'[r] = new
      /\ \A q \in DbRequests \ {r} :
           request'[q] = IF request[q].backup = name THEN Other(request[q]) ELSE request[q]
  BY <1>2
<1>6. request' = [q \in DbRequests |-> request'[q]]
  BY <1>2
<1> HIDE DEF Other, new
<1>7. request \in [DbRequests -> D!Handlers]
  BY DEF ExplorerInv, D!TypeOK
<1>8. request' \in [DbRequests -> D!Handlers]
  BY <1>3, <1>4, <1>5, <1>6, <1>7
<1>9. /\ DOMAIN backups' = DOMAIN backups \ {name}
      /\ \A n \in DOMAIN backups' : backups'[n] = backups[n]
      /\ backups' \in [DOMAIN backups' -> D!Contents] /\ DOMAIN backups' \subseteq 0 .. MaxSeconds
  BY <1>2 DEF ExplorerInv, D!TypeOK
<1>10. D!TypeOK'
  <2>1. \A q \in DbRequests : request'[q].at = "install" => request[q].at = "install"
    BY <1>3, <1>4, <1>5, <1>7
  <2> QED
    BY <1>1, <1>8, <1>9, <2>1 DEF ExplorerInv, D!TypeOK, D!stack
<1>11. D!BackupInv'
  BY <1>1, <1>3, <1>4, <1>5, <1>7, <1>9 DEF ExplorerInv, D!BackupInv
<1>12. D!RestoreInv'
  BY <1>1, <1>3, <1>4, <1>5, <1>7 DEF ExplorerInv, D!RestoreInv, D!Restoring, D!stack
<1>13. D!RestoreTakesEffect'
  BY <1>1, <1>3, <1>4, <1>5, <1>7 DEF ExplorerInv, D!RestoreTakesEffect, D!stack
<1> QED
  BY <1>10, <1>11, <1>12, <1>13 DEF ExplorerInv

(* An answer is the end of a request; only Reinitialize and an edit end    *)
(* with ok what may be a restore.                                          *)
LEMMA AnswerExplorer ==
  ASSUME ExplorerInv, NEW r \in DbRequests,
         NEW answer \in {"ok", "not found", "error", "reconnect failed", "reinitialize failed"},
         D!Answer(r, answer),
         UNCHANGED <<file, backups, D!stack, device, clock, writer, saves>>,
         open' \in BOOLEAN, dbMu' \in DbRequests \cup {D!None},
         request[r].does = "restore" => answer # "ok"
  PROVE  ExplorerInv'
<1> DEFINE new == [request[r] EXCEPT !.answer = answer, !.at = "done"]
<1>1. request[r] \in D!Handlers
  BY DEF ExplorerInv, D!TypeOK
<1>2. /\ new.at = "done" /\ new.answer = answer
      /\ new.alone = request[r].alone /\ new.backup = request[r].backup
      /\ new.over = request[r].over /\ new.does = request[r].does /\ new.value = request[r].value
  BY <1>1 DEF D!Handlers
<1>4. new \in D!Handlers
  BY <1>1 DEF D!Handlers
<1>3. request' = [request EXCEPT ![r] = new]
  BY DEF D!Answer, D!Answered
<1> HIDE DEF new
<1> QED
  BY <1>2, <1>3, <1>4, OneRequest DEF D!Rebuilding

(* dbeCreateBackup: an edit begins alone, with a backup of what there is.  *)
LEMMA BackupExplorer ==
  ASSUME ExplorerInv, NEW r \in DbRequests, D!Backup(r)
  PROVE  ExplorerInv'
<1>1. UNCHANGED <<open, dbMu, file, D!stack, device, clock, writer, saves>>
      /\ request[r].at = "backup"
  BY DEF D!Backup
<1>2. request[r] \in D!Handlers /\ request[r].does # "restore"
  BY <1>1 DEF ExplorerInv, D!TypeOK, D!RestoreInv
<1>3. CASE D!Answer(r, "error") /\ UNCHANGED backups
  <2>1. open' \in BOOLEAN /\ dbMu' \in DbRequests \cup {D!None}
    BY <1>1 DEF ExplorerInv, D!TypeOK
  <2> QED
    BY <1>1, <1>2, <1>3, <2>1, AnswerExplorer
<1>4. CASE /\ file # D!Broken /\ clock \notin DOMAIN backups
           /\ backups' = D!WithBackup /\ request' = D!Saved(r)
  <2>1. file \in D!Contents /\ clock \in 0 .. MaxSeconds
    BY <1>4 DEF ExplorerInv, D!TypeOK
  <2>2. /\ DOMAIN backups' = DOMAIN backups \cup {clock} /\ backups'[clock] = file
        /\ \A n \in DOMAIN backups : backups'[n] = backups[n]
        /\ backups' \in [DOMAIN backups' -> D!Contents] /\ DOMAIN backups' \subseteq 0 .. MaxSeconds
    BY <1>4, <2>1 DEF D!WithBackup, ExplorerInv, D!TypeOK
  <2>3. PICK new \in D!Handlers :
          /\ request' = [request EXCEPT ![r] = new]
          /\ new.does = request[r].does
          /\ \/ new.at = "done" /\ new.alone = request[r].alone /\ new.does = "backup"
             \/ new.at = "write" /\ new.backup = clock /\ new.over = file
    <3>1. CASE request[r].does = "backup"
      <4> DEFINE new == [request[r] EXCEPT !.answer = "ok", !.at = "done"]
      <4>1. /\ new \in D!Handlers /\ new.at = "done" /\ new.alone = request[r].alone
            /\ new.does = "backup"
        BY <1>2, <3>1 DEF D!Handlers
      <4>2. request' = [request EXCEPT ![r] = new]
        BY <1>4, <3>1 DEF D!Saved, D!Answered
      <4> HIDE DEF new
      <4> QED
        BY <3>1, <4>1, <4>2
    <3>2. CASE request[r].does # "backup"
      <4> DEFINE new == [request[r] EXCEPT !.at = "write", !.backup = clock, !.over = file,
                                           !.alone = TRUE]
      <4>1. /\ new \in D!Handlers /\ new.at = "write" /\ new.backup = clock /\ new.over = file
            /\ new.does = request[r].does
        BY <1>2, <2>1 DEF D!Handlers
      <4>2. request' = [request EXCEPT ![r] = new]
        BY <1>4, <3>2 DEF D!Saved
      <4> HIDE DEF new
      <4> QED
        BY <4>1, <4>2
    <3> QED
      BY <3>1, <3>2
  <2>4. /\ request' \in [DbRequests -> D!Handlers] /\ request'[r] = new
        /\ \A q \in DbRequests \ {r} : request'[q] = request[q]
    BY <2>3 DEF ExplorerInv, D!TypeOK
  <2>5. D!TypeOK'
    <3>1. \A q \in DbRequests : request'[q].at = "install" => request[q].at = "install"
      BY <2>3, <2>4
    <3> QED
      BY <1>1, <2>2, <2>4, <3>1 DEF ExplorerInv, D!TypeOK, D!stack
  <2>6. ~request[r].alone
    BY <1>1 DEF ExplorerInv, D!BackupInv
  <2>7. D!BackupInv'
    BY <1>1, <2>2, <2>3, <2>4, <2>6 DEF ExplorerInv, D!BackupInv
  <2>8. D!RestoreInv'
    BY <1>1, <1>2, <2>3, <2>4 DEF ExplorerInv, D!RestoreInv, D!Restoring, D!stack
  <2>9. D!RestoreTakesEffect'
    BY <1>1, <1>2, <2>3, <2>4 DEF ExplorerInv, D!RestoreTakesEffect, D!stack
  <2> QED
    BY <2>5, <2>7, <2>8, <2>9 DEF ExplorerInv
<1> QED
  BY <1>3, <1>4 DEF D!Backup

(* The file is written: who wrote it answers for it, nobody else is alone  *)
(* with what the file was.                                                 *)
LEMMA WroteExplorer ==
  ASSUME ExplorerInv, NEW who \in DbRequests \cup {D!Client},
         NEW table \in [DbRequests -> D!Handlers], D!Wrote(who, table),
         \A q \in DbRequests \ {who} : table[q] = request[q],
         UNCHANGED <<backups, clock>>,
         D!TypeOK', who \in DbRequests => table[who].at \notin D!Rebuilding,
         who \in DbRequests =>
           /\ table[who].alone => /\ request[who].alone /\ table[who].at \in {"reconnect", "done"}
                                 /\ table[who].backup = request[who].backup
                                 /\ table[who].over = request[who].over
           /\ table[who].does = "restore" =>
                /\ table[who].at \notin {"backup", "write", "reconnect"}
                /\ table[who].at = "reopen" => file' = table[who].copy
                /\ table[who].at = "done" => table[who].answer # "ok"
  PROVE  ExplorerInv'
<1> DEFINE Other(h) == [h EXCEPT !.alone = FALSE]
<1>1. \A h \in D!Handlers : /\ ~Other(h).alone /\ Other(h).at = h.at
                           /\ Other(h).does = h.does /\ Other(h).answer = h.answer
                           /\ Other(h).copy = h.copy
  <2> SUFFICES ASSUME NEW h \in D!Handlers
               PROVE  /\ ~Other(h).alone /\ Other(h).at = h.at
                      /\ Other(h).does = h.does /\ Other(h).answer = h.answer
                      /\ Other(h).copy = h.copy
    OBVIOUS
  <2> QED
    BY DEF D!Handlers
<1>0. \A q \in DbRequests : table[q].at = "install" => request[q].at = "install"
  BY DEF D!Rebuilding
<1>2. /\ writer' = who /\ \A q \in DbRequests : ~device'[q].current
      /\ \A q \in DbRequests : request'[q] = table[q] \/ request'[q] = Other(table[q])
      /\ \A q \in DbRequests : q # who /\ table[q].at = "write" => ~request'[q].alone
      /\ \A q \in DbRequests : q = who \/ table[q].at # "write" => request'[q] = table[q]
  BY <1>0, WroteType DEF ExplorerInv
<1> HIDE DEF Other
<1>3. D!BackupInv'
  BY <1>1, <1>2 DEF ExplorerInv, D!BackupInv
<1>4. D!RestoreInv'
  BY <1>1, <1>2 DEF ExplorerInv, D!RestoreInv, D!Restoring
<1>5. D!RestoreTakesEffect'
  BY <1>1, <1>2 DEF ExplorerInv, D!RestoreTakesEffect
<1> QED
  BY <1>3, <1>4, <1>5 DEF ExplorerInv

(* A row edit writes the file, or ends without.                            *)
LEMMA WriteExplorer ==
  ASSUME ExplorerInv, NEW r \in DbRequests, D!Write(r)
  PROVE  ExplorerInv'
<1>1. UNCHANGED <<open, dbMu, backups, D!stack, clock, saves>> /\ request[r].at = "write"
  BY DEF D!Write
<1>2. request[r] \in D!Handlers /\ request[r].does # "restore"
  BY <1>1 DEF ExplorerInv, D!TypeOK, D!RestoreInv
<1>3. open' \in BOOLEAN /\ dbMu' \in DbRequests \cup {D!None}
  BY <1>1 DEF ExplorerInv, D!TypeOK
<1>4. ASSUME NEW answer \in {"error", "not found"}, D!Answer(r, answer), UNCHANGED <<file, device, writer>>
      PROVE  ExplorerInv'
  BY <1>1, <1>2, <1>3, <1>4, AnswerExplorer
<1>5. ASSUME file # D!Broken, NEW reconnect \in BOOLEAN
      PROVE  \E new \in D!Handlers :
               /\ D!Written(r, reconnect, "ok") = [request EXCEPT ![r] = new]
               /\ new.at \in {"reconnect", "done"} /\ new.alone = request[r].alone
               /\ new.backup = request[r].backup /\ new.over = file /\ new.does = request[r].does
  <2> DEFINE new == [request[r] EXCEPT !.at = IF reconnect THEN "reconnect" ELSE "done",
                                       !.answer = "ok", !.over = file]
  <2>1. file \in D!Contents
    BY <1>5 DEF ExplorerInv, D!TypeOK
  <2>2. /\ new \in D!Handlers /\ new.at \in {"reconnect", "done"} /\ new.alone = request[r].alone
        /\ new.backup = request[r].backup /\ new.over = file /\ new.does = request[r].does
    BY <1>2, <2>1 DEF D!Handlers
  <2>3. D!Written(r, reconnect, "ok") = [request EXCEPT ![r] = new]
    BY DEF D!Written
  <2> HIDE DEF new
  <2> QED
    BY <2>2, <2>3
<1>6. request[r].alone => request[r].over = file
  BY <1>1 DEF ExplorerInv, D!BackupInv
<1>7. ASSUME file # D!Broken, NEW reconnect \in BOOLEAN,
             request' = D!Written(r, reconnect, "ok"), UNCHANGED <<file, device, writer>>
      PROVE  ExplorerInv'
  <2>1. PICK new \in D!Handlers :
          /\ D!Written(r, reconnect, "ok") = [request EXCEPT ![r] = new]
          /\ new.at \in {"reconnect", "done"} /\ new.alone = request[r].alone
          /\ new.backup = request[r].backup /\ new.over = file /\ new.does = request[r].does
    BY <1>5, <1>7
  <2> QED
    BY <1>1, <1>2, <1>3, <1>6, <1>7, <2>1, OneRequest DEF D!Rebuilding
<1>8. ASSUME file # D!Broken, NEW reconnect \in BOOLEAN,
             file' = IF request[r].does = "patch" THEN request[r].value ELSE D!NoRow,
             request[r].does = "patch" => request[r].value \in Values,
             D!Wrote(r, D!Written(r, reconnect, "ok"))
      PROVE  ExplorerInv'
  <2>1. PICK new \in D!Handlers :
          /\ D!Written(r, reconnect, "ok") = [request EXCEPT ![r] = new]
          /\ new.at \in {"reconnect", "done"} /\ new.alone = request[r].alone
          /\ new.backup = request[r].backup /\ new.over = file /\ new.does = request[r].does
    BY <1>5, <1>8
  <2> DEFINE table == [request EXCEPT ![r] = new]
  <2>2. /\ table \in [DbRequests -> D!Handlers] /\ table[r] = new
        /\ \A q \in DbRequests \ {r} : table[q] = request[q]
    BY DEF ExplorerInv, D!TypeOK
  <2>3. D!Wrote(r, table)
    BY <1>8, <2>1
  <2> HIDE DEF table
  <2>0. \A q \in DbRequests : table[q].at = "install" => request[q].at = "install"
    BY <2>1, <2>2
  <2>4. /\ writer' = r /\ request' \in [DbRequests -> D!Handlers]
        /\ device' \in [DbRequests -> D!Devices \cup {D!NoClient}]
        /\ \A q \in DbRequests : request'[q].at = "install" => device'[q] # D!NoClient
    BY <2>2, <2>3, <2>0, WroteType DEF ExplorerInv
  <2>5. file' \in D!Contents
    BY <1>8 DEF D!Contents
  <2>6. D!TypeOK'
    BY <1>1, <2>4, <2>5 DEF ExplorerInv, D!TypeOK, D!stack
  <2> QED
    BY <1>1, <1>2, <1>6, <2>1, <2>2, <2>3, <2>6, WroteExplorer DEF D!Rebuilding
<1>9. request[r].does = "patch" => request[r].value \in Values
  BY <1>2 DEF D!Handlers
<1> QED
  BY <1>4, <1>7, <1>8, <1>9 DEF D!Write

(* ForceReconnect answers; it touches nothing else.                        *)
LEMMA ReconnectExplorer ==
  ASSUME ExplorerInv, NEW r \in DbRequests, D!Reconnect(r)
  PROVE  ExplorerInv'
<1>1. UNCHANGED <<open, dbMu, file, backups, D!stack, device, clock, writer, saves>>
      /\ request[r].at = "reconnect"
  BY DEF D!Reconnect
<1>2. open' \in BOOLEAN /\ dbMu' \in DbRequests \cup {D!None} /\ request[r].does # "restore"
  BY <1>1 DEF ExplorerInv, D!TypeOK, D!RestoreInv
<1>3. D!Answer(r, "ok") \/ D!Answer(r, "reconnect failed")
  BY DEF D!Reconnect
<1> QED
  BY <1>1, <1>2, <1>3, AnswerExplorer

(* Steps of a restore that only move it on.                                *)
LEMMA GoesExplorer ==
  ASSUME ExplorerInv, NEW r \in DbRequests,
         NEW step \in {"replace", "reinitialize"}, D!Goes(r, step),
         UNCHANGED <<file, backups, D!stack, device, clock, writer, saves>>,
         open' \in BOOLEAN, dbMu' \in DbRequests \cup {D!None},
         request[r].at \in {"lock", "reopen"},
         step = "reinitialize" => request[r].at = "reopen"
  PROVE  ExplorerInv'
<1> DEFINE new == [request[r] EXCEPT !.at = step]
<1>1. request[r] \in D!Handlers
  BY DEF ExplorerInv, D!TypeOK
<1>2. /\ new.at = step /\ new.copy = request[r].copy
      /\ new.alone = request[r].alone /\ new.does = request[r].does
  BY <1>1 DEF D!Handlers
<1>3. request' = [request EXCEPT ![r] = new]
  BY DEF D!Goes
<1>4. ~request[r].alone
  BY DEF ExplorerInv, D!BackupInv
<1>5. writer = r /\ new.does = "restore" /\ step = "reinitialize" => file = new.copy
  BY <1>2 DEF ExplorerInv, D!RestoreInv, D!Restoring
<1>6. new \in D!Handlers
  BY <1>1 DEF D!Handlers, D!Rebuilding
<1> HIDE DEF new
<1> QED
  BY <1>2, <1>3, <1>4, <1>5, <1>6, OneRequest DEF D!Rebuilding

LEMMA LockExplorer ==
  ASSUME ExplorerInv, NEW r \in DbRequests, D!Lock(r)
  PROVE  ExplorerInv'
BY GoesExplorer DEF D!Lock

LEMMA ReopenExplorer ==
  ASSUME ExplorerInv, NEW r \in DbRequests, D!Reopen(r)
  PROVE  ExplorerInv'
<1>1. dbMu' \in DbRequests \cup {D!None}
  BY DEF D!Reopen, ExplorerInv, D!TypeOK
<1> QED
  BY <1>1, GoesExplorer DEF D!Reopen

(* dbeReplaceFile: the file is what the request says it copied, or the     *)
(* request ends with an error.                                             *)
LEMMA ReplaceExplorer ==
  ASSUME ExplorerInv, NEW r \in DbRequests, D!Replace(r)
  PROVE  ExplorerInv'
<1>1. UNCHANGED <<backups, D!stack, clock, saves>> /\ request[r].at = "replace"
  BY DEF D!Replace
<1>2. request[r] \in D!Handlers /\ ~request[r].alone
  BY <1>1 DEF ExplorerInv, D!TypeOK, D!BackupInv
<1>3. open' \in BOOLEAN /\ dbMu' \in DbRequests \cup {D!None}
  BY DEF D!Replace, D!Unlock, ExplorerInv, D!TypeOK
<1>4. CASE /\ request[r].name \in DOMAIN backups
           /\ file' = backups[request[r].name]
           /\ D!Wrote(r, [request EXCEPT ![r].copy = file', ![r].at = "reopen"])
  <2> DEFINE new == [request[r] EXCEPT !.copy = file', !.at = "reopen"]
             table == [request EXCEPT ![r] = new]
  <2>1. file' \in D!Contents
    BY <1>4 DEF ExplorerInv, D!TypeOK
  <2>2. /\ new \in D!Handlers /\ new.at = "reopen" /\ new.copy = file' /\ ~new.alone
        /\ new.does = request[r].does
    BY <1>2, <2>1 DEF D!Handlers
  <2>3. D!Wrote(r, table)
    BY <1>4
  <2> HIDE DEF new
  <2>4. /\ table \in [DbRequests -> D!Handlers] /\ table[r] = new
        /\ \A q \in DbRequests \ {r} : table[q] = request[q]
    BY <2>2 DEF ExplorerInv, D!TypeOK
  <2> HIDE DEF table
  <2>0. \A q \in DbRequests : table[q].at = "install" => request[q].at = "install"
    BY <2>2, <2>4
  <2>5. /\ writer' = r /\ request' \in [DbRequests -> D!Handlers]
        /\ device' \in [DbRequests -> D!Devices \cup {D!NoClient}]
        /\ \A q \in DbRequests : request'[q].at = "install" => device'[q] # D!NoClient
    BY <2>3, <2>4, <2>0, WroteType DEF ExplorerInv
  <2>6. D!TypeOK'
    BY <1>1, <1>3, <2>1, <2>5 DEF ExplorerInv, D!TypeOK, D!stack
  <2> QED
    BY <1>1, <2>2, <2>3, <2>4, <2>6, WroteExplorer DEF D!Rebuilding
<1>5. CASE /\ file' \in IF request[r].name \in DOMAIN backups THEN {file, D!Broken} ELSE {file}
           /\ D!Wrote(r, D!Answered(r, "error"))
  <2> DEFINE new == [request[r] EXCEPT !.answer = "error", !.at = "done"]
             table == [request EXCEPT ![r] = new]
  <2>1. file' \in D!Contents \cup {D!Broken}
    BY <1>5 DEF ExplorerInv, D!TypeOK
  <2>2. /\ new \in D!Handlers /\ new.at = "done" /\ new.answer = "error" /\ ~new.alone
    BY <1>2 DEF D!Handlers
  <2>3. D!Wrote(r, table)
    BY <1>5 DEF D!Answered
  <2> HIDE DEF new
  <2>4. /\ table \in [DbRequests -> D!Handlers] /\ table[r] = new
        /\ \A q \in DbRequests \ {r} : table[q] = request[q]
    BY <2>2 DEF ExplorerInv, D!TypeOK
  <2> HIDE DEF table
  <2>0. \A q \in DbRequests : table[q].at = "install" => request[q].at = "install"
    BY <2>2, <2>4
  <2>5. /\ writer' = r /\ request' \in [DbRequests -> D!Handlers]
        /\ device' \in [DbRequests -> D!Devices \cup {D!NoClient}]
        /\ \A q \in DbRequests : request'[q].at = "install" => device'[q] # D!NoClient
    BY <2>3, <2>4, <2>0, WroteType DEF ExplorerInv
  <2>6. D!TypeOK'
    BY <1>1, <1>3, <2>1, <2>5 DEF ExplorerInv, D!TypeOK, D!stack
  <2> QED
    BY <1>1, <2>2, <2>3, <2>4, <2>6, WroteExplorer DEF D!Rebuilding
<1> QED
  BY <1>4, <1>5 DEF D!Replace

(* A step of Reinitialize: a restore that is at one has the file that it   *)
(* copied, and goes on with a client that is not from before, or ends.     *)
LEMMA RebuildStep ==
  ASSUME ExplorerInv, NEW r \in DbRequests, request[r].at \in D!Rebuilding,
         UNCHANGED <<open, file, backups, clock, writer, saves>>,
         dbMu' = dbMu \/ D!Unlock, ClientsType', ClientsFollow,
         \A q \in DbRequests \ {r} : device'[q] = device[q],
         request[r].at = "reinitialize" => client' = D!NoClient \/ D!Answer(r, "reinitialize failed"),
         \/ \E answer \in {"ok", "reinitialize failed"} : D!Answer(r, answer)
         \/ \E step \in D!Rebuilding \ {"reinitialize"} :
              D!Goes(r, step) /\ (step = "install" => device'[r] # D!NoClient)
  PROVE  ExplorerInv'
<1>1. request[r] \in D!Handlers /\ request \in [DbRequests -> D!Handlers] /\ ~request[r].alone
  BY DEF ExplorerInv, D!TypeOK, D!BackupInv, D!Rebuilding
<1>2. PICK new \in D!Handlers :
        /\ request' = [request EXCEPT ![r] = new]
        /\ new.does = request[r].does /\ new.copy = request[r].copy /\ ~new.alone
        /\ \/ new.at = "done" /\ new.answer \in {"ok", "reinitialize failed"}
              /\ (D!Answer(r, "reinitialize failed") => new.answer # "ok")
           \/ new.at \in D!Rebuilding \ {"reinitialize"}
              /\ (new.at = "install" => device'[r] # D!NoClient)
              /\ ~D!Answer(r, "reinitialize failed")
  <2>1. ASSUME NEW answer \in {"ok", "reinitialize failed"}, D!Answer(r, answer)
        PROVE  \E new \in D!Handlers :
                 /\ request' = [request EXCEPT ![r] = new]
                 /\ new.does = request[r].does /\ new.copy = request[r].copy /\ ~new.alone
                 /\ new.at = "done" /\ new.answer = answer
    <3> DEFINE new == [request[r] EXCEPT !.answer = answer, !.at = "done"]
    <3>1. /\ new \in D!Handlers /\ new.at = "done" /\ new.answer = answer
          /\ new.does = request[r].does /\ new.copy = request[r].copy /\ ~new.alone
      BY <1>1 DEF D!Handlers
    <3>2. request' = [request EXCEPT ![r] = new]
      BY <2>1 DEF D!Answer, D!Answered
    <3> HIDE DEF new
    <3> QED
      BY <3>1, <3>2
  <2>2. ASSUME NEW step \in D!Rebuilding, D!Goes(r, step)
        PROVE  \E new \in D!Handlers :
                 /\ request' = [request EXCEPT ![r] = new]
                 /\ new.does = request[r].does /\ new.copy = request[r].copy /\ ~new.alone
                 /\ new.at = step
    <3> DEFINE new == [request[r] EXCEPT !.at = step]
    <3>1. /\ new \in D!Handlers /\ new.at = step
          /\ new.does = request[r].does /\ new.copy = request[r].copy /\ ~new.alone
      BY <1>1 DEF D!Handlers
    <3>2. request' = [request EXCEPT ![r] = new]
      BY <2>2 DEF D!Goes
    <3> HIDE DEF new
    <3> QED
      BY <3>1, <3>2
  <2>3. D!Answer(r, "reinitialize failed") =>
          request'[r].at = "done" /\ request'[r].answer = "reinitialize failed"
    <3> DEFINE new == [request[r] EXCEPT !.answer = "reinitialize failed", !.at = "done"]
    <3>1. new.at = "done" /\ new.answer = "reinitialize failed"
      BY <1>1 DEF D!Handlers
    <3>2. D!Answer(r, "reinitialize failed") => request' = [request EXCEPT ![r] = new]
      BY DEF D!Answer, D!Answered
    <3> HIDE DEF new
    <3> QED
      BY <1>1, <3>1, <3>2
  <2>4. \A new : request' = [request EXCEPT ![r] = new] => request'[r] = new
    BY <1>1
  <2>5. "done" \notin D!Rebuilding
    BY DEF D!Rebuilding
  <2>6. CASE \E answer \in {"ok", "reinitialize failed"} : D!Answer(r, answer)
    <3>1. PICK answer \in {"ok", "reinitialize failed"} : D!Answer(r, answer)
      BY <2>6
    <3>2. PICK new \in D!Handlers :
            /\ request' = [request EXCEPT ![r] = new]
            /\ new.does = request[r].does /\ new.copy = request[r].copy /\ ~new.alone
            /\ new.at = "done" /\ new.answer = answer
      BY <2>1, <3>1
    <3>3. request'[r] = new
      BY <2>4, <3>2
    <3> QED
      BY <2>3, <3>2, <3>3
  <2>7. CASE \E step \in D!Rebuilding \ {"reinitialize"} :
               D!Goes(r, step) /\ (step = "install" => device'[r] # D!NoClient)
    <3>1. PICK step \in D!Rebuilding \ {"reinitialize"} :
            D!Goes(r, step) /\ (step = "install" => device'[r] # D!NoClient)
      BY <2>7
    <3>2. PICK new \in D!Handlers :
            /\ request' = [request EXCEPT ![r] = new]
            /\ new.does = request[r].does /\ new.copy = request[r].copy /\ ~new.alone
            /\ new.at = step
      BY <2>2, <3>1
    <3>3. request'[r] = new
      BY <2>4, <3>2
    <3> QED
      BY <2>3, <2>5, <3>1, <3>2, <3>3
  <2> QED
    BY <2>6, <2>7
<1>3. request'[r] = new /\ \A q \in DbRequests \ {r} : request'[q] = request[q]
  BY <1>1, <1>2
<1>4. \A q \in DbRequests : request'[q].at = "install" => device'[q] # D!NoClient
  <2>1. "done" # "install"
    OBVIOUS
  <2>2. \A q \in DbRequests : request[q].at = "install" => device[q] # D!NoClient
    BY DEF ExplorerInv, D!TypeOK
  <2> QED
    BY <1>2, <1>3, <2>1, <2>2
<1>5. open' \in BOOLEAN /\ dbMu' \in DbRequests \cup {D!None}
  BY DEF ExplorerInv, D!TypeOK, D!Unlock
<1>6. ASSUME writer = r, new.does = "restore"
      PROVE  /\ file = new.copy
             /\ \/ client'.current => client'.holds = file
                \/ new.at = "done" /\ new.answer # "ok"
  <2>1. D!Restoring(r, D!Rebuilding \cup {"reopen"}) /\ file = new.copy
    BY <1>2, <1>6 DEF ExplorerInv, D!RestoreInv, D!Restoring
  <2>2. CASE request[r].at # "reinitialize"
    <3>1. D!Restoring(r, D!Rebuilding \ {"reinitialize"})
      BY <1>2, <1>6, <2>2 DEF D!Restoring
    <3> QED
      BY <2>1, <3>1 DEF ExplorerInv, D!RestoreInv, ClientsFollow
  <2>3. CASE client' = D!NoClient
    BY <2>1, <2>3 DEF D!NoClient
  <2>4. CASE D!Answer(r, "reinitialize failed")
    BY <1>2, <2>1, <2>4
  <2> QED
    BY <2>2, <2>3, <2>4
<1>7. new.at \notin {"backup", "write", "reconnect"}
  BY <1>2 DEF D!Rebuilding
<1>8. "done" \notin D!Rebuilding /\ "done" # "reopen"
  BY DEF D!Rebuilding
<1> QED
  BY <1>2, <1>4, <1>5, <1>6, <1>7, <1>8, OneStep

(* Who had the client, and what containers and devices are, by type.       *)
LEMMA ClientsNow ==
  ASSUME ExplorerInv
  PROVE  /\ ClientsType
         /\ \A q \in DbRequests : device[q].current => device[q].holds = file
         /\ D!Stray \subseteq D!Devices
<1>1. ClientsType
  BY DEF ExplorerInv, D!TypeOK, ClientsType
<1> QED
  BY <1>1 DEF ExplorerInv, D!RestoreInv, ClientsType, D!Stray, D!CanWrite

(* The steps by name.                                                      *)
LEMMA RebuildingSteps ==
  /\ "reinitialize" \in D!Rebuilding
  /\ {"close", "forget", "create", "load", "install", "connect"} = D!Rebuilding \ {"reinitialize"}
BY DEF D!Rebuilding

LEMMA DropExplorer ==
  ASSUME ExplorerInv, NEW r \in DbRequests, D!DropClient(r)
  PROVE  ExplorerInv'
<1>1. /\ UNCHANGED <<open, dbMu, file, backups, store, closedStores, device, clock, writer, saves>>
      /\ request[r].at = "reinitialize" /\ client' = D!NoClient /\ D!Goes(r, "close")
      /\ strays' \in {strays, strays \cup D!Stray}
  BY DEF D!DropClient
<1>2. ClientsType'
  BY <1>1, ClientsNow DEF ClientsType
<1>3. ClientsFollow
  BY <1>1, ClientsNow DEF ClientsFollow, D!NoClient
<1> QED
  BY <1>1, <1>2, <1>3, RebuildingSteps, RebuildStep

LEMMA CloseExplorer ==
  ASSUME ExplorerInv, NEW r \in DbRequests, D!CloseStore(r)
  PROVE  ExplorerInv'
<1>1. /\ UNCHANGED <<open, dbMu, file, backups, client, store, device, clock, writer, saves>>
      /\ request[r].at = "close" /\ closedStores' = closedStores \cup ({store} \ {D!None})
      /\ strays' \subseteq strays
  BY DEF D!CloseStore
<1>2. ClientsType' /\ ClientsFollow
  BY <1>1, ClientsNow DEF ClientsType, ClientsFollow
<1>3. \E step \in {"create", "forget"} : D!Goes(r, step)
  BY DEF D!CloseStore
<1>4. {"create", "forget"} \subseteq D!Rebuilding \ {"reinitialize", "install"}
  BY DEF D!Rebuilding
<1>5. request[r].at \in D!Rebuilding \ {"reinitialize"}
  BY <1>1 DEF D!Rebuilding
<1> QED
  BY <1>1, <1>2, <1>3, <1>4, <1>5, RebuildStep

LEMMA ForgetExplorer ==
  ASSUME ExplorerInv, NEW r \in DbRequests, D!ForgetStore(r)
  PROVE  ExplorerInv'
<1>1. /\ UNCHANGED <<open, dbMu, file, backups, client, strays, closedStores, device, clock, writer, saves>>
      /\ request[r].at = "forget" /\ store' = D!None /\ D!Goes(r, "create")
  BY DEF D!ForgetStore
<1>2. ClientsType' /\ ClientsFollow
  BY <1>1, ClientsNow DEF ClientsType, ClientsFollow
<1> QED
  BY <1>1, <1>2, RebuildingSteps, RebuildStep

LEMMA CreateExplorer ==
  ASSUME ExplorerInv, NEW r \in DbRequests, D!CreateStore(r)
  PROVE  ExplorerInv'
<1>1. /\ UNCHANGED <<open, file, backups, client, strays, closedStores, device, clock, writer, saves>>
      /\ request[r].at = "create" /\ store' \in {r, D!None} /\ (dbMu' = dbMu \/ D!Unlock)
      /\ D!Goes(r, "load") \/ D!Answer(r, "reinitialize failed")
  BY DEF D!CreateStore, D!ReinitializeFails, D!Unlocks
<1>2. ClientsType' /\ ClientsFollow
  BY <1>1, ClientsNow DEF ClientsType, ClientsFollow
<1> QED
  BY <1>1, <1>2, RebuildingSteps, RebuildStep

(* A device that is read is what the file is.                              *)
LEMMA LoadExplorer ==
  ASSUME ExplorerInv, NEW r \in DbRequests, D!LoadDevice(r)
  PROVE  ExplorerInv'
<1>1. /\ UNCHANGED <<open, file, backups, D!stack, clock, writer, saves>> /\ request[r].at = "load"
  BY DEF D!LoadDevice
<1>2. device \in [DbRequests -> D!Devices \cup {D!NoClient}]
  BY ClientsNow DEF ClientsType
<1>3. CASE D!ReinitializeFails(r) /\ UNCHANGED device
  <2>1. ClientsType' /\ ClientsFollow
    BY <1>1, <1>3, ClientsNow DEF ClientsType, ClientsFollow, D!stack
  <2> QED
    BY <1>1, <1>3, <2>1, RebuildStep DEF D!Rebuilding, D!ReinitializeFails, D!Unlocks
<1>4. CASE /\ store \notin closedStores \cup {D!None} /\ file # D!Broken
           /\ device' = [device EXCEPT ![r] = D!Device(file, store)]
           /\ D!Goes(r, "install") /\ UNCHANGED dbMu
  <2>1. /\ file \in D!Contents /\ store \in DbRequests \cup {D!Client}
    BY <1>4 DEF ExplorerInv, D!TypeOK
  <2>2. /\ D!Device(file, store) \in D!Devices /\ D!Device(file, store).holds = file
        /\ D!Device(file, store) # D!NoClient
    BY <1>4, <2>1 DEF D!Device, D!Devices, D!NoClient
  <2>3. /\ device' \in [DbRequests -> D!Devices \cup {D!NoClient}]
        /\ device'[r] = D!Device(file, store)
        /\ \A q \in DbRequests \ {r} : device'[q] = device[q]
    BY <1>2, <1>4, <2>2
  <2>4. ClientsType' /\ ClientsFollow
    BY <1>1, <2>2, <2>3, ClientsNow DEF ClientsType, ClientsFollow, D!stack
  <2>5. "install" \in D!Rebuilding \ {"reinitialize"} /\ request[r].at \in D!Rebuilding \ {"reinitialize"}
    BY <1>1 DEF D!Rebuilding
  <2> QED
    BY <1>1, <1>4, <2>2, <2>3, <2>4, <2>5, RebuildStep
<1> QED
  BY <1>3, <1>4 DEF D!LoadDevice

(* A client made of a device nobody wrote over is what the file is.        *)
LEMMA InstallExplorer ==
  ASSUME ExplorerInv, NEW r \in DbRequests, D!InstallClient(r)
  PROVE  ExplorerInv'
<1>1. /\ UNCHANGED <<open, dbMu, file, backups, store, closedStores, clock, writer, saves>>
      /\ request[r].at = "install" /\ client' = device[r] /\ strays' = strays \cup D!Stray
      /\ device' = [device EXCEPT ![r] = D!NoClient] /\ D!Goes(r, "connect")
  BY DEF D!InstallClient
<1>2. device \in [DbRequests -> D!Devices \cup {D!NoClient}]
  BY ClientsNow DEF ClientsType
<1>3. /\ device' \in [DbRequests -> D!Devices \cup {D!NoClient}] /\ device'[r] = D!NoClient
      /\ \A q \in DbRequests \ {r} : device'[q] = device[q]
  BY <1>1, <1>2
<1>4. ClientsType'
  BY <1>1, <1>2, <1>3, ClientsNow DEF ClientsType
<1>5. ClientsFollow
  BY <1>1, <1>3, ClientsNow DEF ClientsFollow, D!NoClient
<1> QED
  BY <1>1, <1>3, <1>4, <1>5, RebuildingSteps, RebuildStep

LEMMA ConnectExplorer ==
  ASSUME ExplorerInv, NEW r \in DbRequests, D!ConnectClient(r)
  PROVE  ExplorerInv'
<1>1. /\ UNCHANGED <<open, file, backups, D!stack, device, clock, writer, saves>>
      /\ request[r].at = "connect" /\ (dbMu' = dbMu \/ D!Unlock)
      /\ D!Answer(r, "ok") \/ D!Answer(r, "reinitialize failed")
  BY DEF D!ConnectClient, D!ReinitializeFails, D!Unlocks
<1>2. ClientsType' /\ ClientsFollow
  BY <1>1, ClientsNow DEF ClientsType, ClientsFollow, D!stack
<1> QED
  BY <1>1, <1>2, RebuildingSteps, RebuildStep

LEMMA ReinitializeExplorer ==
  ASSUME ExplorerInv, NEW r \in DbRequests, D!Reinitialize(r)
  PROVE  ExplorerInv'
BY DropExplorer, CloseExplorer, ForgetExplorer, CreateExplorer, LoadExplorer, InstallExplorer,
   ConnectExplorer DEF D!Reinitialize

(* A client writes what it holds over what the file holds.                 *)
LEMMA ClientExplorer == ExplorerInv /\ D!ClientSaves => ExplorerInv'
<1> SUFFICES ASSUME ExplorerInv, D!ClientSaves PROVE ExplorerInv'
  OBVIOUS
<1>1. /\ UNCHANGED <<open, dbMu, backups, store, closedStores, clock>>
      /\ saves' = saves + 1 /\ saves < MaxSaves /\ D!Wrote(D!Client, request)
  BY DEF D!ClientSaves
<1>2. PICK v \in Values :
        /\ file' = v
        /\ \/ /\ D!CanWrite(client) /\ client' = [client EXCEPT !.holds = v] /\ UNCHANGED strays
           \/ \E c \in strays : /\ strays' = (strays \ {c}) \cup {[c EXCEPT !.holds = v]}
                               /\ UNCHANGED client
  BY DEF D!ClientSaves
<1>3. request \in [DbRequests -> D!Handlers] /\ D!TypeOK /\ ClientsType
  BY ClientsNow DEF ExplorerInv, D!TypeOK
<1>4. /\ writer' = D!Client /\ request' \in [DbRequests -> D!Handlers]
      /\ device' \in [DbRequests -> D!Devices \cup {D!NoClient}]
      /\ \A q \in DbRequests : request'[q].at = "install" => device'[q] # D!NoClient
  BY <1>1, <1>3, WroteType
<1>5. saves' \in 0 .. MaxSaves
  BY <1>1, ExplorerAssumption DEF ExplorerInv, D!TypeOK
<1>6. \A c \in D!Devices : [c EXCEPT !.holds = v] \in D!Devices
  BY DEF D!Devices, D!Contents
<1>7. client' \in D!Devices \cup {D!NoClient} /\ strays' \subseteq D!Devices
  BY <1>2, <1>3, <1>6 DEF ClientsType, D!CanWrite
<1>8. D!TypeOK'
  BY <1>1, <1>2, <1>4, <1>5, <1>7 DEF ExplorerInv, D!TypeOK, D!Contents
<1> QED
  BY <1>1, <1>3, <1>8, WroteExplorer, ExplorerAssumption

LEMMA TickExplorer == ExplorerInv /\ D!Tick => ExplorerInv'
<1> SUFFICES ASSUME ExplorerInv, D!Tick PROVE ExplorerInv'
  OBVIOUS
<1>1. /\ UNCHANGED <<open, dbMu, file, backups, client, strays, store, closedStores, device, request,
                      writer, saves>>
      /\ clock' \in 1 .. MaxSeconds
  BY ExplorerAssumption DEF D!Tick, ExplorerInv, D!TypeOK, D!stack
<1> QED
  BY <1>1 DEF ExplorerInv, D!TypeOK, D!BackupInv, D!RestoreInv, D!Restoring, D!RestoreTakesEffect

(* Every step keeps what is known of the explorer.                         *)
LEMMA NextExplorer == ExplorerInv /\ [D!Next]_dbVars => ExplorerInv'
<1> SUFFICES ASSUME ExplorerInv, [D!Next]_dbVars PROVE ExplorerInv'
  OBVIOUS
<1>1. CASE UNCHANGED dbVars
  BY <1>1 DEF dbVars, ExplorerInv, D!TypeOK, D!BackupInv, D!RestoreInv, D!Restoring, D!RestoreTakesEffect
<1>2. ASSUME NEW r \in DbRequests, D!Serve(r) PROVE ExplorerInv'
  BY <1>2, BackupExplorer, WriteExplorer, ReconnectExplorer, LockExplorer, ReplaceExplorer,
     ReopenExplorer, ReinitializeExplorer DEF D!Serve
<1>3. ASSUME NEW r \in DbRequests, D!Arrive(r) \/ D!DeleteBackup(r) PROVE ExplorerInv'
  BY <1>3, ArriveExplorer, DeleteExplorer
<1> QED
  BY <1>1, <1>2, <1>3, ClientExplorer, TickExplorer DEF D!Next

(***************************************************************************)
(* The explorer among the services.                                        *)
(***************************************************************************)

(* A step of the services is one of the explorer or leaves it alone.       *)
LEMMA ExplorerSteps == [ServicesNext]_allVars => [D!Next]_dbVars
  BY DEF ServicesNext, allVars, dbVars

LEMMA ExplorerAlways == ServicesSpec => []ExplorerInv
<1>1. ServicesInit => ExplorerInv
  BY InitExplorer DEF ServicesInit, ExplorerInv
<1>2. ExplorerInv /\ [ServicesNext]_allVars => ExplorerInv'
  BY ExplorerSteps, NextExplorer
<1> QED
  BY <1>1, <1>2, PTL DEF ServicesSpec

(* dbeCreateBackup: until its backup is deleted, what an edit wrote over   *)
(* can be restored, whoever edits, restores, deletes and writes meanwhile. *)
THEOREM EditsHaveBackups == ServicesSpec => []EditHasBackup
<1>1. ExplorerInv => EditHasBackup
  BY DEF ExplorerInv, D!BackupInv, EditHasBackup, D!EditHasBackup, D!Restorable
<1> QED
  BY <1>1, ExplorerAlways, PTL

(* postDBRestore: a restore that was answered ok is in the file, until     *)
(* somebody else writes, and in whatever client there is that was made of  *)
(* a device read since: however the steps of overlapping Reinitializes     *)
(* interleave, the session from before can come back only with a full      *)
(* reconnect that had read it before the file was replaced.                *)
THEOREM RestoresTakeEffect == ServicesSpec => []RestoreTakesEffect
<1>1. ExplorerInv => RestoreTakesEffect
  BY DEF ExplorerInv, RestoreTakesEffect
<1> QED
  BY <1>1, ExplorerAlways, PTL

(***************************************************************************)
(* The ring of the log, for rings of any size and any number of writers.   *)
(***************************************************************************)
(* The ring is an array with a next slot and a count within its size, and  *)
(* a goroutine that is about to push holds an entry.                       *)
RingInv ==
  /\ captureSeq \in Nat
  /\ slots \in [0 .. RingSize - 1 -> L!Entries \cup {L!Nothing}]
  /\ head \in 0 .. RingSize - 1 /\ count \in 0 .. RingSize
  /\ logger \in [Writers -> {L!Quiet} \cup [step : {"push", "offer"}, entry : L!Entries]]

(***************************************************************************)
(* Places in the ring.                                                     *)
(***************************************************************************)
(* A sum below the size stays, one below twice the size wraps once.        *)
LEMMA ModRing ==
  ASSUME NEW n \in Nat \ {0}, NEW a \in 0 .. 2 * n - 1
  PROVE  a % n = IF a < n THEN a ELSE a - n
<1>1. CASE a < n
  BY <1>1, SMT
<1>2. CASE a >= n
  <2>1. (a - n) \in 0 .. n - 1 /\ a = (a - n) + n
    BY <1>2, SMT
  <2> QED BY <1>2, <2>1, SMT
<1> QED BY <1>1, <1>2, SMT

(* Min of FiniteSetsExt, of two integers.                                  *)
LEMMA MinOfTwo ==
  ASSUME NEW a \in Int, NEW b \in Int
  PROVE  L!Min({a, b}) = IF a <= b THEN a ELSE b
<1>1. \A x \in {a, b} : (\A y \in {a, b} : x <= y) <=> x = IF a <= b THEN a ELSE b
  BY SMT
<1> QED BY <1>1, Zenon DEF L!Min

(* Max of FiniteSetsExt, as RecentLog uses it.                             *)
LEMMA MaxOfTwo ==
  ASSUME NEW a \in Int, NEW b \in Int
  PROVE  L!Recent!Max({a, b}) = IF a >= b THEN a ELSE b
<1>1. \A x \in {a, b} : (\A y \in {a, b} : x >= y) <=> x = IF a >= b THEN a ELSE b
  BY SMT
<1> QED BY <1>1, Zenon DEF L!Recent!Max

(* Where the i-th of the c newest entries is, when h is the next slot.     *)
Place(h, c, i) == IF h - c + i - 1 >= 0 THEN h - c + i - 1 ELSE h - c + i - 1 + RingSize

LEMMA SlotOfEntry ==
  ASSUME RingSize \in Nat \ {0},
         NEW h \in 0 .. RingSize - 1, NEW c \in 0 .. RingSize, NEW i \in 1 .. c
  PROVE  (((h - c + RingSize) % RingSize) + i - 1) % RingSize = Place(h, c, i)
<1> DEFINE start == IF h - c + RingSize < RingSize THEN h - c + RingSize ELSE h - c
<1>1. (h - c + RingSize) % RingSize = start
  <2>1. h - c + RingSize \in 0 .. 2 * RingSize - 1
    BY SMT
  <2> QED BY <2>1, ModRing, SMT
<1>2. PICK a \in 0 .. 2 * RingSize - 1 : a = start + i - 1
  BY SMT
<1>3. a % RingSize = IF a < RingSize THEN a ELSE a - RingSize
  BY ModRing
<1>4. (IF a < RingSize THEN a ELSE a - RingSize) = Place(h, c, i)
  BY <1>2, SMT DEF Place
<1> HIDE DEF start
<1> QED BY <1>1, <1>2, <1>3, <1>4, Zenon

(* What a reader is shown, place by place.                                 *)
LEMMA SnapshotByPlace ==
  ASSUME RingSize \in Nat \ {0}, RingInv
  PROVE  L!Snapshot = [i \in 1 .. count |-> slots[Place(head, count, i)]]
<1>1. \A i \in 1 .. count :
        (((head - count + RingSize) % RingSize) + i - 1) % RingSize = Place(head, count, i)
  BY SlotOfEntry, Zenon DEF RingInv
<1> QED BY <1>1, Zenon DEF L!Snapshot

LEMMA SnapshotNext ==
  ASSUME RingSize \in Nat \ {0}, RingInv'
  PROVE  L!Snapshot' = [i \in 1 .. count' |-> slots'[Place(head', count', i)]]
<1>1. \A i \in 1 .. count' :
        (((head' - count' + RingSize) % RingSize) + i - 1) % RingSize = Place(head', count', i)
  BY SlotOfEntry, Zenon DEF RingInv
<1> QED BY <1>1, Zenon DEF L!Snapshot

(***************************************************************************)
(* The invariant.                                                          *)
(***************************************************************************)
LEMMA InitRing == RingSize \in Nat \ {0} /\ L!Init => RingInv
BY SMT DEF L!Init, RingInv

(* Push moves the next slot on, and the count as long as there is room.    *)
LEMMA PushMoves ==
  ASSUME RingSize \in Nat \ {0}, RingInv, NEW w \in Writers, L!Push(w)
  PROVE  /\ logger[w].entry \in L!Entries
         /\ head' = IF head + 1 < RingSize THEN head + 1 ELSE 0
         /\ count' = IF count < RingSize THEN count + 1 ELSE RingSize
<1>1. logger[w].entry \in L!Entries
  BY DEF RingInv, L!Push, L!Quiet
<1>2. head + 1 \in 0 .. 2 * RingSize - 1 /\ head + 1 <= RingSize
  BY SMT DEF RingInv
<1>3. (head + 1) % RingSize = IF head + 1 < RingSize THEN head + 1 ELSE 0
  BY <1>2, ModRing, SMT
<1>4. L!Min({count + 1, RingSize}) = IF count + 1 <= RingSize THEN count + 1 ELSE RingSize
  BY MinOfTwo, SMT DEF RingInv
<1>5. head' = (head + 1) % RingSize /\ count' = L!Min({count + 1, RingSize})
  BY Zenon DEF L!Push
<1>6. count \in 0 .. RingSize
  BY DEF RingInv
<1>7. count' = IF count < RingSize THEN count + 1 ELSE RingSize
  BY <1>4, <1>5, <1>6, SMT
<1> QED BY <1>1, <1>3, <1>5, <1>7, Zenon

LEMMA NextRing ==
  ASSUME RingSize \in Nat \ {0}, MaxEntries \in Nat, RingInv, [L!Next]_(L!vars)
  PROVE  RingInv'
<1>1. ASSUME NEW w \in Writers, L!Number(w) PROVE RingInv'
  <2>1. PICK level \in Levels :
          logger' = [logger EXCEPT ![w] =
            [step |-> "push", entry |-> [seq |-> captureSeq', by |-> w, level |-> level]]]
    BY <1>1 DEF L!Number
  <2>2. [seq |-> captureSeq', by |-> w, level |-> level] \in L!Entries
    BY <1>1, SMT DEF L!Number, RingInv, L!Entries
  <2> QED BY <1>1, <2>1, <2>2, SMT DEF L!Number, RingInv
<1>2. ASSUME NEW w \in Writers, L!Push(w) PROVE RingInv'
  <2>1. head' \in 0 .. RingSize - 1 /\ count' \in 0 .. RingSize
    BY <1>2, PushMoves, SMT DEF RingInv
  <2>2. slots' \in [0 .. RingSize - 1 -> L!Entries \cup {L!Nothing}]
    BY <1>2, PushMoves, Zenon DEF RingInv, L!Push
  <2>3. logger' \in [Writers -> {L!Quiet} \cup [step : {"push", "offer"}, entry : L!Entries]]
    BY <1>2 DEF RingInv, L!Push, L!Quiet
  <2> QED BY <1>2, <2>1, <2>2, <2>3 DEF RingInv, L!Push
<1>3. ASSUME NEW w \in Writers, L!Offer(w) PROVE RingInv'
  BY <1>3 DEF L!Offer, RingInv
<1>4. ASSUME L!Receive \/ L!Persist \/ UNCHANGED L!vars PROVE RingInv'
  BY <1>4 DEF L!Receive, L!Persist, L!vars, RingInv
<1>5. ASSUME L!Restart PROVE RingInv'
  BY <1>5, SMT DEF L!Restart, RingInv
<1> QED BY <1>1, <1>2, <1>3, <1>4, <1>5 DEF L!Next

(***************************************************************************)
(* The refinement.                                                         *)
(***************************************************************************)
(* The entries stay in their places when one is pushed, or move up by one  *)
(* when the ring is full; the new one is in the slot that was next.        *)
LEMMA PlacesStay ==
  ASSUME RingSize \in Nat \ {0},
         NEW h \in 0 .. RingSize - 1, NEW n \in 0 .. RingSize - 1,
         n = IF h + 1 < RingSize THEN h + 1 ELSE 0,
         NEW c \in 0 .. RingSize - 1
  PROVE  /\ Place(n, c + 1, c + 1) = h
         /\ \A i \in 1 .. c :
              /\ Place(n, c + 1, i) = Place(h, c, i)
              /\ Place(h, c, i) \in 0 .. RingSize - 1 /\ Place(h, c, i) # h
BY SMT DEF Place

LEMMA PlacesMoveUp ==
  ASSUME RingSize \in Nat \ {0},
         NEW h \in 0 .. RingSize - 1, NEW n \in 0 .. RingSize - 1,
         n = IF h + 1 < RingSize THEN h + 1 ELSE 0
  PROVE  /\ Place(n, RingSize, RingSize) = h
         /\ \A i \in 1 .. RingSize - 1 :
              /\ Place(n, RingSize, i) = Place(h, RingSize, i + 1)
              /\ Place(n, RingSize, i) \in 0 .. RingSize - 1 /\ Place(n, RingSize, i) # h
BY SMT DEF Place

(* A ring that is not full shows one entry more.                           *)
LEMMA PushAppends ==
  ASSUME RingSize \in Nat \ {0}, RingInv, RingInv', NEW w \in Writers, L!Push(w),
         count < RingSize
  PROVE  L!Snapshot' = Append(L!Snapshot, logger[w].entry)
<1> DEFINE e == logger[w].entry
<1>1. L!Snapshot = [i \in 1 .. count |-> slots[Place(head, count, i)]]
  BY SnapshotByPlace
<1>2. L!Snapshot' = [i \in 1 .. count + 1 |-> slots'[Place(head', count + 1, i)]]
  BY SnapshotNext, PushMoves
<1>3. slots' = [slots EXCEPT ![head] = e] /\ slots \in [0 .. RingSize - 1 -> L!Entries \cup {L!Nothing}]
  BY DEF L!Push, RingInv
<1>4. /\ Place(head', count + 1, count + 1) = head
      /\ \A i \in 1 .. count :
           /\ Place(head', count + 1, i) = Place(head, count, i)
           /\ Place(head, count, i) \in 0 .. RingSize - 1 /\ Place(head, count, i) # head
  <2>1. /\ head' \in 0 .. RingSize - 1 /\ head \in 0 .. RingSize - 1
        /\ count \in 0 .. RingSize - 1
    BY SMT DEF RingInv
  <2> QED BY <2>1, PushMoves, PlacesStay
<1>5. count \in Nat /\ head \in 0 .. RingSize - 1
  BY DEF RingInv
<1>6. \A i \in 1 .. count : slots'[Place(head', count + 1, i)] = slots[Place(head, count, i)]
  BY <1>3, <1>4
<1>7. slots'[Place(head', count + 1, count + 1)] = e
  BY <1>3, <1>4, <1>5
<1> QED BY <1>1, <1>2, <1>5, <1>6, <1>7, SMT

(* A full ring shows it instead of the oldest.                             *)
LEMMA PushEvicts ==
  ASSUME RingSize \in Nat \ {0}, RingInv, RingInv', NEW w \in Writers, L!Push(w),
         count = RingSize
  PROVE  L!Snapshot' = SubSeq(Append(L!Snapshot, logger[w].entry), 2, RingSize + 1)
<1> DEFINE e == logger[w].entry
<1>1. L!Snapshot = [i \in 1 .. RingSize |-> slots[Place(head, RingSize, i)]]
  BY SnapshotByPlace
<1>2. L!Snapshot' = [i \in 1 .. RingSize |-> slots'[Place(head', RingSize, i)]]
  BY SnapshotNext, PushMoves
<1>3. slots' = [slots EXCEPT ![head] = e] /\ slots \in [0 .. RingSize - 1 -> L!Entries \cup {L!Nothing}]
  BY DEF L!Push, RingInv
<1>4. head' \in 0 .. RingSize - 1 /\ head \in 0 .. RingSize - 1
  BY DEF RingInv
<1>5. /\ Place(head', RingSize, RingSize) = head
      /\ \A i \in 1 .. RingSize - 1 :
           /\ Place(head', RingSize, i) = Place(head, RingSize, i + 1)
           /\ Place(head', RingSize, i) \in 0 .. RingSize - 1 /\ Place(head', RingSize, i) # head
  BY <1>4, PushMoves, PlacesMoveUp
<1>6. \A i \in 1 .. RingSize - 1 :
        slots'[Place(head', RingSize, i)] = slots[Place(head, RingSize, i + 1)]
  BY <1>3, <1>5
<1>7. slots'[Place(head', RingSize, RingSize)] = e
  BY <1>3, <1>4, <1>5
<1> QED BY <1>1, <1>2, <1>6, <1>7, SMT

LEMMA StepImplements ==
  ASSUME RingSize \in Nat \ {0}, RingInv, RingInv', [L!Next]_(L!vars)
  PROVE  [L!Recent!Log \/ L!Recent!Clear]_(L!Snapshot)
<1>1. ASSUME NEW w \in Writers, L!Push(w) PROVE L!Recent!Log
  <2> DEFINE next == Append(L!Snapshot, logger[w].entry)
  <2>1. logger[w].entry \in L!Entries
    BY <1>1, PushMoves
  <2>2. Len(next) = count + 1
    BY SnapshotByPlace, SMT DEF RingInv
  <2>3. L!Recent!Max({1, Len(next) - RingSize + 1}) =
          IF count < RingSize THEN 1 ELSE count + 1 - RingSize + 1
    <3> HIDE DEF next
    <3>1. PICK b \in Int : b = Len(next) - RingSize + 1
      BY <2>2, SMT DEF RingInv
    <3>2. L!Recent!Max({1, b}) = IF 1 >= b THEN 1 ELSE b
      BY MaxOfTwo
    <3>3. (IF 1 >= b THEN 1 ELSE b) = IF count < RingSize THEN 1 ELSE count + 1 - RingSize + 1
      BY <2>2, <3>1, SMT DEF RingInv
    <3> QED BY <3>1, <3>2, <3>3, Zenon
  <2>4. CASE count < RingSize
    <3>1. SubSeq(next, 1, Len(next)) = next
      BY <2>2, SnapshotByPlace, SMT DEF RingInv
    <3>2. L!Snapshot' = next
      BY <1>1, <2>4, PushAppends
    <3> HIDE DEF next
    <3>3. L!Snapshot' = SubSeq(next, L!Recent!Max({1, Len(next) - RingSize + 1}), Len(next))
      BY <2>3, <2>4, <3>1, <3>2, Zenon
    <3> QED BY <2>1, <3>3, Zenon DEF L!Recent!Log, L!Recent!Newest, next
  <2>5. CASE count = RingSize
    <3>1. L!Snapshot' = SubSeq(next, 2, RingSize + 1)
      BY <1>1, <2>5, PushEvicts
    <3>2. ~(count < RingSize) /\ count + 1 - RingSize + 1 = 2
      BY <2>5, SMT
    <3> HIDE DEF next
    <3>3. L!Snapshot' = SubSeq(next, L!Recent!Max({1, Len(next) - RingSize + 1}), Len(next))
      BY <2>2, <2>3, <2>5, <3>1, <3>2, Zenon
    <3> QED BY <2>1, <3>3, Zenon DEF L!Recent!Log, L!Recent!Newest, next
  <2> QED
    <3>1. count < RingSize \/ count = RingSize
      BY SMT DEF RingInv
    <3> QED BY <2>4, <2>5, <3>1
<1>2. ASSUME L!Restart PROVE L!Recent!Clear
  <2>1. count' = 0
    BY <1>2 DEF L!Restart
  <2>2. L!Snapshot' = [i \in 1 .. 0 |-> slots'[Place(head', 0, i)]]
    BY <2>1, SnapshotNext
  <2> QED BY <2>2, SMT DEF L!Recent!Clear
<1>3. ASSUME UNCHANGED <<slots, head, count>> PROVE L!Snapshot' = L!Snapshot
  BY <1>3, Zenon DEF L!Snapshot
<1>4. ASSUME NEW w \in Writers, L!Number(w) \/ L!Offer(w) PROVE UNCHANGED <<slots, head, count>>
  BY <1>4 DEF L!Number, L!Offer
<1>5. ASSUME L!Receive \/ L!Persist \/ UNCHANGED L!vars PROVE UNCHANGED <<slots, head, count>>
  BY <1>5 DEF L!Receive, L!Persist, L!vars
<1> QED BY <1>1, <1>2, <1>3, <1>4, <1>5, Zenon DEF L!Next

LEMMA InitImplements == RingSize \in Nat \ {0} /\ L!Init => L!Recent!Init
<1> SUFFICES ASSUME RingSize \in Nat \ {0}, L!Init PROVE L!Recent!Init
  OBVIOUS
<1>1. RingInv /\ count = 0
  BY InitRing DEF L!Init
<1>2. L!Snapshot = [i \in 1 .. 0 |-> slots[Place(head, 0, i)]]
  BY <1>1, SnapshotByPlace
<1> QED BY <1>2, SMT DEF L!Recent!Init

(***************************************************************************)
(* Sequences of entries.                                                   *)
(***************************************************************************)

(* The entries of a set have numbers.                                      *)
Numbered(S) == \A e \in S : e.seq \in Nat

(* A sequence in the order of its goroutines stays so when a newer entry is *)
(* appended,                                                               *)
LEMMA AppendAscends ==
  ASSUME NEW S, Numbered(S), NEW s \in Seq(S), NEW e \in S,
         L!Ascending(s), L!Newer(e, L!Range(s))
  PROVE  /\ Append(s, e) \in Seq(S)
         /\ L!Ascending(Append(s, e))
         /\ L!Range(Append(s, e)) = L!Range(s) \cup {e}
<1> DEFINE t == Append(s, e)
<1>1. /\ t \in Seq(S) /\ Len(t) = Len(s) + 1 /\ Len(s) \in Nat
      /\ DOMAIN t = 1 .. Len(s) + 1 /\ DOMAIN s = 1 .. Len(s)
      /\ \A i \in 1 .. Len(s) : t[i] = s[i] /\ s[i] \in S
      /\ t[Len(s) + 1] = e
  BY SMT
<1> HIDE DEF t
<1>2. \A i \in 1 .. Len(s) : s[i] \in L!Range(s)
  BY <1>1 DEF L!Range
<1>3. L!Ascending(t)
  <2> SUFFICES ASSUME NEW i \in 1 .. Len(s) + 1, NEW j \in 1 .. Len(s) + 1,
                      i < j, t[i].by = t[j].by
               PROVE  t[i].seq < t[j].seq
    BY <1>1, Zenon DEF L!Ascending
  <2>0. i \in 1 .. Len(s) /\ (j \in 1 .. Len(s) \/ j = Len(s) + 1)
    BY <1>1, SMT
  <2>1. CASE j = Len(s) + 1
    BY <1>1, <1>2, <2>0, <2>1, Zenon DEF L!Newer
  <2>2. CASE j \in 1 .. Len(s)
    BY <1>1, <2>0, <2>2, Zenon DEF L!Ascending
  <2> QED BY <2>0, <2>1, <2>2
<1>4. L!Range(t) = L!Range(s) \cup {e}
  <2>1. 1 .. Len(s) + 1 = 1 .. Len(s) \cup {Len(s) + 1}
    BY <1>1, SMT
  <2>2. L!Range(t) = {t[i] : i \in 1 .. Len(s) + 1} /\ L!Range(s) = {s[i] : i \in 1 .. Len(s)}
    BY <1>1, Zenon DEF L!Range
  <2>3. \A x \in L!Range(t) : x \in L!Range(s) \cup {e}
    BY <1>1, <2>1, <2>2, Zenon
  <2>4. \A x \in L!Range(s) : x \in L!Range(t)
    BY <1>1, <2>1, <2>2, Zenon
  <2>5. e \in L!Range(t)
    BY <1>1, <2>1, <2>2, Zenon
  <2> QED BY <2>3, <2>4, <2>5, Zenon
<1> QED BY <1>1, <1>3, <1>4, Zenon DEF t

(* when the first entry goes,                                              *)
LEMMA RestAscends ==
  ASSUME NEW S, NEW s \in Seq(S), L!Ascending(s), NEW n \in Nat, Len(s) = n + 1
  PROVE  /\ SubSeq(s, 2, n + 1) \in Seq(S)
         /\ L!Ascending(SubSeq(s, 2, n + 1))
         /\ L!Range(SubSeq(s, 2, n + 1)) \subseteq L!Range(s)
<1> DEFINE t == SubSeq(s, 2, n + 1)
<1>1. /\ t \in Seq(S) /\ DOMAIN t = 1 .. n /\ DOMAIN s = 1 .. n + 1
      /\ \A i \in 1 .. n : t[i] = s[i + 1]
  BY SMT
<1> HIDE DEF t
<1>2. \A i \in 1 .. n : i + 1 \in 1 .. n + 1
  BY SMT
<1>3. L!Ascending(t)
  <2> SUFFICES ASSUME NEW i \in 1 .. n, NEW j \in 1 .. n, i < j, t[i].by = t[j].by
               PROVE  t[i].seq < t[j].seq
    BY <1>1, Zenon DEF L!Ascending
  <2>1. i + 1 < j + 1
    BY SMT
  <2> QED BY <1>1, <1>2, <2>1, Zenon DEF L!Ascending
<1>4. L!Range(t) \subseteq L!Range(s)
  BY <1>1, <1>2, Zenon DEF L!Range
<1> QED BY <1>1, <1>3, <1>4, Zenon DEF t

(* and when one in the middle does; and that one was in it only once.      *)
LEMMA PassedOver ==
  ASSUME NEW S, Numbered(S), NEW f \in Seq(S), NEW k \in Seq(S), NEW c \in S,
         L!Ascending(f \o <<c>> \o k)
  PROVE  /\ L!Ascending(f \o k)
         /\ c \notin L!Range(f \o k)
         /\ L!Range(f \o <<c>> \o k) = L!Range(f \o k) \cup {c}
<1> DEFINE s == f \o <<c>> \o k
           t == f \o k
           m == Len(f)
           n == Len(k)
           up(i) == IF i <= m THEN i ELSE i + 1
<1>1. /\ m \in Nat /\ n \in Nat
      /\ DOMAIN t = 1 .. m + n /\ DOMAIN s = 1 .. m + n + 1
      /\ s[m + 1] = c
      /\ \A i \in 1 .. m + n : t[i] \in S
  BY SMT
<1>2. \A i \in 1 .. m + n : up(i) \in 1 .. m + n + 1 /\ up(i) # m + 1
  BY <1>1, SMT
<1>3. \A i \in 1 .. m + n : t[i] = s[up(i)]
  BY <1>1, SMT
<1>4. \A i, j \in 1 .. m + n : i < j => up(i) < up(j)
  BY <1>1, SMT
<1>5. \A h \in 1 .. m + n + 1 : h # m + 1 => \E i \in 1 .. m + n : up(i) = h
  <2> SUFFICES ASSUME NEW h \in 1 .. m + n + 1, h # m + 1
               PROVE  \E i \in 1 .. m + n : up(i) = h
    OBVIOUS
  <2>1. CASE h <= m
    BY <1>1, <2>1, SMT
  <2>2. CASE h > m + 1
    <3>1. h - 1 \in 1 .. m + n /\ up(h - 1) = h
      BY <1>1, <2>2, SMT
    <3> QED BY <3>1
  <2> QED BY <1>1, <2>1, <2>2, SMT
<1>6. \A i \in 1 .. m + n : up(i) < m + 1 \/ m + 1 < up(i)
  BY <1>1, SMT
<1>7. m + 1 \in 1 .. m + n + 1
  BY <1>1, SMT
<1> HIDE DEF s, t, m, n, up
<1>8. L!Ascending(t)
  BY <1>1, <1>2, <1>3, <1>4, Zenon DEF L!Ascending, s
<1>9. c \notin L!Range(t)
  <2> SUFFICES ASSUME NEW i \in 1 .. m + n, t[i] = c PROVE FALSE
    BY <1>1, Zenon DEF L!Range
  <2>1. s[up(i)] = c /\ s[m + 1] = c /\ c.seq \in Nat
    BY <1>1, <1>3 DEF Numbered
  <2>2. ~(c.seq < c.seq)
    BY <2>1, SMT
  <2>3. L!Ascending(s)
    BY Zenon DEF s
  <2> QED BY <1>1, <1>2, <1>6, <1>7, <2>1, <2>2, <2>3, Zenon DEF L!Ascending
<1>10. L!Range(s) = L!Range(t) \cup {c}
  <2>1. L!Range(s) = {s[h] : h \in 1 .. m + n + 1} /\ L!Range(t) = {t[i] : i \in 1 .. m + n}
    BY <1>1, Zenon DEF L!Range
  <2>2. \A h \in 1 .. m + n + 1 : s[h] \in L!Range(t) \cup {c}
    BY <1>1, <1>3, <1>5, <2>1, Zenon
  <2>3. \A i \in 1 .. m + n : t[i] \in L!Range(s)
    BY <1>2, <1>3, <2>1, Zenon
  <2>4. c \in L!Range(s)
    BY <1>1, <1>7, <2>1, Zenon
  <2> QED BY <2>1, <2>2, <2>3, <2>4, Zenon
<1> QED BY <1>8, <1>9, <1>10, Zenon DEF s, t

(***************************************************************************)
(* The order of the entries in the ring and in the collection.             *)
(***************************************************************************)

(* What every state of the log satisfies.                                  *)
LogInv == L!TypeOK /\ L!WritersOrder /\ L!OrderInv

(* The types contain what the ring needs.                                  *)
LEMMA TypeHasRing == L!TypeOK => RingInv
BY LogAssumption, SMT DEF L!TypeOK, RingInv

(* Every step keeps the types.                                             *)
LEMMA StepTypes == L!TypeOK /\ [L!Next]_(L!vars) => L!TypeOK'
<1> SUFFICES ASSUME L!TypeOK, [L!Next]_(L!vars) PROVE L!TypeOK'
  OBVIOUS
<1>1. RingInv /\ RingInv'
  BY TypeHasRing, NextRing, LogAssumption
<1> DEFINE Rest == /\ captureSeq \in 0 .. MaxEntries /\ restarts \in 0 .. MaxRestarts
                   /\ sink \in Seq(L!Entries) /\ Len(sink) <= SinkSize
                   /\ frames \in Seq(L!Entries) /\ dropped \subseteq L!Entries
                   /\ consumer \in L!Entries \cup {L!Nothing}
<1>2. Rest
  BY DEF L!TypeOK
<1>3. ASSUME NEW w \in Writers, L!Number(w) PROVE Rest'
  BY <1>2, <1>3, LogAssumption, SMT DEF L!Number
<1>4. ASSUME NEW w \in Writers, L!Push(w) PROVE Rest'
  BY <1>2, <1>4 DEF L!Push
<1>5. ASSUME NEW w \in Writers, L!Offer(w) PROVE Rest'
  <2>1. logger[w].entry \in L!Entries
    BY <1>1, <1>5 DEF RingInv, L!Offer, L!Quiet
  <2> QED BY <1>2, <1>5, <2>1, LogAssumption, SMT DEF L!Offer
<1>6. ASSUME L!Receive PROVE Rest'
  BY <1>2, <1>6, LogAssumption, SMT DEF L!Receive
<1>7. ASSUME L!Persist PROVE Rest'
  <2>1. consumer \in L!Entries
    BY <1>2, <1>7 DEF L!Persist
  <2>2. frames' \in Seq(L!Entries) /\ dropped' \subseteq L!Entries
    <3>1. Append(frames, consumer) \in Seq(L!Entries)
      BY <1>2, <2>1
    <3>2. dropped \cup {consumer} \subseteq L!Entries
      BY <1>2, <2>1
    <3> QED BY <1>2, <1>7, <3>1, <3>2, Zenon DEF L!Persist
  <2> QED BY <1>2, <1>7, <2>2, Zenon DEF L!Persist
<1>8. ASSUME L!Restart PROVE Rest'
  BY <1>2, <1>8, LogAssumption, SMT DEF L!Restart
<1>9. ASSUME UNCHANGED L!vars PROVE Rest'
  BY <1>2, <1>9 DEF L!vars
<1>10. Rest'
  BY <1>3, <1>4, <1>5, <1>6, <1>7, <1>8, <1>9, Zenon DEF L!Next
<1> QED BY <1>1, <1>10 DEF RingInv, L!TypeOK

(* What a place of the ring may hold.                                      *)
Shown == L!Entries \cup {L!Nothing}

(* The snapshot is a sequence of as many as the ring counts,               *)
LEMMA SnapshotTyped == 
  ASSUME RingInv
  PROVE  L!Snapshot \in Seq(Shown) /\ Len(L!Snapshot) = count
<1>1. L!Snapshot = [i \in 1 .. count |-> slots[Place(head, count, i)]]
  BY SnapshotByPlace, LogAssumption
<1>2. \A i \in 1 .. count : Place(head, count, i) \in 0 .. RingSize - 1
  BY LogAssumption, SMT DEF RingInv, Place
<1> QED BY <1>1, <1>2, SMT DEF RingInv, Shown

(* Entries have numbers, and so has a place without one.                   *)
LEMMA AllNumbered == Numbered(L!Entries) /\ Numbered(Shown)
BY LogAssumption, SMT DEF Numbered, Shown, L!Entries, L!Nothing

(* A push of a newer entry keeps the snapshot in order, and adds no other. *)
LEMMA PushShows ==
  ASSUME RingInv, RingInv', NEW w \in Writers, L!Push(w),
         L!Ascending(L!Snapshot), L!Newer(logger[w].entry, L!Range(L!Snapshot))
  PROVE  /\ L!Ascending(L!Snapshot')
         /\ L!Range(L!Snapshot') \subseteq L!Range(L!Snapshot) \cup {logger[w].entry}
<1> DEFINE e == logger[w].entry
           s == L!Snapshot
           t == Append(s, e)
<1>1. e \in Shown
  BY PushMoves, LogAssumption DEF Shown
<1>2. s \in Seq(Shown) /\ Len(s) = count
  BY SnapshotTyped
<1>3. t \in Seq(Shown) /\ L!Ascending(t) /\ L!Range(t) = L!Range(s) \cup {e}
  BY <1>1, <1>2, AllNumbered, AppendAscends
<1>4. CASE count < RingSize
  <2>1. L!Snapshot' = t
    BY <1>4, PushAppends, LogAssumption
  <2> QED BY <1>3, <2>1
<1>5. CASE count = RingSize
  <2>1. L!Snapshot' = SubSeq(t, 2, RingSize + 1)
    BY <1>5, PushEvicts, LogAssumption
  <2>2. Len(t) = RingSize + 1
    BY <1>2, <1>5, SMT
  <2> HIDE DEF t, s, e
  <2>3. /\ L!Ascending(SubSeq(t, 2, RingSize + 1))
        /\ L!Range(SubSeq(t, 2, RingSize + 1)) \subseteq L!Range(t)
    BY <1>3, <2>2, RestAscends, LogAssumption
  <2> QED BY <1>3, <2>1, <2>3 DEF t, s, e
<1>6. count < RingSize \/ count = RingSize
  BY LogAssumption, SMT DEF RingInv
<1> QED BY <1>4, <1>5, <1>6

(* What the steps below are to keep, besides the types.                    *)
OrderHolds == L!WritersOrder /\ L!OrderInv

(* and what is stored, held and in the sink is a sequence of entries.      *)
LEMMA StreamTyped ==
  ASSUME L!TypeOK
  PROVE  /\ L!Held \in Seq(L!Entries) /\ L!Stream \in Seq(L!Entries)
         /\ L!Range(L!Stream) \subseteq L!Entries
<1>1. L!Held \in Seq(L!Entries)
  BY DEF L!TypeOK, L!Held
<1>2. frames \in Seq(L!Entries) /\ sink \in Seq(L!Entries)
  BY DEF L!TypeOK
<1>3. L!Stream \in Seq(L!Entries)
  BY <1>1, <1>2, SMT DEF L!Stream
<1>4. \A i \in DOMAIN L!Stream : L!Stream[i] \in L!Entries
  BY <1>3, SMT
<1> QED BY <1>1, <1>3, <1>4, Zenon DEF L!Range

(* of what places may hold,                                                *)
LEMMA ShownTyped ==
  ASSUME L!TypeOK
  PROVE  L!Range(L!Snapshot) \subseteq Shown
<1>1. L!Snapshot \in Seq(Shown)
  BY TypeHasRing, SnapshotTyped
<1>2. \A i \in DOMAIN L!Snapshot : L!Snapshot[i] \in Shown
  BY <1>1, SMT
<1> QED BY <1>2, Zenon DEF L!Range

(* A goroutine on its way to the ring or the sink holds an entry.          *)
LEMMA InHand ==
  ASSUME L!TypeOK, NEW w \in L!Ahead
  PROVE  w \in Writers /\ logger[w].entry \in L!Entries /\ logger[w].step \in {"push", "offer"}
BY DEF L!TypeOK, L!Ahead, L!Quiet

(* All numbers in sight are numbers.                                       *)
LEMMA AllCounted ==
  ASSUME L!TypeOK
  PROVE  /\ captureSeq \in Nat
         /\ \A e \in L!Range(L!Snapshot) \cup L!Range(L!Stream) \cup dropped : e.seq \in Nat
         /\ \A w \in L!Ahead : logger[w].entry.seq \in Nat
<1>1. captureSeq \in Nat /\ dropped \subseteq L!Entries
  BY LogAssumption, SMT DEF L!TypeOK
<1> QED BY <1>1, AllNumbered, StreamTyped, ShownTyped, InHand, Zenon DEF Numbered, Shown

(* A new number is above all that were given.                              *)
LEMMA NumberOrder ==
  ASSUME LogInv, NEW w \in Writers, L!Number(w)
  PROVE  OrderHolds'
<1>1. PICK e : /\ e.seq = captureSeq + 1 /\ e.by = w
               /\ logger' = [logger EXCEPT ![w] = [step |-> "push", entry |-> e]]
  <2>1. PICK level \in Levels :
          logger' = [logger EXCEPT ![w] =
            [step |-> "push", entry |-> [seq |-> captureSeq', by |-> w, level |-> level]]]
    BY DEF L!Number
  <2> QED BY <2>1 DEF L!Number
<1>2. UNCHANGED <<L!Snapshot, L!Stream, dropped>>
  BY Zenon DEF L!Number, L!Snapshot, L!Stream, L!Held
<1>3. w \notin L!Ahead /\ logger \in [Writers -> {L!Quiet} \cup [step : {"push", "offer"}, entry : L!Entries]]
  BY DEF L!Number, L!Ahead, L!Quiet, LogInv, L!TypeOK
<1>4. /\ L!Ahead' = L!Ahead \cup {w}
      /\ logger'[w].entry = e /\ logger'[w].step = "push"
      /\ \A v \in Writers \ {w} : logger'[v] = logger[v]
  BY <1>1, <1>3 DEF L!Ahead
<1>5. captureSeq' = captureSeq + 1
  BY DEF L!Number
<1>6. /\ captureSeq \in Nat
      /\ \A f \in L!Range(L!Snapshot) \cup L!Range(L!Stream) \cup dropped : f.seq \in Nat
      /\ \A v \in L!Ahead : logger[v].entry.seq \in Nat
  BY AllCounted DEF LogInv
<1>7. \A n \in Nat : n <= captureSeq => n <= captureSeq + 1 /\ n < captureSeq + 1
  BY <1>6, SMT
<1>8. L!WritersOrder' 
  <2> DEFINE H == {logger[v].entry : v \in L!Ahead}
  <2>1. \A x \in H : x \in H'
    <3>1. L!Ahead \subseteq Writers
      BY DEF L!Ahead
    <3>2. \A v \in L!Ahead : v \in L!Ahead' /\ logger'[v].entry = logger[v].entry
      BY <1>3, <1>4, <3>1, Zenon
    <3> QED BY <3>2, Zenon
  <2>2. L!WritersOrder
    BY DEF LogInv
  <2> QED BY <1>2, <2>1, <2>2, Zenon DEF L!WritersOrder
<1>9. L!OrderInv'
  <2>1. \A f \in L!Range(L!Snapshot) \cup L!Range(L!Stream) \cup dropped : f.seq <= captureSeq
    BY Zenon DEF LogInv, L!OrderInv
  <2>2. \A f \in L!Range(L!Snapshot) \cup L!Range(L!Stream) \cup dropped : f.seq <= captureSeq + 1 /\ f.seq < captureSeq + 1
    BY <1>6, <1>7, <2>1, Zenon
  <2>3. \A f \in (L!Range(L!Snapshot) \cup L!Range(L!Stream) \cup dropped)' : f.seq <= captureSeq'
    BY <1>2, <1>5, <2>2, Zenon
  <2>4. ASSUME NEW v \in L!Ahead'
        PROVE  /\ logger'[v].entry.by = v /\ logger'[v].entry.seq <= captureSeq'
               /\ L!Newer(logger'[v].entry, (L!Range(L!Stream) \cup dropped)')
               /\ logger'[v].step = "push" => L!Newer(logger'[v].entry, (L!Range(L!Snapshot))')
    <3>1. CASE v = w
      <4>1. captureSeq + 1 <= captureSeq + 1
        BY <1>6, SMT
      <4> QED BY <1>1, <1>2, <1>4, <1>5, <2>2, <3>1, <4>1, Zenon DEF L!Newer
    <3>2. CASE v # w
      <4>1. v \in L!Ahead /\ logger'[v] = logger[v]
        BY <1>4, <3>2, Zenon DEF L!Ahead
      <4>2. /\ logger[v].entry.by = v /\ logger[v].entry.seq <= captureSeq
            /\ L!Newer(logger[v].entry, L!Range(L!Stream) \cup dropped)
            /\ logger[v].step = "push" => L!Newer(logger[v].entry, L!Range(L!Snapshot))
        BY <4>1, Zenon DEF LogInv, L!OrderInv
      <4> QED BY <1>2, <1>5, <1>6, <1>7, <4>1, <4>2, Zenon
    <3> QED BY <3>1, <3>2
  <2> QED BY <2>3, <2>4, Zenon DEF L!OrderInv
<1> QED BY <1>8, <1>9 DEF OrderHolds

(* The pushed entry is the goroutine's newest, in the ring too.            *)
LEMMA PushOrder ==
  ASSUME LogInv, NEW w \in Writers, L!Push(w)
  PROVE  OrderHolds'
<1> DEFINE e == logger[w].entry
<1>1. w \in L!Ahead /\ logger[w].step = "push"
  BY DEF L!Push, L!Ahead
<1>2. UNCHANGED <<captureSeq, L!Stream, dropped>>
  BY Zenon DEF L!Push, L!Stream, L!Held
<1>3. \A v \in L!Ahead :
        /\ logger[v].entry.by = v /\ logger[v].entry.seq <= captureSeq
        /\ L!Newer(logger[v].entry, L!Range(L!Stream) \cup dropped)
        /\ logger[v].step = "push" => L!Newer(logger[v].entry, L!Range(L!Snapshot))
  BY Zenon DEF LogInv, L!OrderInv
<1>4. /\ L!Ascending(L!Snapshot')
      /\ L!Range(L!Snapshot') \subseteq L!Range(L!Snapshot) \cup {e}
  <2>1. RingInv /\ RingInv'
    BY TypeHasRing, NextRing, LogAssumption, Zenon DEF LogInv, L!Next
  <2>2. L!Ascending(L!Snapshot)
    BY DEF LogInv, L!WritersOrder
  <2> QED BY <1>1, <1>3, <2>1, <2>2, PushShows
<1>5. /\ \A v \in L!Ahead : v # w => v \in L!Ahead' /\ logger'[v].entry = logger[v].entry
      /\ \A v \in L!Ahead' : /\ v \in L!Ahead /\ logger'[v].entry = logger[v].entry
                             /\ logger'[v].step = "push" => v # w /\ logger[v].step = "push"
      /\ e.level # "DEBUG" => w \in L!Ahead' /\ logger'[w].entry = e
  <2>1. logger \in [Writers -> {L!Quiet} \cup [step : {"push", "offer"}, entry : L!Entries]]
    BY DEF LogInv, L!TypeOK
  <2>2. /\ logger' \in [Writers -> {L!Quiet} \cup [step : {"push", "offer"}, entry : L!Entries]]
        /\ \A v \in Writers \ {w} : logger'[v] = logger[v]
        /\ logger'[w] = IF e.level = "DEBUG" THEN L!Quiet ELSE [logger[w] EXCEPT !.step = "offer"]
    BY <2>1, StepTypes DEF LogInv, L!TypeOK, L!Push, L!Next
  <2>3. e.level # "DEBUG" => logger'[w].step = "offer" /\ logger'[w].entry = e
    <3>1. PICK f \in L!Entries : logger[w] = [step |-> "push", entry |-> f]
      BY <1>1, <2>1 DEF L!Quiet
    <3> QED BY <2>2, <3>1
  <2>4. e.level = "DEBUG" => logger'[w].step = "quiet"
    BY <2>2 DEF L!Quiet
  <2> HIDE DEF e
  <2>5. \A v : /\ v \in L!Ahead <=> v \in Writers /\ logger[v].step \in {"push", "offer"}
               /\ v \in L!Ahead' <=> v \in Writers /\ logger'[v].step \in {"push", "offer"}
    BY Zenon DEF L!Ahead
  <2>6. ASSUME NEW v \in L!Ahead, v # w PROVE v \in L!Ahead' /\ logger'[v].entry = logger[v].entry
    BY <2>2, <2>5, <2>6, Zenon
  <2>7. e.level # "DEBUG" => w \in L!Ahead' /\ logger'[w].entry = e
    BY <2>3, <2>5, Zenon
  <2>8. ASSUME NEW v \in L!Ahead'
        PROVE  /\ v \in L!Ahead /\ logger'[v].entry = logger[v].entry
               /\ logger'[v].step = "push" => v # w /\ logger[v].step = "push"
    <3>1. CASE v = w
      <4>1. e.level # "DEBUG"
        BY <2>4, <2>5, <3>1
      <4> QED BY <1>1, <2>3, <3>1, <4>1 DEF e
    <3>2. CASE v # w
      BY <2>2, <2>5, <3>2, Zenon
    <3> QED BY <3>1, <3>2
  <2> QED BY <2>6, <2>7, <2>8, Zenon
<1> HIDE DEF e
<1>6. L!WritersOrder'
  <2>1. ASSUME NEW x \in L!Range(L!Snapshot'), x.level # "DEBUG"
        PROVE  x \in L!Range(L!Stream) \cup dropped \cup {logger'[v].entry : v \in L!Ahead'}
    <3>1. CASE x = e
      BY <1>5, <2>1, <3>1, Zenon
    <3>2. CASE x # e
      <4>1. x \in L!Range(L!Stream) \cup dropped \cup {logger[v].entry : v \in L!Ahead}
        BY <1>4, <2>1, <3>2, Zenon DEF LogInv, L!WritersOrder
      <4>2. x \in {logger[v].entry : v \in L!Ahead} => x \in {logger'[v].entry : v \in L!Ahead'}
        BY <1>5, <3>2, Zenon DEF e
      <4> QED BY <4>1, <4>2, Zenon
    <3> QED BY <3>1, <3>2
  <2>2. L!Ascending(L!Stream) /\ L!Range(L!Stream) \cap dropped = {}
    BY Zenon DEF LogInv, L!WritersOrder
  <2> QED BY <1>2, <1>4, <2>1, <2>2, Zenon DEF L!WritersOrder
<1>7. L!OrderInv'
  <2>1. \A f \in (L!Range(L!Snapshot) \cup L!Range(L!Stream) \cup dropped)' : f.seq <= captureSeq'
    BY <1>1, <1>2, <1>3, <1>4, Zenon DEF LogInv, L!OrderInv, e
  <2>2. ASSUME NEW v \in L!Ahead'
        PROVE  /\ logger'[v].entry.by = v /\ logger'[v].entry.seq <= captureSeq'
               /\ L!Newer(logger'[v].entry, (L!Range(L!Stream) \cup dropped)')
               /\ logger'[v].step = "push" => L!Newer(logger'[v].entry, (L!Range(L!Snapshot))')
    <3>1. logger'[v].step = "push" => L!Newer(logger[v].entry, L!Range(L!Snapshot'))
      <4> SUFFICES ASSUME logger'[v].step = "push" PROVE L!Newer(logger[v].entry, L!Range(L!Snapshot'))
        OBVIOUS
      <4>1. e.by = w /\ logger[v].entry.by = v /\ v # w
        BY <1>1, <1>3, <1>5, Zenon DEF e
      <4>2. L!Newer(logger[v].entry, L!Range(L!Snapshot))
        BY <1>3, <1>5, Zenon
      <4> QED BY <1>4, <4>1, <4>2, Zenon DEF L!Newer
    <3> QED BY <1>2, <1>3, <1>5, <3>1, Zenon
  <2> QED BY <2>1, <2>2, Zenon DEF L!OrderInv
<1> QED BY <1>6, <1>7 DEF OrderHolds

(* The entry leaves the goroutine for the sink, or is dropped.             *)
LEMMA OfferOrder ==
  ASSUME LogInv, NEW w \in Writers, L!Offer(w)
  PROVE  OrderHolds'
<1> DEFINE e == logger[w].entry
           all == L!Range(L!Stream) \cup dropped
<1>1. w \in L!Ahead /\ logger[w].step = "offer"
  BY DEF L!Offer, L!Ahead
<1>2. UNCHANGED <<captureSeq, L!Snapshot, frames, L!Held>>
  BY Zenon DEF L!Offer, L!Snapshot, L!Held
<1>3. \A v \in L!Ahead :
        /\ logger[v].entry.by = v /\ logger[v].entry.seq <= captureSeq
        /\ L!Newer(logger[v].entry, L!Range(L!Stream) \cup dropped)
        /\ logger[v].step = "push" => L!Newer(logger[v].entry, L!Range(L!Snapshot))
  BY Zenon DEF LogInv, L!OrderInv
<1>4. L!Ahead' = L!Ahead \ {w} /\ \A v \in L!Ahead' : logger'[v] = logger[v]
  <2>1. logger' = [logger EXCEPT ![w] = L!Quiet]
    BY DEF L!Offer
  <2>2. logger \in [Writers -> {L!Quiet} \cup [step : {"push", "offer"}, entry : L!Entries]]
    BY DEF LogInv, L!TypeOK
  <2> QED BY <2>1, <2>2 DEF L!Ahead, L!Quiet
<1>5. e \in L!Entries /\ L!Stream \in Seq(L!Entries) /\ L!Ascending(L!Stream)
  BY <1>1, InHand, StreamTyped DEF LogInv, L!WritersOrder
<1>6. e \notin L!Range(L!Stream) /\ e \notin dropped
  <2>1. ~(e.seq < e.seq)
    <3>1. e.seq \in Nat
      BY <1>5, AllNumbered DEF Numbered
    <3> QED BY <3>1, SMT
  <2> QED BY <1>1, <1>3, <2>1, Zenon DEF L!Newer
<1>7. L!Range(L!Stream) \cap dropped = {}
  BY Zenon DEF LogInv, L!WritersOrder
<1>8. /\ L!Ascending(L!Stream') /\ L!Range(L!Stream') \cap dropped' = {}
      /\ L!Range(L!Stream') \cup dropped' = all \cup {e}
  <2>1. CASE sink' = Append(sink, e) /\ UNCHANGED dropped
    <3>1. L!Stream' = Append(L!Stream, e)
      <4>1. frames \in Seq(L!Entries) /\ L!Held \in Seq(L!Entries) /\ sink \in Seq(L!Entries)
        BY StreamTyped DEF LogInv, L!TypeOK
      <4>2. \A f, g, h \in Seq(L!Entries) : f \o g \o Append(h, e) = Append(f \o g \o h, e)
        BY <1>5, SMT
      <4>3. L!Stream' = frames \o L!Held \o Append(sink, e)
        BY <1>2, <2>1, Zenon DEF L!Stream
      <4>4. frames \o L!Held \o Append(sink, e) = Append(frames \o L!Held \o sink, e)
        BY <4>1, <4>2, Zenon
      <4> QED BY <4>3, <4>4, Zenon DEF L!Stream
    <3>2. L!Newer(e, L!Range(L!Stream))
      BY <1>1, <1>3, Zenon DEF L!Newer
    <3>3. L!Ascending(L!Stream') /\ L!Range(L!Stream') = L!Range(L!Stream) \cup {e}
      BY <1>5, <3>1, <3>2, AllNumbered, AppendAscends, ZenonT(40)
    <3> QED BY <1>6, <1>7, <2>1, <3>3, Zenon
  <2>2. CASE dropped' = dropped \cup {e} /\ UNCHANGED sink
    <3>1. L!Stream' = L!Stream
      BY <1>2, <2>2, Zenon DEF L!Stream
    <3> QED BY <1>5, <1>6, <1>7, <2>2, <3>1, Zenon
  <2> QED BY <2>1, <2>2, Zenon DEF L!Offer
<1>9. L!WritersOrder'
  <2>1. ASSUME NEW x \in L!Range(L!Snapshot), x.level # "DEBUG"
        PROVE  x \in L!Range(L!Stream') \cup dropped' \cup {logger'[v].entry : v \in L!Ahead'}
    <3>1. x \in all \cup {logger[v].entry : v \in L!Ahead}
      BY <2>1, Zenon DEF LogInv, L!WritersOrder
    <3>2. x \in {logger[v].entry : v \in L!Ahead} => x = e \/ x \in {logger'[v].entry : v \in L!Ahead'}
      BY <1>4, Zenon
    <3> QED BY <1>8, <3>1, <3>2, Zenon
  <2>2. L!Ascending(L!Snapshot)
    BY Zenon DEF LogInv, L!WritersOrder
  <2> QED BY <1>2, <1>8, <2>1, <2>2, Zenon DEF L!WritersOrder
<1>10. L!OrderInv'
  <2>1. \A f \in L!Range(L!Snapshot) \cup all \cup {e} : f.seq <= captureSeq
    BY <1>1, <1>3, Zenon DEF LogInv, L!OrderInv
  <2>2. \A f \in (L!Range(L!Snapshot) \cup L!Range(L!Stream) \cup dropped)' : f.seq <= captureSeq'
    BY <1>2, <1>8, <2>1, Zenon
  <2>3. ASSUME NEW v \in L!Ahead'
        PROVE  /\ logger'[v].entry.by = v /\ logger'[v].entry.seq <= captureSeq'
               /\ L!Newer(logger'[v].entry, (L!Range(L!Stream) \cup dropped)')
               /\ logger'[v].step = "push" => L!Newer(logger'[v].entry, (L!Range(L!Snapshot))')
    <3>1. v \in L!Ahead /\ v # w /\ logger'[v] = logger[v]
      BY <1>4, Zenon
    <3>2. e.by = w /\ logger[v].entry.by = v /\ L!Newer(logger[v].entry, all)
      BY <1>1, <1>3, <3>1, Zenon
    <3>3. L!Newer(logger[v].entry, all \cup {e})
      BY <3>1, <3>2, Zenon DEF L!Newer
    <3> QED BY <1>2, <1>3, <1>8, <3>1, <3>3, Zenon
  <2> QED BY <2>2, <2>3, Zenon DEF L!OrderInv
<1> QED BY <1>9, <1>10 DEF OrderHolds

(* Steps that move or drop entries of the stream.                          *)
LEMMA SameOrder ==
  ASSUME LogInv, UNCHANGED <<captureSeq, slots, head, count, logger>>,
         L!Ascending(L!Stream'), L!Range(L!Stream') \cap dropped' = {},
         L!Range(L!Stream') \cup dropped' = L!Range(L!Stream) \cup dropped
  PROVE  OrderHolds'
<1>1. UNCHANGED <<L!Snapshot, L!Ahead>>
  BY Zenon DEF L!Snapshot, L!Ahead
<1>2. L!WritersOrder'
  BY <1>1, Zenon DEF LogInv, L!WritersOrder
<1>3. L!OrderInv'
  <2>1. \A f \in (L!Range(L!Snapshot) \cup L!Range(L!Stream) \cup dropped)' : f.seq <= captureSeq'
    BY <1>1, Zenon DEF LogInv, L!OrderInv
  <2>2. ASSUME NEW v \in L!Ahead'
        PROVE  /\ logger'[v].entry.by = v /\ logger'[v].entry.seq <= captureSeq'
               /\ L!Newer(logger'[v].entry, (L!Range(L!Stream) \cup dropped)')
               /\ logger'[v].step = "push" => L!Newer(logger'[v].entry, (L!Range(L!Snapshot))')
    BY <1>1, Zenon DEF LogInv, L!OrderInv
  <2> QED BY <2>1, <2>2, Zenon DEF L!OrderInv
<1> QED BY <1>2, <1>3 DEF OrderHolds

(* The consumer takes the oldest entry, and stores it or passes over it.   *)
LEMMA StorerOrder ==
  ASSUME LogInv, L!Receive \/ L!Persist \/ UNCHANGED L!vars
  PROVE  OrderHolds'
<1>1. /\ L!Ascending(L!Stream) /\ L!Range(L!Stream) \cap dropped = {}
      /\ frames \in Seq(L!Entries) /\ sink \in Seq(L!Entries)
      /\ consumer \in L!Entries \cup {L!Nothing}
  BY Zenon DEF LogInv, L!WritersOrder, L!TypeOK
<1>2. L!Nothing \notin L!Entries
  <2>1. \A f \in L!Entries : f.seq # L!Nothing.seq
    BY LogAssumption, SMT DEF L!Entries, L!Nothing
  <2> QED BY <2>1, Zenon
<1>3. CASE L!Receive
  <2>1. /\ sink # <<>> /\ L!Held = <<>> /\ L!Held' = <<Head(sink)>>
        /\ sink' = Tail(sink) /\ UNCHANGED <<frames, dropped>>
    <3>1. Head(sink) \in L!Entries
      BY <1>1, <1>3 DEF L!Receive
    <3> QED BY <1>2, <1>3, <3>1, Zenon DEF L!Receive, L!Held
  <2>2. \A f, k \in Seq(L!Entries) : k # <<>> => f \o <<Head(k)>> \o Tail(k) = f \o <<>> \o k
    BY SMT
  <2>3. L!Stream' = L!Stream
    BY <1>1, <2>1, <2>2, Zenon DEF L!Stream
  <2>4. UNCHANGED <<captureSeq, slots, head, count, logger>>
    BY <1>3 DEF L!Receive
  <2> QED BY <1>1, <2>1, <2>3, <2>4, SameOrder, Zenon
<1>4. CASE L!Persist
  <2>1. /\ consumer \in L!Entries /\ L!Held = <<consumer>> /\ L!Held' = <<>>
        /\ UNCHANGED <<captureSeq, slots, head, count, logger, sink>>
    BY <1>1, <1>2, <1>4, Zenon DEF L!Persist, L!Held
  <2>2. CASE frames' = Append(frames, consumer) /\ UNCHANGED dropped
    <3>1. \A f, k \in Seq(L!Entries) : \A c \in L!Entries : Append(f, c) \o <<>> \o k = f \o <<c>> \o k
      BY SMT
    <3>2. L!Stream' = L!Stream
      BY <1>1, <2>1, <2>2, <3>1, Zenon DEF L!Stream
    <3> QED BY <1>1, <2>1, <2>2, <3>2, SameOrder, Zenon
  <2>3. CASE dropped' = dropped \cup {consumer} /\ UNCHANGED frames
    <3>1. \A f, k \in Seq(L!Entries) : f \o <<>> \o k = f \o k
      BY SMT
    <3>2. L!Stream' = frames \o sink /\ L!Stream = frames \o <<consumer>> \o sink
      BY <1>1, <2>1, <2>3, <3>1, Zenon DEF L!Stream
    <3>3. /\ L!Ascending(L!Stream') /\ consumer \notin L!Range(L!Stream')
          /\ L!Range(L!Stream) = L!Range(L!Stream') \cup {consumer}
      <4>1. L!Ascending(frames \o <<consumer>> \o sink) /\ Numbered(L!Entries)
        BY <1>1, <3>2, AllNumbered, Zenon
      <4>2. /\ L!Ascending(frames \o sink) /\ consumer \notin L!Range(frames \o sink)
            /\ L!Range(frames \o <<consumer>> \o sink) = L!Range(frames \o sink) \cup {consumer}
        BY <1>1, <2>1, <4>1, PassedOver
      <4> QED BY <3>2, <4>2, Zenon
    <3> QED BY <1>1, <2>1, <2>3, <3>3, SameOrder, Zenon
  <2> QED BY <1>4, <2>2, <2>3, Zenon DEF L!Persist
<1>5. CASE UNCHANGED L!vars
  <2>1. /\ UNCHANGED <<captureSeq, slots, head, count, logger, sink, frames, dropped>>
        /\ L!Stream' = L!Stream
    BY <1>5, Zenon DEF L!vars, L!Stream, L!Held
  <2> QED BY <1>1, <2>1, SameOrder, Zenon
<1> QED BY <1>3, <1>4, <1>5

(* An empty log is in order: at the start, and after a restart.            *)
Emptied ==
  /\ logger = [w \in Writers |-> L!Quiet]
  /\ count = 0 /\ sink = <<>> /\ frames = <<>> /\ consumer = L!Nothing /\ dropped = {}

LEMMA FreshOrder == L!TypeOK /\ Emptied => OrderHolds
<1> SUFFICES ASSUME L!TypeOK, Emptied PROVE OrderHolds
  OBVIOUS
<1> USE DEF Emptied
<1>1. L!Ahead = {}
  BY DEF L!Ahead, L!Quiet
<1>2. L!Snapshot \in Seq(Shown) /\ Len(L!Snapshot) = 0
  BY TypeHasRing, SnapshotTyped
<1>3. L!Stream = <<>>
  BY DEF L!Stream, L!Held
<1>4. DOMAIN L!Snapshot = {} /\ DOMAIN L!Stream = {}
  BY <1>2, <1>3, SMT
<1> QED BY <1>1, <1>4, Zenon DEF OrderHolds, L!WritersOrder, L!OrderInv, L!Ascending, L!Range

(* The log starts so,                                                      *)
LEMMA InitLog == L!Init => LogInv
<1> SUFFICES ASSUME L!Init PROVE LogInv
  OBVIOUS
<1>1. L!TypeOK
  BY LogAssumption, SMT DEF L!Init, L!TypeOK
<1> QED BY <1>1, FreshOrder, Zenon DEF L!Init, LogInv, OrderHolds, Emptied

(* and every step keeps it.                                                *)
LEMMA NextLog == LogInv /\ [L!Next]_(L!vars) => LogInv'
<1> SUFFICES ASSUME LogInv, [L!Next]_(L!vars) PROVE LogInv'
  OBVIOUS
<1>1. L!TypeOK'
  BY StepTypes DEF LogInv
<1>2. CASE L!Restart
  <2>1. L!TypeOK' /\ Emptied' => OrderHolds'
    BY FreshOrder, PTL
  <2> QED BY <1>1, <1>2, <2>1, Zenon DEF L!Restart, LogInv, OrderHolds, Emptied
<1> QED BY <1>1, <1>2, NumberOrder, PushOrder, OfferOrder, StorerOrder, Zenon
        DEF L!Next, LogInv, OrderHolds

(***************************************************************************)
(* The log among the services.                                             *)
(***************************************************************************)

(* A step of the services is one of the log or leaves it alone.            *)
LEMMA LogSteps == [ServicesNext]_allVars => [L!Next]_(L!vars)
  BY DEF ServicesNext, allVars, logVars, L!vars

LEMMA LogAlways == ServicesSpec => []LogInv
<1>1. ServicesInit => LogInv
  BY InitLog DEF ServicesInit
<1>2. LogInv /\ [ServicesNext]_allVars => LogInv'
  BY LogSteps, NextLog
<1> QED
  BY <1>1, <1>2, PTL DEF ServicesSpec

(* captureLogger: however the steps of the goroutines and the consumer     *)
(* mix, the entries of a goroutine are in its order in the ring and in the *)
(* collection, none is stored twice, and none above DEBUG is lost unseen.  *)
THEOREM WritersKeepOrder == ServicesSpec => []WritersOrder
<1>1. LogInv => WritersOrder
  BY DEF LogInv, WritersOrder
<1> QED
  BY <1>1, LogAlways, PTL

(* capturelog.go: whatever the goroutines that log, the consumer and       *)
(* restarts do, what snapshot shows is the newest entries, whole, once and *)
(* in the order of the pushes, and a shorter list only until the ring is   *)
(* full: for a ring of any size.                                           *)
THEOREM RingIsRecentLog == ServicesSpec => ShowsTheNewest
<1>1. ServicesInit => L!Recent!Init
  BY InitImplements, LogAssumption DEF ServicesInit
<1>2. LogInv /\ LogInv' /\ [ServicesNext]_allVars => [L!Recent!Log \/ L!Recent!Clear]_(L!Snapshot)
  <2>1. LogInv' => RingInv'
    BY TypeHasRing, PTL DEF LogInv
  <2> QED
    BY <2>1, TypeHasRing, LogSteps, StepImplements, LogAssumption DEF LogInv
<1> QED
  BY <1>1, <1>2, LogAlways, PTL DEF ServicesSpec, ShowsTheNewest, L!ShowsTheNewest, L!Recent!Spec

(***************************************************************************)
(* Simulated journeys: induction, for what is computed by recursion.       *)
(***************************************************************************)

LEMMA Least ==
  ASSUME NEW T, T \subseteq Nat, T # {}
  PROVE  \E n \in T : \A m \in T : n <= m
<1> DEFINE R == OpToRel(<, Nat)
<1>1. IsWellFoundedOn(R, Nat)
  BY NatLessThanWellFounded, Zenon
<1> HIDE DEF R
<1>2. PICK n \in T : \A m \in T : ~(<<m, n>> \in R)
  BY <1>1, WFMin, Zenon
<1>3. ASSUME NEW m \in T, m < n PROVE FALSE
  <2>1. m \in Nat /\ n \in Nat
    OBVIOUS
  <2>2. <<m, n>> \in {ss \in Nat \X Nat : ss[1] < ss[2]}
    BY <1>3, <2>1
  <2>3. <<m, n>> \in R
    BY <2>2, Zenon DEF R, OpToRel
  <2> QED BY <1>2, <2>3, Zenon
<1> QED BY <1>3

(* What holds for the first and, with each, for the next, holds for all.   *)
LEMMA FirstAndNext ==
  ASSUME NEW n \in Nat, NEW T, 1 \in T, \A i \in 1 .. n - 1 : i \in T => i + 1 \in T
  PROVE  \A i \in 1 .. n : i \in T
<1> DEFINE C == (1 .. n) \ T
<1> SUFFICES ASSUME C # {} PROVE FALSE
  OBVIOUS
<1>1. C \subseteq Nat
  OBVIOUS
<1> HIDE DEF C
<1>2. PICK least \in C : \A m \in C : least <= m
  BY <1>1, Least
<1>3. least \in 1 .. n /\ least \notin T
  BY DEF C
<1>4. least - 1 \in 1 .. n - 1
  BY <1>3
<1>5. ASSUME least - 1 \in C PROVE FALSE
  <2>1. least <= least - 1
    BY <1>2, <1>5, Zenon
  <2> QED BY <1>3, <2>1
<1>6. least - 1 \in T
  BY <1>4, <1>5 DEF C
<1>7. (least - 1) + 1 \in T /\ (least - 1) + 1 = least
  <2>1. (least - 1) + 1 \in T
    BY <1>4, <1>6, Zenon
  <2>2. (least - 1) + 1 = least
    BY <1>3
  <2> QED BY <2>1, <2>2
<1> QED BY <1>3, <1>7, Zenon

(* There is a function that is defined by its first value and by how the   *)
(* next value follows.                                                     *)
Follows(c, n, first, F) == c = [i \in 1 .. n |-> IF i = 1 THEN first ELSE F[<<i, c[i - 1]>>]]

LEMMA Recursion ==
  ASSUME NEW n \in Nat \ {0}, NEW V, NEW first \in V, NEW F,
         \A i \in 2 .. n, v \in V : F[<<i, v>>] \in V
  PROVE  \E c : Follows(c, n, first, F) /\ c \in [1 .. n -> V]
<1> DEFINE T == {m \in 1 .. n : \E c \in [1 .. m -> V] : Follows(c, m, first, F)}
<1>1. 1 \in T
  <2>1. [i \in 1 .. 1 |-> first] \in [1 .. 1 -> V] /\ Follows([i \in 1 .. 1 |-> first], 1, first, F)
    BY DEF Follows
  <2> QED BY <2>1
<1>2. ASSUME NEW i \in 1 .. n - 1, i \in T PROVE i + 1 \in T
  <2>1. PICK c \in [1 .. i -> V] : Follows(c, i, first, F)
    BY <1>2
  <2>2. PICK v : v = F[<<i + 1, c[i]>>]
    OBVIOUS
  <2>3. v \in V /\ i \in Nat \ {0}
    BY <2>2
  <2> DEFINE d == [j \in 1 .. i + 1 |-> IF j = i + 1 THEN v ELSE c[j]]
  <2>4. d \in [1 .. i + 1 -> V] /\ d[i + 1] = v /\ \A j \in 1 .. i : d[j] = c[j]
    BY <2>3
  <2> HIDE DEF d
  <2>5. \A j \in 1 .. i : c[j] = IF j = 1 THEN first ELSE F[<<j, c[j - 1]>>]
    BY <2>1 DEF Follows
  <2>6. ASSUME NEW j \in 1 .. i + 1
        PROVE  d[j] = IF j = 1 THEN first ELSE F[<<j, d[j - 1]>>]
    <3>1. CASE j = i + 1
      <4>1. j # 1 /\ j - 1 = i /\ d[j - 1] = c[i]
        BY <2>3, <2>4, <3>1
      <4> QED BY <2>2, <2>4, <3>1, <4>1
    <3>2. CASE j # i + 1
      <4>1. j \in 1 .. i /\ (j # 1 => j - 1 \in 1 .. i)
        BY <2>3, <3>2
      <4> QED BY <2>4, <2>5, <4>1
    <3> QED BY <3>1, <3>2
  <2>7. d = [j \in 1 .. i + 1 |-> IF j = 1 THEN first ELSE F[<<j, d[j - 1]>>]]
    BY <2>4, <2>6
  <2>8. Follows(d, i + 1, first, F)
    BY <2>7 DEF Follows
  <2> QED BY <2>3, <2>4, <2>8
<1> HIDE DEF T
<1>3. n \in T
  BY <1>1, <1>2, FirstAndNext
<1> QED BY <1>3 DEF T

(***************************************************************************)
(* Routes.                                                                 *)
(***************************************************************************)

LEMMA BetweenIs ==
  ASSUME NEW a \in Int, NEW b \in Int
  PROVE  /\ J!Between(a, b) \in Nat /\ (J!Between(a, b) = 0 => a = b)
         /\ a <= b => J!Between(a, b) = b - a
         /\ ~(a <= b) => J!Between(a, b) = a - b
  BY DEF J!Between

(* The distances at the points of a route.                                 *)
Cumulates(cum, points, n) ==
  /\ cum \in [1 .. n -> Nat] /\ cum[1] = 0
  /\ \A i \in 1 .. n - 1 : cum[i + 1] = cum[i] + J!Between(points[i], points[i + 1])

LEMMA Distances ==
  ASSUME NEW points \in Seq(Int), points # <<>>
  PROVE  Cumulates(J!CumDist(points), points, Len(points))
<1> PICK n : n = Len(points)
  OBVIOUS
<1>1. n \in Nat \ {0} /\ DOMAIN points = 1 .. n /\ \A i \in 1 .. n : points[i] \in Int
  OBVIOUS
<1> DEFINE F == [x \in (2 .. n) \X Nat |-> x[2] + J!Between(points[x[1] - 1], points[x[1]])]
<1>2. \A i \in 2 .. n, v \in Nat :
        /\ F[<<i, v>>] = v + J!Between(points[i - 1], points[i])
        /\ F[<<i, v>>] \in Nat
  <2> SUFFICES ASSUME NEW i \in 2 .. n, NEW v \in Nat
               PROVE  /\ F[<<i, v>>] = v + J!Between(points[i - 1], points[i])
                      /\ F[<<i, v>>] \in Nat
    OBVIOUS
  <2>1. points[i - 1] \in Int /\ points[i] \in Int
    BY <1>1
  <2>2. J!Between(points[i - 1], points[i]) \in Nat
    BY <2>1, BetweenIs
  <2> QED BY <2>2, SMTT(30)
<1> HIDE DEF F
<1>3. PICK c \in [1 .. n -> Nat] : Follows(c, n, 0, F)
  BY <1>1, <1>2, Recursion
<1> DEFINE Body(f) == [i \in 1 .. n |-> IF i = 1 THEN 0 ELSE f[i - 1] + J!Between(points[i - 1], points[i])]
<1>4. c = Body(c)
  <2>1. ASSUME NEW i \in 1 .. n
        PROVE  c[i] = IF i = 1 THEN 0 ELSE c[i - 1] + J!Between(points[i - 1], points[i])
    <3>1. c[i] = IF i = 1 THEN 0 ELSE F[<<i, c[i - 1]>>]
      BY <1>3 DEF Follows
    <3>2. CASE i # 1
      <4>1. i \in 2 .. n /\ i - 1 \in 1 .. n
        BY <1>1, <3>2
      <4>2. c[i - 1] \in Nat
        BY <4>1
      <4> QED BY <1>2, <3>1, <3>2, <4>1, <4>2
    <3> QED BY <3>1, <3>2
  <2> QED BY <2>1
<1>5. J!CumDist(points) = CHOOSE f : f = Body(f)
  BY <1>1 DEF J!CumDist
<1> PICK cum : cum = J!CumDist(points)
  OBVIOUS
<1>6. cum = Body(cum)
  BY <1>4, <1>5
<1>7. cum[1] = 0 /\ \A i \in 2 .. n : cum[i] = cum[i - 1] + J!Between(points[i - 1], points[i])
  BY <1>1, <1>6
<1>8. \A i \in 1 .. n - 1 : cum[i + 1] = cum[i] + J!Between(points[i], points[i + 1])
  <2> SUFFICES ASSUME NEW i \in 1 .. n - 1
               PROVE  cum[i + 1] = cum[i] + J!Between(points[i], points[i + 1])
    OBVIOUS
  <2>1. i + 1 \in 2 .. n /\ (i + 1) - 1 = i
    BY <1>1
  <2> QED BY <1>7, <2>1
<1>9. \A i \in 1 .. n : cum[i] \in Nat
  <2> DEFINE T == {i \in 1 .. n : cum[i] \in Nat}
  <2>1. 1 \in T
    BY <1>1, <1>7
  <2>2. ASSUME NEW i \in 1 .. n - 1, i \in T PROVE i + 1 \in T
    <3>1. points[i] \in Int /\ points[i + 1] \in Int /\ i + 1 \in 1 .. n
      BY <1>1
    <3>2. J!Between(points[i], points[i + 1]) \in Nat
      BY <3>1, BetweenIs
    <3> QED BY <1>8, <2>2, <3>1, <3>2
  <2> HIDE DEF T
  <2>3. \A i \in 1 .. n : i \in T
    BY <1>1, <2>1, <2>2, FirstAndNext
  <2> QED BY <2>3 DEF T
<1>10. cum \in [1 .. n -> Nat]
  BY <1>6, <1>9
<1> QED BY <1>7, <1>8, <1>10 DEF Cumulates

(* They do not fall.                                                       *)
LEMMA DistancesGrow ==
  ASSUME NEW n \in Nat \ {0}, NEW points \in [1 .. n -> Int], NEW cum, Cumulates(cum, points, n)
  PROVE  \A i \in 1 .. n : \A j \in 1 .. i : cum[j] <= cum[i]
<1> DEFINE T == {i \in 1 .. n : \A j \in 1 .. i : cum[j] <= cum[i]}
<1>1. cum \in [1 .. n -> Nat]
  BY DEF Cumulates
<1>2. 1 \in T
  BY <1>1
<1>3. ASSUME NEW i \in 1 .. n - 1, i \in T PROVE i + 1 \in T
  <2>1. points[i] \in Int /\ points[i + 1] \in Int /\ i + 1 \in 1 .. n
    OBVIOUS
  <2>2. J!Between(points[i], points[i + 1]) \in Nat
    BY <2>1, BetweenIs
  <2>3. cum[i + 1] = cum[i] + J!Between(points[i], points[i + 1])
    BY DEF Cumulates
  <2>4. cum[i] \in Nat /\ cum[i + 1] \in Nat
    BY <1>1, <2>1
  <2>5. cum[i] <= cum[i + 1]
    BY <2>2, <2>3, <2>4
  <2>6. ASSUME NEW j \in 1 .. i + 1 PROVE cum[j] <= cum[i + 1]
    <3>1. CASE j = i + 1
      BY <2>4, <3>1
    <3>2. CASE j # i + 1
      <4>1. j \in 1 .. i /\ j \in 1 .. n
        BY <3>2
      <4>2. cum[j] \in Nat /\ cum[j] <= cum[i]
        BY <1>1, <1>3, <4>1
      <4> QED BY <2>4, <2>5, <4>2
    <3> QED BY <3>1, <3>2
  <2> QED BY <2>1, <2>6
<1> HIDE DEF T
<1>4. \A i \in 1 .. n : i \in T
  BY <1>2, <1>3, FirstAndNext
<1> QED BY <1>4 DEF T

(* FlattenSeq puts one sequence after the other: whole[i] are the first i. *)
Flattens(whole, parts, n, V) ==
  /\ whole \in [1 .. n -> Seq(V)] /\ whole[1] = parts[1]
  /\ \A i \in 1 .. n - 1 : whole[i + 1] = whole[i] \o parts[i + 1]

LEMMA OneAfterTheOther ==
  ASSUME NEW V, NEW parts \in Seq(Seq(V)), parts # <<>>
  PROVE  \E whole : /\ Flattens(whole, parts, Len(parts), V)
                    /\ J!FlattenSeq(parts) = whole[Len(parts)]
<1> PICK n : n = Len(parts)
  OBVIOUS
<1>1. n \in Nat \ {0} /\ DOMAIN parts = 1 .. n /\ \A i \in 1 .. n : parts[i] \in Seq(V)
  OBVIOUS
<1>c. \A a, b \in Seq(V) : a \o b \in Seq(V)
  OBVIOUS
<1> PICK W : W = Seq(V)
  OBVIOUS
<1> DEFINE F == [x \in (2 .. n) \X W |-> x[2] \o parts[x[1]]]
<1>2. \A i \in 2 .. n, v \in W : F[<<i, v>>] = v \o parts[i] /\ F[<<i, v>>] \in W
  <2> SUFFICES ASSUME NEW i \in 2 .. n, NEW v \in W
               PROVE  F[<<i, v>>] = v \o parts[i] /\ F[<<i, v>>] \in W
    OBVIOUS
  <2>1. parts[i] \in Seq(V) /\ v \in Seq(V)
    BY <1>1
  <2>2. v \o parts[i] \in W
    BY <1>c, <2>1, Zenon
  <2>3. <<i, v>> \in (2 .. n) \X W /\ <<i, v>>[1] = i /\ <<i, v>>[2] = v
    OBVIOUS
  <2>4. F[<<i, v>>] = v \o parts[i]
    BY <2>3, Zenon
  <2> QED BY <2>2, <2>4
<1> HIDE DEF F
<1>3. parts[1] \in W
  BY <1>1
<1>4. PICK c \in [1 .. n -> W] : Follows(c, n, parts[1], F)
  BY <1>1, <1>2, <1>3, Recursion
<1> DEFINE Body(f) == [i \in 1 .. n |-> IF i = 1 THEN parts[i] ELSE f[i - 1] \o parts[i]]
<1>5. c = Body(c)
  <2>1. ASSUME NEW i \in 1 .. n
        PROVE  c[i] = IF i = 1 THEN parts[i] ELSE c[i - 1] \o parts[i]
    <3>1. c[i] = IF i = 1 THEN parts[1] ELSE F[<<i, c[i - 1]>>]
      BY <1>4 DEF Follows
    <3>2. CASE i # 1
      <4>1. i \in 2 .. n /\ i - 1 \in 1 .. n
        BY <1>1, <3>2
      <4>2. c[i - 1] \in W
        BY <4>1
      <4> QED BY <1>2, <3>1, <3>2, <4>1, <4>2
    <3> QED BY <3>1, <3>2
  <2> QED BY <2>1
<1> DEFINE whole == CHOOSE f : f = Body(f)
<1>6. J!FlattenSeq(parts) = whole[n]
  BY <1>1 DEF J!FlattenSeq
<1>7. whole = Body(whole)
  BY <1>5
<1> HIDE DEF whole
<1>8. whole[1] = parts[1] /\ \A i \in 2 .. n : whole[i] = whole[i - 1] \o parts[i]
  <2>1. \A i \in 1 .. n : whole[i] = IF i = 1 THEN parts[i] ELSE whole[i - 1] \o parts[i]
    BY <1>7, Zenon
  <2>2. 1 \in 1 .. n /\ \A i \in 2 .. n : i \in 1 .. n /\ i # 1
    BY <1>1
  <2> QED BY <2>1, <2>2, Zenon
<1>9. \A i \in 1 .. n - 1 : whole[i + 1] = whole[i] \o parts[i + 1]
  <2> SUFFICES ASSUME NEW i \in 1 .. n - 1 PROVE whole[i + 1] = whole[i] \o parts[i + 1]
    OBVIOUS
  <2>1. i + 1 \in 2 .. n /\ (i + 1) - 1 = i
    BY <1>1
  <2> QED BY <1>8, <2>1
<1>10. \A i \in 1 .. n : whole[i] \in Seq(V)
  <2> DEFINE T == {i \in 1 .. n : whole[i] \in W}
  <2>1. 1 \in T
    BY <1>1, <1>3, <1>8
  <2>2. ASSUME NEW i \in 1 .. n - 1, i \in T PROVE i + 1 \in T
    <3>1. i + 1 \in 1 .. n /\ whole[i] \in Seq(V) /\ parts[i + 1] \in Seq(V)
      BY <1>1, <2>2
    <3>2. whole[i + 1] \in Seq(V)
      BY <1>9, <1>c, <3>1
    <3> QED BY <3>1, <3>2
  <2> HIDE DEF T
  <2>3. \A i \in 1 .. n : i \in T
    BY <1>1, <2>1, <2>2, FirstAndNext
  <2> QED BY <2>3 DEF T
<1>11. whole \in [1 .. n -> Seq(V)]
  BY <1>7, <1>10
<1>12. Flattens(whole, parts, n, V)
  BY <1>8, <1>9, <1>11 DEF Flattens
<1> QED BY <1>6, <1>12

LEMMA FlatType ==
  ASSUME NEW V, NEW parts \in Seq(Seq(V))
  PROVE  J!FlattenSeq(parts) \in Seq(V)
<1>1. CASE parts = <<>>
  <2>1. J!FlattenSeq(parts) = <<>>
    BY <1>1 DEF J!FlattenSeq
  <2>2. <<>> \in Seq(V)
    OBVIOUS
  <2> QED BY <2>1, <2>2, Zenon
<1>2. CASE parts # <<>>
  <2>1. PICK whole : Flattens(whole, parts, Len(parts), V) /\ J!FlattenSeq(parts) = whole[Len(parts)]
    BY <1>2, OneAfterTheOther
  <2>2. Len(parts) \in 1 .. Len(parts)
    BY <1>2
  <2> QED BY <2>1, <2>2 DEF Flattens
<1> QED BY <1>1, <1>2

(* The binary search of a distance that is within the bounds ends at the   *)
(* point before it.                                                        *)
Searches(find, cum, dist, n) ==
  \A lo, hi \in 1 .. n :
    find[<<lo, hi>>] =
      IF lo + 1 >= hi THEN lo
      ELSE IF cum[(lo + hi) \div 2] <= dist THEN find[<<(lo + hi) \div 2, hi>>]
      ELSE find[<<lo, (lo + hi) \div 2>>]

LEMMA Halves ==
  ASSUME NEW lo \in Nat, NEW hi \in Nat, ~(lo + 1 >= hi)
  PROVE  /\ (lo + hi) \div 2 \in Nat
         /\ lo < (lo + hi) \div 2 /\ (lo + hi) \div 2 < hi
  OBVIOUS

LEMMA SearchFinds ==
  ASSUME NEW n \in Nat, NEW cum \in [1 .. n -> Nat], NEW dist \in Nat, NEW find,
         Searches(find, cum, dist, n),
         NEW lo \in 1 .. n, NEW hi \in 1 .. n, lo < hi, cum[lo] <= dist, dist < cum[hi]
  PROVE  LET at == find[<<lo, hi>>]
         IN at \in lo .. hi - 1 /\ cum[at] <= dist /\ dist < cum[at + 1]
<1> DEFINE Found(a, b) == LET at == find[<<a, b>>]
                          IN at \in a .. b - 1 /\ cum[at] <= dist /\ dist < cum[at + 1]
           Asked(a, b) == a < b /\ cum[a] <= dist /\ dist < cum[b]
           T == {k \in 1 .. n : \A a, b \in 1 .. n : Asked(a, b) /\ b - a <= k => Found(a, b)}
<1>1. 1 \in T
  <2> SUFFICES ASSUME NEW a \in 1 .. n, NEW b \in 1 .. n, Asked(a, b), b - a <= 1 PROVE Found(a, b)
    BY n \in Nat /\ lo \in 1 .. n
  <2>1. b = a + 1 /\ a + 1 >= b
    OBVIOUS
  <2>2. find[<<a, b>>] = a
    BY <2>1 DEF Searches
  <2> QED BY <2>1, <2>2
<1>2. ASSUME NEW k \in 1 .. n - 1, k \in T PROVE k + 1 \in T
  <2>k. k + 1 \in 1 .. n
    OBVIOUS
  <2> SUFFICES ASSUME NEW a \in 1 .. n, NEW b \in 1 .. n, Asked(a, b), b - a <= k + 1
               PROVE  Found(a, b)
    BY <2>k, Zenon
  <2>0. \A c, e \in 1 .. n : Asked(c, e) /\ e - c <= k => Found(c, e)
    BY <1>2
  <2>1. CASE a + 1 >= b
    <3>1. b = a + 1
      BY <2>1
    <3>2. find[<<a, b>>] = a
      BY <2>1 DEF Searches
    <3> QED BY <3>1, <3>2
  <2>2. CASE ~(a + 1 >= b)
    <3> PICK mid : mid = (a + b) \div 2
      OBVIOUS
    <3>1. mid \in 1 .. n /\ a < mid /\ mid < b
      BY <2>2, Halves
    <3>2. find[<<a, b>>] = IF cum[mid] <= dist THEN find[<<mid, b>>] ELSE find[<<a, mid>>]
      BY <2>2 DEF Searches
    <3>3. cum[mid] \in Nat
      BY <3>1
    <3>4. CASE cum[mid] <= dist
      <4>1. Asked(mid, b) /\ b - mid <= k
        BY <3>1, <3>4
      <4>2. Found(mid, b)
        BY <2>0, <3>1, <4>1
      <4>3. find[<<a, b>>] = find[<<mid, b>>]
        BY <3>2, <3>4, Zenon
      <4>4. find[<<a, b>>] \in mid .. b - 1
        BY <4>2, <4>3, Zenon
      <4>5. find[<<a, b>>] \in a .. b - 1
        <5>1. a \in Int /\ b \in Int /\ mid \in Int
          BY <3>1
        <5>2. mid .. b - 1 \subseteq a .. b - 1
          BY <3>1, <5>1
        <5> QED BY <4>4, <5>2, Zenon
      <4> QED BY <4>2, <4>3, <4>5, Zenon
    <3>5. CASE ~(cum[mid] <= dist)
      <4>1. Asked(a, mid) /\ mid - a <= k
        BY <3>1, <3>3, <3>5
      <4>2. Found(a, mid)
        BY <2>0, <3>1, <4>1
      <4>3. find[<<a, b>>] = find[<<a, mid>>]
        BY <3>2, <3>5, Zenon
      <4>4. find[<<a, b>>] \in a .. mid - 1
        BY <4>2, <4>3, Zenon
      <4>5. find[<<a, b>>] \in a .. b - 1
        <5>1. a \in Int /\ b \in Int /\ mid \in Int
          BY <3>1
        <5>2. a .. mid - 1 \subseteq a .. b - 1
          BY <3>1, <5>1
        <5> QED BY <4>4, <5>2, Zenon
      <4> QED BY <4>2, <4>3, <4>5, Zenon
    <3> QED BY <3>4, <3>5
  <2> QED BY <2>1, <2>2
<1> HIDE DEF T
<1>3. n \in T
  <2>1. \A k \in 1 .. n : k \in T
    BY <1>1, <1>2, FirstAndNext
  <2> QED BY <2>1
<1>4. hi - lo <= n /\ Asked(lo, hi)
  OBVIOUS
<1>5. Found(lo, hi)
  BY <1>3, <1>4 DEF T
<1> QED BY <1>5

(* The search is a function: each half is shorter than the whole.          *)
Halving(find, cum, dist, n) ==
  [bounds \in (1 .. n) \X (1 .. n) |->
     LET lo  == bounds[1]
         hi  == bounds[2]
         mid == (lo + hi) \div 2
     IN IF lo + 1 >= hi THEN lo
        ELSE IF cum[mid] <= dist THEN find[<<mid, hi>>] ELSE find[<<lo, mid>>]]

LEMMA SearchIs ==
  ASSUME NEW n \in Nat \ {0}, NEW cum, NEW dist
  PROVE  \E find : find = Halving(find, cum, dist, n)
<1> DEFINE All == (1 .. n) \X (1 .. n)
           Within(k) == {b \in All : b[2] - b[1] <= k}
           Value(find, lo, hi) ==
             IF lo + 1 >= hi THEN lo
             ELSE IF cum[(lo + hi) \div 2] <= dist THEN find[<<(lo + hi) \div 2, hi>>]
             ELSE find[<<lo, (lo + hi) \div 2>>]
           Good(find, k) == \A lo, hi \in 1 .. n : hi - lo <= k => find[<<lo, hi>>] = Value(find, lo, hi)
           T == {k \in 1 .. n : \E find : Good(find, k)}
<1>1. 1 \in T
  <2> DEFINE g == [b \in All |-> b[1]]
  <2>1. \A lo, hi \in 1 .. n : hi - lo <= 1 => lo + 1 >= hi /\ g[<<lo, hi>>] = lo
    OBVIOUS
  <2> HIDE DEF g
  <2>2. ASSUME NEW lo \in 1 .. n, NEW hi \in 1 .. n, hi - lo <= 1
        PROVE  g[<<lo, hi>>] = Value(g, lo, hi)
    BY <2>1, <2>2, Zenon
  <2>3. 1 \in 1 .. n
    OBVIOUS
  <2> QED BY <2>2, <2>3, Zenon
<1>2. ASSUME NEW k \in 1 .. n - 1, k \in T PROVE k + 1 \in T
  <2>1. PICK g : Good(g, k)
    BY <1>2
  <2> DEFINE h == [b \in All |-> Value(g, b[1], b[2])]
  <2>2. \A lo, hi \in 1 .. n : h[<<lo, hi>>] = Value(g, lo, hi)
    BY Zenon
  <2> HIDE DEF h
  <2>3. ASSUME NEW lo \in 1 .. n, NEW hi \in 1 .. n, hi - lo <= k PROVE h[<<lo, hi>>] = g[<<lo, hi>>]
    BY <2>1, <2>2, <2>3, ZenonT(40)
  <2>4. ASSUME NEW lo \in 1 .. n, NEW hi \in 1 .. n, hi - lo <= k + 1
        PROVE  h[<<lo, hi>>] = Value(h, lo, hi)
    <3>1. CASE lo + 1 >= hi
      BY <2>2, <3>1
    <3>2. CASE ~(lo + 1 >= hi)
      <4> PICK mid : mid = (lo + hi) \div 2
        OBVIOUS
      <4>1. mid \in 1 .. n /\ lo < mid /\ mid < hi
        BY <3>2, Halves
      <4>2. hi - mid <= k /\ mid - lo <= k
        BY <2>4, <4>1
      <4>3. h[<<mid, hi>>] = g[<<mid, hi>>] /\ h[<<lo, mid>>] = g[<<lo, mid>>]
        BY <2>3, <4>1, <4>2
      <4>4. h[<<lo, hi>>] = Value(g, lo, hi)
        BY <2>2
      <4> QED BY <4>3, <4>4, Zenon
    <3> QED BY <3>1, <3>2
  <2>5. k + 1 \in 1 .. n
    OBVIOUS
  <2> QED BY <2>4, <2>5, Zenon
<1>3. n \in T
  <2> HIDE DEF T
  <2>1. \A k \in 1 .. n : k \in T
    BY <1>1, <1>2, FirstAndNext
  <2> QED BY <2>1
<1>4. PICK g : \A lo, hi \in 1 .. n : g[<<lo, hi>>] = Value(g, lo, hi)
  <2>1. PICK g : Good(g, n)
    BY <1>3
  <2>2. \A lo, hi \in 1 .. n : hi - lo <= n
    OBVIOUS
  <2> QED BY <2>1, <2>2
<1> DEFINE h == [b \in All |-> Value(g, b[1], b[2])]
<1>5. \A lo, hi \in 1 .. n : h[<<lo, hi>>] = g[<<lo, hi>>]
  BY <1>4, Zenon
<1>6. \A b \in All : Value(g, b[1], b[2]) = Value(h, b[1], b[2])
  <2> HIDE DEF h
  <2> SUFFICES ASSUME NEW lo \in 1 .. n, NEW hi \in 1 .. n PROVE Value(g, lo, hi) = Value(h, lo, hi)
    OBVIOUS
  <2>1. CASE lo + 1 >= hi
    BY <2>1
  <2>2. CASE ~(lo + 1 >= hi)
    <3>1. (lo + hi) \div 2 \in 1 .. n
      BY <2>2, Halves
    <3>2. h[<<(lo + hi) \div 2, hi>>] = g[<<(lo + hi) \div 2, hi>>]
          /\ h[<<lo, (lo + hi) \div 2>>] = g[<<lo, (lo + hi) \div 2>>]
      BY <1>5, <3>1, Zenon
    <3> QED BY <3>2, Zenon
  <2> QED BY <2>1, <2>2
<1>7. h = [b \in All |-> Value(h, b[1], b[2])]
  BY <1>6, Zenon
<1>8. [b \in All |-> Value(h, b[1], b[2])] = Halving(h, cum, dist, n)
  BY Zenon DEF Halving
<1> HIDE DEF h
<1> QED BY <1>7, <1>8

LEMMA SegmentOf ==
  ASSUME NEW points \in Seq(Int), Len(points) >= 2,
         NEW dist \in Nat, dist < J!Total(points)
  PROVE  LET cum == J!CumDist(points)
             at  == J!Segment(points, dist)
         IN at \in 1 .. Len(points) - 1 /\ cum[at] <= dist /\ dist < cum[at + 1]
<1> PICK n : n = Len(points)
  OBVIOUS
<1> PICK cum : cum = J!CumDist(points)
  OBVIOUS
<1>1. n \in Nat \ {0} /\ n >= 2 /\ DOMAIN points = 1 .. n /\ points # <<>>
  OBVIOUS
<1>2. cum \in [1 .. n -> Nat] /\ cum[1] = 0
  BY <1>1, Distances DEF Cumulates
<1> DEFINE search == CHOOSE find : find = Halving(find, cum, dist, n)
<1>3. J!Segment(points, dist) = search[<<1, n>>]
  BY <1>1, Zenon DEF J!Segment, Halving
<1>4. search = Halving(search, cum, dist, n)
  <2>1. \E find : find = Halving(find, cum, dist, n)
    BY <1>1, SearchIs, Zenon
  <2> QED BY <2>1, Zenon
<1> HIDE DEF search
<1>5. Searches(search, cum, dist, n)
  <2> SUFFICES ASSUME NEW lo \in 1 .. n, NEW hi \in 1 .. n
               PROVE  search[<<lo, hi>>] =
                        IF lo + 1 >= hi THEN lo
                        ELSE IF cum[(lo + hi) \div 2] <= dist THEN search[<<(lo + hi) \div 2, hi>>]
                        ELSE search[<<lo, (lo + hi) \div 2>>]
    BY Zenon DEF Searches
  <2>1. <<lo, hi>> \in (1 .. n) \X (1 .. n) /\ <<lo, hi>>[1] = lo /\ <<lo, hi>>[2] = hi
    OBVIOUS
  <2> QED BY <1>4, <2>1, Zenon DEF Halving
<1>6. 1 \in 1 .. n /\ n \in 1 .. n /\ 1 < n /\ cum[1] <= dist /\ dist < cum[n]
  BY <1>1, <1>2 DEF J!Total
<1>7. search[<<1, n>>] \in 1 .. n - 1 /\ cum[search[<<1, n>>]] <= dist /\ dist < cum[search[<<1, n>>] + 1]
  BY <1>1, <1>2, <1>5, <1>6, SearchFinds
<1> QED BY <1>3, <1>7

(* From one point to the next, one unit after the other.                   *)
Steps(a, b) == IF a <= b THEN [k \in 1 .. b - a |-> a + k] ELSE [k \in 1 .. a - b |-> a - k]

LEMMA StepsAre ==
  ASSUME NEW a \in Int, NEW b \in Int
  PROVE  /\ Steps(a, b) \in Seq(Int) /\ Len(Steps(a, b)) = J!Between(a, b)
         /\ \A k \in 1 .. J!Between(a, b) : Steps(a, b)[k] = IF a <= b THEN a + k ELSE a - k
<1>1. CASE a <= b
  <2>1. b - a \in Nat /\ J!Between(a, b) = b - a
    BY <1>1, BetweenIs
  <2> DEFINE s == [k \in 1 .. b - a |-> a + k]
  <2>2. s \in Seq(Int) /\ Len(s) = b - a /\ \A k \in 1 .. b - a : s[k] = a + k
    BY <2>1
  <2>3. Steps(a, b) = s
    BY <1>1 DEF Steps
  <2> HIDE DEF s
  <2> QED BY <1>1, <2>1, <2>2, <2>3
<1>2. CASE ~(a <= b)
  <2>1. a - b \in Nat /\ J!Between(a, b) = a - b
    BY <1>2, BetweenIs
  <2> DEFINE s == [k \in 1 .. a - b |-> a - k]
  <2>2. s \in Seq(Int) /\ Len(s) = a - b /\ \A k \in 1 .. a - b : s[k] = a - k
    BY <2>1
  <2>3. Steps(a, b) = s
    BY <1>2 DEF Steps
  <2> HIDE DEF s
  <2> QED BY <1>2, <2>1, <2>2, <2>3
<1> QED BY <1>1, <1>2

(* What is so far on the way: after the steps to a point there are as many *)
(* places as its distance, and those of each segment begin at its          *)
(* distance.                                                               *)
Passes(way, i, points, cum) ==
  /\ Len(way) = cum[i + 1]
  /\ \A j \in 1 .. i : \A k \in 1 .. J!Between(points[j], points[j + 1]) :
       way[cum[j] + k] = Steps(points[j], points[j + 1])[k]

LEMMA Behind ==
  ASSUME NEW x \in Nat, NEW y \in Nat, NEW k \in 1 .. y
  PROVE  x + k \in 1 .. x + y /\ ~(x + k <= x) /\ (x + k) - x = k
  OBVIOUS

LEMMA WithinTheFirst ==
  ASSUME NEW x \in Nat, NEW y \in Nat, NEW at \in Nat, NEW gap \in Nat, at + gap <= x,
         NEW k \in 1 .. gap
  PROVE  at + k \in 1 .. x + y /\ at + k <= x
  OBVIOUS

LEMMA PassesOn ==
  ASSUME NEW n \in Nat, NEW points \in [1 .. n -> Int], NEW cum, Cumulates(cum, points, n),
         NEW i \in 1 .. n - 2, NEW way \in Seq(Int), Passes(way, i, points, cum)
  PROVE  Passes(way \o Steps(points[i + 1], points[i + 2]), i + 1, points, cum)
<1> PICK a, b : a = points[i + 1] /\ b = points[i + 2]
  OBVIOUS
<1> PICK more : more = Steps(a, b)
  OBVIOUS
<1>n. PICK new : new = way \o more
  OBVIOUS
<1>l. PICK x, y : x = Len(way) /\ y = Len(more)
  OBVIOUS
<1>1. /\ a \in Int /\ b \in Int /\ i + 1 \in 1 .. n - 1 /\ i + 2 \in 1 .. n /\ (i + 1) + 1 = i + 2
      /\ i \in 1 .. n - 1
  OBVIOUS
<1>2. /\ more \in Seq(Int) /\ Len(more) = J!Between(a, b) /\ J!Between(a, b) \in Nat
  BY <1>1, StepsAre, BetweenIs
<1>3. /\ cum \in [1 .. n -> Nat] /\ cum[i + 2] = cum[i + 1] + J!Between(a, b)
  BY <1>1 DEF Cumulates
<1>4. Len(way) = cum[i + 1] /\ cum[i + 1] \in Nat /\ cum[i + 2] \in Nat
  BY <1>1, <1>3 DEF Passes
<1>s. x \in Nat /\ y \in Nat /\ x = cum[i + 1] /\ y = J!Between(a, b)
  BY <1>2, <1>4, <1>l
<1>5. Len(new) = x + y /\ \A k \in 1 .. x + y : new[k] = IF k <= x THEN way[k] ELSE more[k - x]
  <2>1. /\ Len(way \o more) = Len(way) + Len(more)
        /\ \A k \in 1 .. Len(way) + Len(more) :
             (way \o more)[k] = IF k <= Len(way) THEN way[k] ELSE more[k - Len(way)]
    BY <1>2, ConcatProperties
  <2> QED BY <1>n, <1>l, <2>1, Zenon
<1>6. Len(new) = cum[(i + 1) + 1]
  BY <1>1, <1>3, <1>5, <1>s
<1>7. ASSUME NEW j \in 1 .. i + 1, NEW k \in 1 .. J!Between(points[j], points[j + 1])
      PROVE  new[cum[j] + k] = Steps(points[j], points[j + 1])[k]
  <2>1. CASE j = i + 1
    <3>1. cum[j] = x /\ k \in 1 .. y /\ points[j] = a /\ points[j + 1] = b
      BY <1>1, <1>s, <2>1
    <3>2. x + k \in 1 .. x + y /\ ~(x + k <= x) /\ (x + k) - x = k
      BY <1>s, <3>1, Behind, Zenon
    <3>3. new[x + k] = more[k]
      BY <1>5, <3>2
    <3> QED BY <3>1, <3>3
  <2>2. CASE j # i + 1
    <3>1. j \in 1 .. i /\ j \in 1 .. n - 1 /\ j \in 1 .. n /\ j + 1 \in 1 .. n
          /\ j + 1 \in 1 .. i + 1 /\ i + 1 \in 1 .. n
      BY <2>2
    <3>b. PICK at, next, gap : at = cum[j] /\ next = cum[j + 1] /\ gap = J!Between(points[j], points[j + 1])
      OBVIOUS
    <3>2. next <= x
      <4>1. n \in Nat \ {0}
        BY <3>1
      <4>2. cum[j + 1] <= cum[i + 1]
        BY <3>1, <4>1, DistancesGrow
      <4> QED BY <1>s, <3>b, <4>2
    <3>3. next = at + gap /\ at \in Nat
      BY <1>3, <3>1, <3>b DEF Cumulates
    <3>4. points[j] \in Int /\ points[j + 1] \in Int
      BY <3>1
    <3>5. gap \in Nat
      BY <3>4, <3>b, BetweenIs
    <3>6. k \in 1 .. gap
      BY <3>b
    <3>7. at + k \in 1 .. x + y /\ at + k <= x
      <4>1. at + gap <= x
        BY <3>2, <3>3, Zenon
      <4> QED BY <1>s, <3>3, <3>5, <3>6, <4>1, WithinTheFirst, Zenon
    <3>9. new[at + k] = way[at + k]
      BY <1>5, <3>7
    <3>8. way[cum[j] + k] = Steps(points[j], points[j + 1])[k]
      BY <3>1 DEF Passes
    <3> QED BY <3>b, <3>8, <3>9
  <2> QED BY <2>1, <2>2
<1> QED BY <1>n, <1>6, <1>7 DEF Passes

(* The way is as long as the distances say, and the k-th unit behind a     *)
(* point is k units from it towards the next.                              *)
IsWay(way, points, cum, n) ==
  /\ way \in Seq(Int) /\ Len(way) = cum[n] + 1
  /\ \A i \in 1 .. n : way[cum[i] + 1] = points[i]
  /\ \A i \in 1 .. n - 1 : \A k \in 1 .. J!Between(points[i], points[i + 1]) :
       way[cum[i] + k + 1] = IF points[i] <= points[i + 1] THEN points[i] + k ELSE points[i] - k

LEMMA WayIs ==
  ASSUME NEW points \in Seq(Int), Len(points) >= 2
  PROVE  IsWay(J!Way(points), points, J!CumDist(points), Len(points))
<1> PICK n : n = Len(points)
  OBVIOUS
<1> PICK cum : cum = J!CumDist(points)
  OBVIOUS
<1>1. n \in Nat \ {0} /\ n >= 2 /\ points \in [1 .. n -> Int] /\ points # <<>>
  OBVIOUS
<1>2. Cumulates(cum, points, n) /\ cum \in [1 .. n -> Nat] /\ cum[1] = 0
  BY <1>1, Distances DEF Cumulates
<1> DEFINE parts == [i \in 1 .. n - 1 |-> Steps(points[i], points[i + 1])]
<1>3. /\ parts \in Seq(Seq(Int)) /\ Len(parts) = n - 1 /\ parts # <<>>
      /\ \A i \in 1 .. n - 1 : parts[i] = Steps(points[i], points[i + 1])
  <2>1. ASSUME NEW i \in 1 .. n - 1 PROVE parts[i] \in Seq(Int)
    <3>1. points[i] \in Int /\ points[i + 1] \in Int
      BY <1>1
    <3> QED BY <3>1, StepsAre
  <2>2. PICK W : W = Seq(Int)
    OBVIOUS
  <2>3. n - 1 \in Nat /\ parts \in [1 .. n - 1 -> W]
    BY <1>1, <2>1, <2>2
  <2>4. parts \in Seq(W) /\ Len(parts) = n - 1
    <3> HIDE DEF parts
    <3> QED BY <2>3
  <2>5. parts # <<>>
    <3> HIDE DEF parts
    <3> QED BY <1>1, <2>4
  <2> QED BY <2>2, <2>4, <2>5
<1>4. J!Way(points) = <<points[1]>> \o J!FlattenSeq(parts)
  BY Zenon DEF J!Way, Steps
<1> HIDE DEF parts
<1>5. PICK whole : /\ Flattens(whole, parts, n - 1, Int)
                   /\ J!FlattenSeq(parts) = whole[n - 1]
  BY <1>3, OneAfterTheOther
<1> DEFINE T == {i \in 1 .. n - 1 : Passes(whole[i], i, points, cum)}
<1>6. 1 \in T
  <2>1. whole[1] = Steps(points[1], points[2]) /\ 1 \in 1 .. n - 1
    BY <1>1, <1>3, <1>5 DEF Flattens
  <2>2. points[1] \in Int /\ points[2] \in Int
    BY <1>1
  <2>3. Len(whole[1]) = J!Between(points[1], points[2]) /\ J!Between(points[1], points[2]) \in Nat
    <3>1. /\ Len(Steps(points[1], points[2])) = J!Between(points[1], points[2])
          /\ J!Between(points[1], points[2]) \in Nat
      BY <2>2, StepsAre, BetweenIs
    <3> QED BY <2>1, <3>1
  <2>4. cum[2] = cum[1] + J!Between(points[1], points[2]) /\ 1 + 1 = 2
    BY <1>1, <1>2, <2>1 DEF Cumulates
  <2>5. Len(whole[1]) = cum[1 + 1]
    BY <1>2, <2>3, <2>4
  <2>6. ASSUME NEW j \in 1 .. 1, NEW k \in 1 .. J!Between(points[j], points[j + 1])
        PROVE  whole[1][cum[j] + k] = Steps(points[j], points[j + 1])[k]
    <3>1. j = 1 /\ j + 1 = 2 /\ cum[j] = 0
      BY <1>2
    <3>2. k \in Int /\ cum[j] + k = k
      BY <2>3, <3>1
    <3> QED BY <2>1, <3>1, <3>2
  <2> QED BY <2>1, <2>5, <2>6 DEF Passes
<1>7. ASSUME NEW i \in 1 .. (n - 1) - 1, i \in T PROVE i + 1 \in T
  <2>1. i \in 1 .. n - 2 /\ i + 1 \in 1 .. n - 1 /\ i \in 1 .. n - 1 /\ (i + 1) + 1 = i + 2
    BY <1>1
  <2>2. whole[i] \in Seq(Int) /\ whole[i + 1] = whole[i] \o Steps(points[i + 1], points[i + 2])
    BY <1>3, <1>5, <2>1 DEF Flattens
  <2>3. Passes(whole[i], i, points, cum)
    BY <1>7
  <2>4. Passes(whole[i + 1], i + 1, points, cum)
    <3>1. Passes(whole[i] \o Steps(points[i + 1], points[i + 2]), i + 1, points, cum)
      BY <1>1, <1>2, <2>1, <2>2, <2>3, PassesOn
    <3> QED BY <2>2, <3>1
  <2> QED BY <2>1, <2>4
<1>8. Passes(whole[n - 1], n - 1, points, cum)
  <2> HIDE DEF T
  <2>1. n - 1 \in Nat /\ n - 1 \in 1 .. n - 1
    BY <1>1
  <2>2. \A i \in 1 .. n - 1 : i \in T
    BY <1>6, <1>7, <2>1, FirstAndNext
  <2> QED BY <2>1, <2>2 DEF T
<1> PICK rest : rest = whole[n - 1]
  OBVIOUS
<1> PICK way : way = J!Way(points)
  OBVIOUS
<1>9. rest \in Seq(Int) /\ Len(rest) = cum[n] /\ cum[n] \in Nat
  <2>1. n - 1 \in 1 .. n - 1 /\ (n - 1) + 1 = n /\ n \in 1 .. n
    BY <1>1
  <2> QED BY <1>2, <1>5, <1>8, <2>1 DEF Flattens, Passes
<1>10. /\ way \in Seq(Int) /\ Len(way) = cum[n] + 1 /\ way[1] = points[1]
       /\ \A k \in 1 .. cum[n] : way[k + 1] = rest[k]
  <2>1. <<points[1]>> \in Seq(Int) /\ Len(<<points[1]>>) = 1
    BY <1>1
  <2>2. way = <<points[1]>> \o rest
    BY <1>4, <1>5
  <2>3. /\ way \in Seq(Int) /\ Len(way) = 1 + cum[n]
        /\ \A k \in 1 .. 1 + cum[n] : way[k] = IF k <= 1 THEN <<points[1]>>[k] ELSE rest[k - 1]
    BY <1>9, <2>1, <2>2, ConcatProperties, SMTT(30)
  <2>4. \A k \in 1 .. cum[n] : k + 1 \in 1 .. 1 + cum[n] /\ ~(k + 1 <= 1) /\ (k + 1) - 1 = k
    BY <1>9
  <2>5. 1 \in 1 .. 1 + cum[n]
    BY <1>9
  <2>6. ASSUME NEW k \in 1 .. cum[n] PROVE way[k + 1] = rest[k]
    BY <2>3, <2>4, Zenon
  <2>7. way[1] = points[1]
    <3>1. way[1] = <<points[1]>>[1]
      BY <2>3, <2>5
    <3> QED BY <3>1
  <2>8. Len(way) = cum[n] + 1
    BY <1>9, <2>3
  <2> QED BY <2>3, <2>6, <2>7, <2>8
<1>11. ASSUME NEW i \in 1 .. n - 1, NEW k \in 1 .. J!Between(points[i], points[i + 1])
       PROVE  way[cum[i] + k + 1] = IF points[i] <= points[i + 1] THEN points[i] + k ELSE points[i] - k
  <2>1. points[i] \in Int /\ points[i + 1] \in Int /\ i \in 1 .. n /\ i + 1 \in 1 .. n /\ n \in 1 .. n
        /\ i + 1 \in 1 .. n
    BY <1>1
  <2>2. J!Between(points[i], points[i + 1]) \in Nat
    BY <2>1, BetweenIs
  <2>3. cum[i + 1] <= cum[n] /\ cum[i + 1] = cum[i] + J!Between(points[i], points[i + 1])
        /\ cum[i] \in Nat
    <3>1. cum[i + 1] <= cum[n]
      BY <1>1, <1>2, <2>1, DistancesGrow
    <3>2. cum[i + 1] = cum[i] + J!Between(points[i], points[i + 1])
      BY <1>2 DEF Cumulates
    <3> QED BY <1>2, <2>1, <3>1, <3>2
  <2>4. cum[i] + k \in 1 .. cum[n]
    <3>1. PICK at, next, end, gap : /\ at = cum[i] /\ next = cum[i + 1] /\ end = cum[n]
                                    /\ gap = J!Between(points[i], points[i + 1])
      OBVIOUS
    <3>2. at \in Nat /\ gap \in Nat /\ next = at + gap /\ end \in Nat /\ next <= end /\ k \in 1 .. gap
      BY <1>9, <2>2, <2>3, <3>1
    <3>3. at + k \in 1 .. end
      BY <3>2
    <3> QED BY <3>1, <3>3
  <2>5. way[(cum[i] + k) + 1] = rest[cum[i] + k]
    BY <1>10, <2>4, Zenon
  <2>6. rest[cum[i] + k] = Steps(points[i], points[i + 1])[k]
    BY <1>8 DEF Passes
  <2>7. Steps(points[i], points[i + 1])[k] =
          IF points[i] <= points[i + 1] THEN points[i] + k ELSE points[i] - k
    BY <2>1, StepsAre
  <2> QED BY <2>5, <2>6, <2>7
<1>12. \A i \in 1 .. n : way[cum[i] + 1] = points[i]
  <2> DEFINE Q == {i \in 1 .. n : way[cum[i] + 1] = points[i]}
  <2>1. 1 \in Q
    BY <1>1, <1>2, <1>10
  <2>2. ASSUME NEW i \in 1 .. n - 1, i \in Q PROVE i + 1 \in Q
    <3>1. points[i] \in Int /\ points[i + 1] \in Int /\ i \in 1 .. n /\ i + 1 \in 1 .. n
      BY <1>1
    <3> PICK b : b = J!Between(points[i], points[i + 1])
      OBVIOUS
    <3>2. cum[i + 1] = cum[i] + b /\ cum[i] \in Nat
      BY <1>2, <3>1 DEF Cumulates
    <3>3. b \in Nat /\ (b = 0 => points[i] = points[i + 1])
          /\ b = IF points[i] <= points[i + 1] THEN points[i + 1] - points[i] ELSE points[i] - points[i + 1]
      BY <3>1, BetweenIs
    <3>4. CASE b = 0
      <4>1. cum[i + 1] = cum[i] /\ points[i + 1] = points[i] /\ way[cum[i] + 1] = points[i]
        BY <2>2, <3>2, <3>3, <3>4
      <4> QED BY <3>1, <4>1
    <3>5. CASE b # 0
      <4>1. b \in 1 .. b
        BY <3>3, <3>5, SMTT(30)
      <4>2. way[cum[i] + b + 1] = IF points[i] <= points[i + 1] THEN points[i] + b ELSE points[i] - b
        BY <1>11, <4>1
      <4>3. way[cum[i + 1] + 1] = points[i + 1]
        BY <3>1, <3>2, <3>3, <4>2
      <4> QED BY <3>1, <4>3
    <3> QED BY <3>4, <3>5
  <2> HIDE DEF Q
  <2>3. \A i \in 1 .. n : i \in Q
    BY <1>1, <2>1, <2>2, FirstAndNext
  <2> QED BY <2>3 DEF Q
<1> QED BY <1>10, <1>11, <1>12, Zenon DEF IsWay

(* PointAt finds the place of the way that is as far as the distance, and  *)
(* the last place when the distance leads beyond it.                       *)
LEMMA PointIsOnTheWay ==
  ASSUME NEW points \in Seq(Int), Len(points) >= 2, NEW dist \in Nat
  PROVE  LET way == J!Way(points)
             at  == IF dist + 1 <= Len(way) THEN dist + 1 ELSE Len(way)
         IN /\ way \in Seq(Int) /\ Len(way) = J!Total(points) + 1 /\ J!Total(points) \in Nat
            /\ at \in 1 .. Len(way) /\ J!PointAt(points, dist) = way[at]
<1> PICK n : n = Len(points)
  OBVIOUS
<1> PICK cum : cum = J!CumDist(points)
  OBVIOUS
<1> PICK way : way = J!Way(points)
  OBVIOUS
<1>1. n \in Nat \ {0} /\ n >= 2 /\ points \in [1 .. n -> Int] /\ points # <<>>
  OBVIOUS
<1>2. Cumulates(cum, points, n) /\ cum \in [1 .. n -> Nat] /\ cum[1] = 0
  BY <1>1, Distances DEF Cumulates
<1>3. IsWay(way, points, cum, n)
  BY <1>1, WayIs
<1>4. J!Total(points) = cum[n] /\ cum[n] \in Nat
  BY <1>1, <1>2 DEF J!Total
<1>5. way \in Seq(Int) /\ Len(way) = cum[n] + 1
  BY <1>3 DEF IsWay
<1>6. ASSUME dist = 0 PROVE J!PointAt(points, dist) = way[1]
  <2>1. J!PointAt(points, dist) = points[1]
    BY <1>6 DEF J!PointAt
  <2>2. way[cum[1] + 1] = points[1] /\ cum[1] + 1 = 1
    BY <1>1, <1>2, <1>3 DEF IsWay
  <2> QED BY <2>1, <2>2
<1>7. ASSUME dist # 0, dist >= cum[n] PROVE J!PointAt(points, dist) = way[cum[n] + 1]
  <2>1. J!PointAt(points, dist) = points[n]
    BY <1>4, <1>7 DEF J!PointAt, J!Last
  <2> QED BY <1>1, <1>3, <2>1 DEF IsWay
<1>8. ASSUME dist # 0, dist < cum[n] PROVE J!PointAt(points, dist) = way[dist + 1]
  <2> PICK at : at = J!Segment(points, dist)
    OBVIOUS
  <2>1. at \in 1 .. n - 1 /\ cum[at] <= dist /\ dist < cum[at + 1]
    BY <1>1, <1>4, <1>8, SegmentOf
  <2>2. points[at] \in Int /\ points[at + 1] \in Int /\ at \in 1 .. n
    BY <1>1, <2>1
  <2>3. cum[at] \in Nat /\ cum[at + 1] = cum[at] + J!Between(points[at], points[at + 1])
    BY <1>2, <2>1, <2>2 DEF Cumulates
  <2>4. J!Between(points[at], points[at + 1]) \in Nat
    BY <2>2, BetweenIs
  <2> PICK into : into = dist - cum[at]
    OBVIOUS
  <2>5. into \in Nat /\ into < J!Between(points[at], points[at + 1]) /\ dist = cum[at] + into
    <3>1. PICK c, next, gap : /\ c = cum[at] /\ next = cum[at + 1]
                              /\ gap = J!Between(points[at], points[at + 1])
      OBVIOUS
    <3>2. c \in Nat /\ gap \in Nat /\ next = c + gap /\ c <= dist /\ dist < next /\ into = dist - c
      BY <2>1, <2>3, <2>4, <3>1
    <3>3. into \in Nat /\ into < gap /\ dist = c + into
      BY <3>2
    <3> QED BY <3>1, <3>3
  <2>6. J!PointAt(points, dist) =
          IF points[at] <= points[at + 1] THEN points[at] + into ELSE points[at] - into
    <3>1. ~(dist <= 0) /\ ~(dist >= J!Total(points))
      BY <1>4, <1>8
    <3> QED BY <3>1, Zenon DEF J!PointAt
  <2>7. CASE into = 0
    <3>1. way[cum[at] + 1] = points[at]
      BY <1>3, <2>2 DEF IsWay
    <3> QED BY <2>2, <2>3, <2>5, <2>6, <2>7, <3>1
  <2>8. CASE into # 0
    <3>1. into \in 1 .. J!Between(points[at], points[at + 1])
      BY <2>4, <2>5, <2>8
    <3>2. way[cum[at] + into + 1] =
            IF points[at] <= points[at + 1] THEN points[at] + into ELSE points[at] - into
      BY <1>3, <2>1, <3>1, Zenon DEF IsWay
    <3> QED BY <2>5, <2>6, <3>2
  <2> QED BY <2>7, <2>8
<1>9. ASSUME NEW at, at = IF dist + 1 <= Len(way) THEN dist + 1 ELSE Len(way)
      PROVE  at \in 1 .. Len(way) /\ J!PointAt(points, dist) = way[at]
  <2>1. CASE dist < cum[n]
    <3>1. at = dist + 1 /\ at \in 1 .. Len(way)
      BY <1>4, <1>5, <1>9, <2>1, SMTT(30)
    <3>2. CASE dist = 0
      <4>1. at = 1
        BY <3>1, <3>2
      <4> QED BY <1>6, <3>1, <3>2, <4>1
    <3>3. CASE dist # 0
      BY <1>8, <2>1, <3>1, <3>3
    <3> QED BY <3>2, <3>3
  <2>2. CASE ~(dist < cum[n])
    <3>1. at = cum[n] + 1 /\ at \in 1 .. Len(way) /\ dist >= cum[n]
      BY <1>4, <1>5, <1>9, <2>2, SMTT(30)
    <3>2. CASE dist = 0
      <4>1. at = 1
        BY <1>4, <3>1, <3>2
      <4> QED BY <1>6, <3>1, <3>2, <4>1
    <3>3. CASE dist # 0
      BY <1>7, <3>1, <3>3
    <3> QED BY <3>2, <3>3
  <2> QED BY <2>1, <2>2
<1> QED BY <1>4, <1>5, <1>9

(***************************************************************************)
(* Journeys.                                                               *)
(***************************************************************************)

(* How far a distance leads on a way.                                      *)
Here(way, dist) == IF dist + 1 <= Len(way) THEN dist + 1 ELSE Len(way)

LEMMA LeastOfTwo ==
  ASSUME NEW a \in Int, NEW b \in Int
  PROVE  J!Min({a, b}) = IF a <= b THEN a ELSE b
<1>1. \A x \in {a, b} : (\A y \in {a, b} : x <= y) <=> x = IF a <= b THEN a ELSE b
  OBVIOUS
<1> QED BY <1>1, Zenon DEF J!Min

LEMMA HereIs ==
  ASSUME NEW way \in Seq(Int), NEW dist \in Nat
  PROVE  J!Min({Len(way), dist + 1}) = Here(way, dist)
<1> PICK a, b : a = Len(way) /\ b = dist + 1
  OBVIOUS
<1>1. a \in Nat /\ b \in Nat
  OBVIOUS
<1>2. J!Min({a, b}) = IF a <= b THEN a ELSE b
  BY <1>1, LeastOfTwo
<1>3. (IF a <= b THEN a ELSE b) = IF b <= a THEN b ELSE a
  BY <1>1
<1> QED BY <1>2, <1>3, Zenon DEF Here

(* What was sent are places of the way, in its order.                      *)
OnWay(way, out) ==
  /\ \A i \in 1 .. Len(out) : out[i].seq = i /\ \E j \in 1 .. Len(way) : way[j] = out[i].at
  /\ \A i \in 1 .. Len(out) - 1 :
       \E j, k \in 1 .. Len(way) : j <= k /\ way[j] = out[i].at /\ way[k] = out[i + 1].at

Sends(way, out, new, place) ==
  /\ new \in Seq(J!Positions) /\ Len(new) = Len(out) + 1 /\ new # <<>>
  /\ new[Len(new)].at = place /\ OnWay(way, new)

LEMMA SendsOn ==
  ASSUME NEW way \in Seq(Int), NEW out \in Seq(J!Positions), NEW at \in 1 .. Len(way), NEW message,
         OnWay(way, out), message = [seq |-> Len(out) + 1, at |-> way[at]],
         out # <<>> => \E j \in 1 .. at : way[j] = out[Len(out)].at
  PROVE  Sends(way, out, Append(out, message), way[at])
<1>p. PICK new, n : new = Append(out, message) /\ n = Len(out)
  OBVIOUS
<1>1. n \in Nat /\ way[at] \in Int /\ message \in J!Positions /\ message.seq = n + 1 /\ message.at = way[at]
  BY <1>p DEF J!Positions
<1>2. /\ new \in Seq(J!Positions) /\ Len(new) = n + 1 /\ new[n + 1] = message
      /\ \A i \in 1 .. n : new[i] = out[i]
  BY <1>p, <1>1, AppendProperties
<1>3. ASSUME NEW i \in 1 .. n + 1
      PROVE  new[i].seq = i /\ \E j \in 1 .. Len(way) : way[j] = new[i].at
  <2>1. CASE i = n + 1
    BY <1>1, <1>2, <2>1
  <2>2. CASE i # n + 1
    <3>1. i \in 1 .. n
      BY <1>1, <2>2
    <3> QED BY <1>p, <1>2, <3>1 DEF OnWay
  <2> QED BY <2>1, <2>2
<1>4. ASSUME NEW i \in 1 .. n
      PROVE  \E j, k \in 1 .. Len(way) : j <= k /\ way[j] = new[i].at /\ way[k] = new[i + 1].at
  <2>1. CASE i = n
    <3>1. out # <<>> /\ new[i] = out[n] /\ new[i + 1] = message
      BY <1>p, <1>1, <1>2, <2>1
    <3>2. PICK j \in 1 .. at : way[j] = out[n].at
      BY <1>p, <3>1
    <3>3. j \in 1 .. Len(way) /\ j <= at
      OBVIOUS
    <3> QED BY <1>1, <3>1, <3>2, <3>3, Zenon
  <2>2. CASE i # n
    <3>1. i \in 1 .. n - 1 /\ i + 1 \in 1 .. n
      BY <1>1, <2>2
    <3> QED BY <1>p, <1>2, <3>1 DEF OnWay
  <2> QED BY <2>1, <2>2
<1>5. Len(new) = n + 1 /\ (n + 1) - 1 = n
  BY <1>1, <1>2
<1>6. OnWay(way, new)
  BY <1>3, <1>4, <1>5, Zenon DEF OnWay
<1>7. new # <<>>
  BY <1>1, <1>5
<1>8. new[Len(new)].at = way[at]
  BY <1>1, <1>2
<1> QED BY <1>p, <1>2, <1>5, <1>6, <1>7, <1>8, Zenon DEF Sends

(* What is known of a journey that was started, by what it sent.           *)
JourneyOK(k, out, t) ==
  /\ k \in J!Journeys /\ out \in Seq(J!Positions) /\ k.seq = Len(out) + 1 /\ Len(k.points) >= 2
  /\ k.began <= t /\ k.dist <= (t - k.began) * k.speed
  /\ OnWay(J!Way(k.points), out)
  /\ out = <<>> => k.step \in {"look", "send"}
  /\ out # <<>> =>
       /\ \E j \in 1 .. Here(J!Way(k.points), k.dist) : J!Way(k.points)[j] = out[Len(out)].at
       /\ k.step # "send" => J!Way(k.points)[Here(J!Way(k.points), k.dist)] = out[Len(out)].at
  /\ k.step \in {"leave", "ended"} => k.cancelled \/ k.dist >= J!Total(k.points)

JourneysOK ==
  /\ sim = [s \in Sims |-> sim[s]] /\ sent = [s \in Sims |-> sent[s]]
  /\ activeSims = {s \in Sims : J!Running(s)} /\ now \in 0 .. MaxTime
  /\ \A s \in Sims : \/ sim[s] = [step |-> "none"] /\ sent[s] = <<>>
                     \/ JourneyOK(sim[s], sent[s], now)

(* What is known gives the types and the properties.                       *)
LEMMA JourneysTyped == JourneysOK => J!TypeOK
<1> SUFFICES ASSUME JourneysOK PROVE J!TypeOK
  OBVIOUS
<1>1. \A s \in Sims : sent[s] \in Seq(J!Positions)
  <2>1. <<>> \in Seq(J!Positions)
    OBVIOUS
  <2> QED BY <2>1, Zenon DEF JourneysOK, JourneyOK
<1>2. \A s \in Sims : sim[s] \in {[step |-> "none"]} \cup J!Journeys
  BY Zenon DEF JourneysOK, JourneyOK
<1>3. sim \in [Sims -> {[step |-> "none"]} \cup J!Journeys] /\ sent \in [Sims -> Seq(J!Positions)]
  BY <1>1, <1>2, Zenon DEF JourneysOK
<1> QED BY <1>3, Zenon DEF JourneysOK, J!TypeOK

LEMMA JourneysFollow == JourneysOK => J!JourneyInv /\ J!FollowsTheWay
<1> SUFFICES ASSUME JourneysOK, NEW s \in Sims
             PROVE  /\ sim[s].step = "none" => sent[s] = <<>>
                    /\ sim[s].step # "none" =>
                         LET k    == sim[s]
                             way  == J!Way(k.points)
                             here == J!Min({Len(way), k.dist + 1})
                             place == [i \in DOMAIN sent[s] |-> {j \in DOMAIN way : way[j] = sent[s][i].at}]
                         IN /\ Len(k.points) >= 2 /\ k.seq = Len(sent[s]) + 1
                            /\ k.began <= now /\ k.dist <= (now - k.began) * k.speed
                            /\ sent[s] = <<>> => k.step \in {"look", "send"}
                            /\ sent[s] # <<>> =>
                                 /\ \E j \in 1 .. here : way[j] = J!Last(sent[s]).at
                                 /\ k.step # "send" => way[here] = J!Last(sent[s]).at
                            /\ k.step \in {"leave", "ended"} => k.cancelled \/ k.dist >= J!Total(k.points)
                            /\ \A i \in DOMAIN sent[s] : sent[s][i].seq = i /\ place[i] # {}
                            /\ \A i \in 1 .. Len(sent[s]) - 1 :
                                 \E j \in place[i], l \in place[i + 1] : j <= l
                            /\ k.step \in {"wait", "leave", "ended"} => J!Last(sent[s]).at = way[here]
                            /\ k.step = "ended" /\ ~k.cancelled => J!Last(sent[s]).at = J!Last(way)
  BY Zenon DEF J!JourneyInv, J!FollowsTheWay
<1> DEFINE k   == sim[s]
           out == sent[s]
<1>1. CASE k = [step |-> "none"] /\ out = <<>>
  <2>1. k.step = "none"
    BY <1>1
  <2> QED BY <1>1, <2>1, Zenon
<1>2. CASE JourneyOK(k, out, now)
  <2> DEFINE way == J!Way(k.points)
  <2>1. k \in J!Journeys /\ out \in Seq(J!Positions) /\ k.points \in Seq(Int) /\ Len(k.points) >= 2
        /\ k.dist \in Nat /\ k.step # "none"
    BY <1>2 DEF JourneyOK, J!Journeys
  <2>2. way \in Seq(Int) /\ Len(way) = J!Total(k.points) + 1 /\ J!Total(k.points) \in Nat
    BY <2>1, PointIsOnTheWay
  <2>3. J!Min({Len(way), k.dist + 1}) = Here(way, k.dist)
    BY <2>1, <2>2, HereIs
  <2> DEFINE place == [i \in DOMAIN out |-> {j \in DOMAIN way : way[j] = out[i].at}]
  <2>4. DOMAIN way = 1 .. Len(way) /\ DOMAIN out = 1 .. Len(out) /\ Len(out) \in Nat
    BY <2>1, <2>2
  <2>5. \A i \in DOMAIN out : out[i].seq = i /\ place[i] # {}
    BY <1>2, <2>4 DEF JourneyOK, OnWay
  <2>6. ASSUME NEW i \in 1 .. Len(out) - 1 PROVE \E j \in place[i], l \in place[i + 1] : j <= l
    <3>1. i \in DOMAIN out /\ i + 1 \in DOMAIN out
      BY <2>4
    <3>2. PICK j, l \in 1 .. Len(way) : j <= l /\ way[j] = out[i].at /\ way[l] = out[i + 1].at
      BY <1>2 DEF JourneyOK, OnWay
    <3>3. j \in place[i] /\ l \in place[i + 1]
      BY <2>4, <3>1, <3>2
    <3> QED BY <3>2, <3>3, Zenon
  <2>7. J!Last(out) = out[Len(out)] /\ J!Last(way) = way[Len(way)]
    BY DEF J!Last
  <2>8. k.step \in {"wait", "leave", "ended"} => J!Last(out).at = way[Here(way, k.dist)]
    BY <1>2, <2>7 DEF JourneyOK
  <2>9. k.step = "ended" /\ ~k.cancelled => J!Last(out).at = J!Last(way)
    <3> SUFFICES ASSUME k.step = "ended", ~k.cancelled PROVE J!Last(out).at = J!Last(way)
      OBVIOUS
    <3>1. k.dist >= J!Total(k.points)
      BY <1>2 DEF JourneyOK
    <3>2. Here(way, k.dist) = Len(way)
      BY <2>1, <2>2, <3>1 DEF Here
    <3> QED BY <2>7, <2>8, <3>2
  <2>10. /\ k.seq = Len(out) + 1 /\ k.began <= now /\ k.dist <= (now - k.began) * k.speed
         /\ out = <<>> => k.step \in {"look", "send"}
         /\ out # <<>> =>
              /\ \E j \in 1 .. Here(way, k.dist) : way[j] = J!Last(out).at
              /\ k.step # "send" => way[Here(way, k.dist)] = J!Last(out).at
         /\ k.step \in {"leave", "ended"} => k.cancelled \/ k.dist >= J!Total(k.points)
    BY <1>2, <2>7, Zenon DEF JourneyOK
  <2> QED BY <2>1, <2>3, <2>5, <2>6, <2>8, <2>9, <2>10, Zenon
<1> QED BY <1>1, <1>2, Zenon DEF JourneysOK

(* A longer time leads at least as far.                                    *)
LEMMA LongerIsFurther ==
  ASSUME NEW a \in Nat, NEW b \in Nat, a <= b, NEW c \in Nat
  PROVE  a * c <= b * c /\ a * c \in Nat
<1>1. PICK d \in Nat : d = b - a
  OBVIOUS
<1>2. b = a + d
  BY <1>1
<1>3. (a + d) * c = a * c + d * c
  OBVIOUS
<1>4. a * c \in Nat /\ d * c \in Nat
  OBVIOUS
<1> QED BY <1>2, <1>3, <1>4

(* A step of one journey at most.                                          *)
LEMMA OneJourney ==
  ASSUME JourneysOK, NEW s \in Sims, NEW k, NEW out, JourneyOK(k, out, now),
         sim' = [sim EXCEPT ![s] = k], sent' = [sent EXCEPT ![s] = out], now' = now,
         activeSims' = IF k.step = "ended" THEN activeSims \ {s} ELSE activeSims \cup {s}
  PROVE  JourneysOK'
<1>1. /\ sim' = [q \in Sims |-> sim'[q]] /\ sent' = [q \in Sims |-> sent'[q]]
      /\ sim'[s] = k /\ sent'[s] = out
      /\ \A q \in Sims \ {s} : sim'[q] = sim[q] /\ sent'[q] = sent[q]
  BY DEF JourneysOK
<1>2. k.step \in {"look", "send", "wait", "leave", "ended"}
  BY DEF JourneyOK, J!Journeys
<1>3. activeSims' = {q \in Sims : J!Running(q)'}
  <2>1. J!Running(s)' <=> k.step # "ended"
    BY <1>1, <1>2 DEF J!Running
  <2>2. \A q \in Sims \ {s} : J!Running(q)' <=> J!Running(q)
    BY <1>1 DEF J!Running
  <2>3. activeSims = {q \in Sims : J!Running(q)}
    BY DEF JourneysOK
  <2> QED BY <2>1, <2>2, <2>3
<1>4. ASSUME NEW q \in Sims
      PROVE  \/ sim'[q] = [step |-> "none"] /\ sent'[q] = <<>>
             \/ JourneyOK(sim'[q], sent'[q], now')
  <2>1. CASE q = s
    BY <1>1, <2>1, Zenon
  <2>2. CASE q # s
    <3>1. sim'[q] = sim[q] /\ sent'[q] = sent[q]
      BY <1>1, <2>2
    <3>2. \/ sim[q] = [step |-> "none"] /\ sent[q] = <<>>
          \/ JourneyOK(sim[q], sent[q], now)
      BY Zenon DEF JourneysOK
    <3> QED BY <3>1, <3>2, Zenon
  <2> QED BY <2>1, <2>2
<1>5. now' \in 0 .. MaxTime
  BY DEF JourneysOK
<1> QED BY <1>1, <1>3, <1>4, <1>5, Zenon DEF JourneysOK

(* A journey that is under way.                                            *)
LEMMA KnowingJourney ==
  ASSUME JourneysOK, NEW s \in Sims, sim[s].step # "none"
  PROVE  /\ JourneyOK(sim[s], sent[s], now) /\ sim[s] \in J!Journeys /\ sent[s] \in Seq(J!Positions)
         /\ sim[s].points \in Seq(Int) /\ Len(sim[s].points) >= 2
         /\ sim[s].dist \in Nat /\ sim[s].began \in Nat /\ sim[s].speed \in Nat \ {0} /\ now \in Nat
<1>1. JourneyOK(sim[s], sent[s], now)
  <2>1. sim[s] = [step |-> "none"] => sim[s].step = "none"
    OBVIOUS
  <2> QED BY <2>1 DEF JourneysOK
<1>2. now \in Nat
  <2>1. now \in 0 .. MaxTime
    BY DEF JourneysOK
  <2> QED BY <2>1
<1> QED BY <1>1, <1>2 DEF JourneyOK, J!Journeys

LEMMA NothingSent == ASSUME NEW way PROVE OnWay(way, <<>>)
  BY DEF OnWay

LEMMA PointsTyped ==
  ASSUME NEW f \in Files
  PROVE  J!PointsOf(f) \in Seq(Int)
<1>1. f.tracks \in Seq(Seq(Int)) /\ f.routes \in Seq(Seq(Int)) /\ f.waypoints \in Seq(Int)
  BY JourneyAssumption DEF JourneyAssumption
<1>2. J!FlattenSeq(f.tracks) \in Seq(Int) /\ J!FlattenSeq(f.routes) \in Seq(Int)
  BY <1>1, FlatType
<1> QED BY <1>1, <1>2, Zenon DEF J!PointsOf

LEMMA StartJourney ==
  ASSUME JourneysOK, NEW s \in Sims, J!Start(s)
  PROVE  JourneysOK'
<1>1. PICK f \in Files, speed \in Speeds :
        /\ Len(J!PointsOf(f)) >= 2
        /\ sim' = [sim EXCEPT ![s] =
             [step |-> "look", points |-> J!PointsOf(f), speed |-> speed, began |-> now,
              dist |-> 0, seq |-> 1, tick |-> FALSE, cancelled |-> FALSE]]
  BY DEF J!Start
<1>p. PICK k : k = [step |-> "look", points |-> J!PointsOf(f), speed |-> speed, began |-> now,
                    dist |-> 0, seq |-> 1, tick |-> FALSE, cancelled |-> FALSE]
  OBVIOUS
<1>2. now \in Nat
  <2>1. now \in 0 .. MaxTime
    BY DEF JourneysOK
  <2> QED BY <2>1
<1>3. /\ k \in J!Journeys /\ k.step = "look" /\ k.dist = 0 /\ k.seq = 1 /\ k.began = now
      /\ k.points = J!PointsOf(f) /\ k.speed \in Nat
  <2>1. J!PointsOf(f) \in Seq(Int) /\ speed \in Nat \ {0}
    BY PointsTyped, JourneyAssumption DEF JourneyAssumption
  <2> QED BY <1>p, <1>2, <2>1 DEF J!Journeys
<1>4. sent[s] = <<>>
  <2>1. sim[s].step = "none"
    BY DEF J!Start
  <2>2. JourneyOK(sim[s], sent[s], now) => sim[s].step # "none"
    BY DEF JourneyOK, J!Journeys
  <2> QED BY <2>1, <2>2, Zenon DEF JourneysOK
<1>5. JourneyOK(k, <<>>, now)
  <2>1. k.began <= now /\ k.dist <= (now - k.began) * k.speed
    <3>1. now - k.began = 0 /\ 0 * k.speed = 0
      BY <1>2, <1>3
    <3> QED BY <1>2, <1>3, <3>1
  <2>2. <<>> \in Seq(J!Positions) /\ k.seq = Len(<<>>) + 1
    BY <1>3
  <2> QED BY <1>1, <1>3, <2>1, <2>2, NothingSent DEF JourneyOK
<1>6. sent' = [sent EXCEPT ![s] = <<>>]
  <2>1. sent' = sent /\ sent = [q \in Sims |-> sent[q]]
    BY DEF J!Start, JourneysOK
  <2> QED BY <1>4, <2>1
<1>7. sim' = [sim EXCEPT ![s] = k] /\ now' = now /\ activeSims' = activeSims \cup {s} /\ k.step # "ended"
  BY <1>1, <1>p, <1>3 DEF J!Start
<1> QED BY <1>5, <1>6, <1>7, OneJourney

(* A step that sends nothing and does not move.                            *)
LEMMA StepsAside ==
  ASSUME NEW k, NEW out, NEW t, JourneyOK(k, out, t), NEW q \in J!Journeys,
         q.points = k.points, q.speed = k.speed, q.began = k.began, q.dist = k.dist, q.seq = k.seq,
         out = <<>> => q.step \in {"look", "send"},
         k.step # "send", q.step \in {"leave", "ended"} => q.cancelled \/ q.dist >= J!Total(q.points)
  PROVE  JourneyOK(q, out, t)
  BY DEF JourneyOK

LEMMA FurtherOn ==
  ASSUME NEW way, Len(way) \in Nat, NEW a \in Nat, NEW b \in Nat, a <= b
  PROVE  Here(way, a) \in Int /\ Here(way, b) \in Int /\ Here(way, a) <= Here(way, b)
<1> PICK n \in Nat : n = Len(way)
  OBVIOUS
<1>1. /\ Here(way, a) = IF a + 1 <= n THEN a + 1 ELSE n
      /\ Here(way, b) = IF b + 1 <= n THEN b + 1 ELSE n
  BY DEF Here
<1> QED BY <1>1

LEMMA LookJourney ==
  ASSUME JourneysOK, NEW s \in Sims, J!Look(s)
  PROVE  JourneysOK'
<1> DEFINE k   == sim[s]
           far == (now - k.began) * k.speed
<1>p. PICK q : q = [k EXCEPT !.step = "send", !.dist = far]
  OBVIOUS
<1>1. /\ JourneyOK(k, sent[s], now) /\ k \in J!Journeys /\ k.step = "look"
      /\ k.points \in Seq(Int) /\ Len(k.points) >= 2 /\ k.dist \in Nat /\ k.began \in Nat
      /\ k.speed \in Nat \ {0} /\ now \in Nat
  BY KnowingJourney DEF J!Look
<1>2. far \in Nat /\ k.dist <= far /\ k.began <= now
  <2>1. k.began <= now /\ k.dist <= far
    BY <1>1 DEF JourneyOK
  <2>2. PICK past, speed \in Nat : past = now - k.began /\ speed = k.speed
    BY <1>1, <2>1
  <2>3. past * speed \in Nat
    OBVIOUS
  <2> QED BY <2>1, <2>2, <2>3
<1> HIDE DEF far
<1>3. /\ q \in J!Journeys /\ q.step = "send" /\ q.dist = far /\ q.points = k.points /\ q.speed = k.speed
      /\ q.began = k.began /\ q.seq = k.seq
  <2> HIDE DEF k
  <2> QED BY <1>p, <1>1, <1>2 DEF J!Journeys
<1>4. JourneyOK(q, sent[s], now)
  <2> DEFINE way == J!Way(k.points)
  <2>1. way \in Seq(Int) /\ Len(way) \in Nat
    <3>1. way \in Seq(Int)
      BY <1>1, PointIsOnTheWay
    <3> QED BY <3>1
  <2>2. Here(way, k.dist) \in Int /\ Here(way, far) \in Int /\ Here(way, k.dist) <= Here(way, far)
    BY <1>1, <1>2, <2>1, FurtherOn, Zenon
  <2>3. sent[s] # <<>> => \E j \in 1 .. Here(way, far) : way[j] = sent[s][Len(sent[s])].at
    <3> SUFFICES ASSUME sent[s] # <<>> PROVE \E j \in 1 .. Here(way, far) : way[j] = sent[s][Len(sent[s])].at
      OBVIOUS
    <3>1. PICK j \in 1 .. Here(way, k.dist) : way[j] = sent[s][Len(sent[s])].at
      BY <1>1 DEF JourneyOK
    <3>2. j \in 1 .. Here(way, far)
      <4> HIDE DEF way, k
      <4> QED BY <2>2
    <3> QED BY <3>1, <3>2, Zenon
  <2>4. far = (now - q.began) * q.speed /\ q.dist <= (now - q.began) * q.speed
    BY <1>2, <1>3 DEF far
  <2>5. /\ sent[s] \in Seq(J!Positions) /\ k.seq = Len(sent[s]) + 1
        /\ OnWay(way, sent[s])
    BY <1>1, Zenon DEF JourneyOK
  <2>6. q.step \notin {"leave", "ended"} /\ q.step \in {"look", "send"}
    BY <1>3
  <2> QED BY <1>1, <1>2, <1>3, <2>3, <2>4, <2>5, <2>6, Zenon DEF JourneyOK
<1>5. sim' = [sim EXCEPT ![s] = q] /\ now' = now /\ activeSims' = activeSims
  BY <1>p DEF J!Look, far
<1>6. sent' = [sent EXCEPT ![s] = sent[s]] /\ activeSims = activeSims \cup {s}
  <2>1. sent' = sent /\ sent = [b \in Sims |-> sent[b]] /\ activeSims = {b \in Sims : J!Running(b)}
    BY DEF J!Look, JourneysOK
  <2>2. J!Running(s)
    BY <1>1 DEF J!Running
  <2> QED BY <2>1, <2>2
<1> QED BY <1>3, <1>4, <1>5, <1>6, OneJourney

LEMMA SendJourney ==
  ASSUME JourneysOK, NEW s \in Sims, J!Send(s)
  PROVE  JourneysOK'
<1> DEFINE k   == sim[s]
           out == sent[s]
           way == J!Way(k.points)
           at  == Here(way, k.dist)
           message == [seq |-> k.seq, at |-> J!PointAt(k.points, k.dist)]
           step == IF k.dist >= J!Total(k.points) THEN "leave" ELSE "wait"
<1>p. PICK q, new : q = [k EXCEPT !.seq = k.seq + 1, !.step = step] /\ new = Append(out, message)
  OBVIOUS
<1>1. /\ JourneyOK(k, out, now) /\ k \in J!Journeys /\ k.step = "send"
      /\ k.points \in Seq(Int) /\ Len(k.points) >= 2 /\ k.dist \in Nat /\ out \in Seq(J!Positions)
  BY KnowingJourney DEF J!Send
<1>2. way \in Seq(Int) /\ at \in 1 .. Len(way) /\ J!PointAt(k.points, k.dist) = way[at]
  BY <1>1, PointIsOnTheWay DEF Here
<1>3. /\ k.seq = Len(out) + 1 /\ OnWay(way, out)
      /\ out # <<>> => \E j \in 1 .. at : way[j] = out[Len(out)].at
  BY <1>1, Zenon DEF JourneyOK
<1>4. /\ new \in Seq(J!Positions) /\ Len(new) = Len(out) + 1 /\ new # <<>>
      /\ new[Len(new)].at = way[at] /\ OnWay(way, new)
  <2>1. message = [seq |-> Len(out) + 1, at |-> way[at]]
    BY <1>2, <1>3
  <2> HIDE DEF message, at, way, k, out
  <2>2. Sends(way, out, Append(out, message), way[at])
    BY <1>1, <1>2, <1>3, <2>1, SendsOn, Zenon
  <2> QED BY <1>p, <2>2, Zenon DEF Sends
<1>5. /\ q \in J!Journeys /\ q.step = step /\ q.seq = Len(new) + 1 /\ q.dist = k.dist
      /\ q.points = k.points /\ q.speed = k.speed /\ q.began = k.began
  <2>1. step \in {"leave", "wait"}
    OBVIOUS
  <2>2. k.seq + 1 \in Nat \ {0} /\ k.seq + 1 = Len(new) + 1
    BY <1>1, <1>3, <1>4 DEF J!Journeys
  <2> HIDE DEF k, step
  <2> QED BY <1>p, <1>1, <2>1, <2>2 DEF J!Journeys
<1>6. q.step \in {"leave", "ended"} => q.cancelled \/ q.dist >= J!Total(q.points)
  BY <1>5
<1>7. at \in 1 .. at
  <2> HIDE DEF at, way
  <2>1. Len(way) \in Nat
    BY <1>2
  <2> QED BY <1>2, <2>1
<1>8. JourneyOK(q, new, now)
  <2>1. k.began <= now /\ k.dist <= (now - k.began) * k.speed
    BY <1>1, Zenon DEF JourneyOK
  <2>2. J!Way(q.points) = way /\ Here(J!Way(q.points), q.dist) = at
    BY <1>5, Zenon
  <2>3. \E j \in 1 .. Here(J!Way(q.points), q.dist) : J!Way(q.points)[j] = new[Len(new)].at
    BY <1>4, <1>7, <2>2, Zenon
  <2> QED BY <1>1, <1>4, <1>5, <1>6, <2>1, <2>2, <2>3, Zenon DEF JourneyOK
<1>9. sim' = [sim EXCEPT ![s] = q] /\ sent' = [sent EXCEPT ![s] = new] /\ now' = now
      /\ activeSims' = activeSims
  BY <1>p DEF J!Send
<1>10. q.step # "ended" /\ activeSims = activeSims \cup {s}
  <2>1. J!Running(s)
    BY <1>1 DEF J!Running
  <2> QED BY <1>5, <2>1 DEF JourneysOK
<1> QED BY <1>8, <1>9, <1>10, OneJourney

(* A tick, the end and Stop leave the place as it is.                      *)
LEMMA QuietJourney ==
  ASSUME JourneysOK, NEW s \in Sims, J!TakeTick(s) \/ J!TakeDone(s) \/ J!Leave(s) \/ J!Stop(s)
  PROVE  JourneysOK'
<1> DEFINE k == sim[s]
<1>r. k.step # "none"
  <2>1. s \in activeSims => J!Running(s)
    BY DEF JourneysOK
  <2> QED BY <2>1 DEF J!TakeTick, J!TakeDone, J!Leave, J!Stop, J!Running
<1>1. /\ JourneyOK(k, sent[s], now) /\ k \in J!Journeys
  BY <1>r, KnowingJourney
<1>k. k.step \in {"look", "send", "wait", "leave", "ended"}
  BY <1>1 DEF J!Journeys
<1>2. /\ sent' = [sent EXCEPT ![s] = sent[s]] /\ now' = now
      /\ J!Running(s) => activeSims = activeSims \cup {s}
  <2>1. sent' = sent /\ sent = [b \in Sims |-> sent[b]] /\ activeSims = {b \in Sims : J!Running(b)}
    BY DEF J!TakeTick, J!TakeDone, J!Leave, J!Stop, JourneysOK
  <2> QED BY <2>1 DEF J!TakeTick, J!TakeDone, J!Leave, J!Stop
<1>a. J!Running(s) <=> k.step # "ended"
  BY <1>k DEF J!Running
<1>3. CASE J!TakeTick(s)
  <2>p. PICK q : q = [k EXCEPT !.step = "look", !.tick = FALSE]
    OBVIOUS
  <2>1. /\ q \in J!Journeys /\ q.step = "look" /\ q.points = k.points /\ q.speed = k.speed
        /\ q.began = k.began /\ q.dist = k.dist /\ q.seq = k.seq
    <3> HIDE DEF k
    <3> QED BY <1>1, <2>p DEF J!Journeys
  <2>2. k.step = "wait"
    BY <1>3 DEF J!TakeTick
  <2>3. JourneyOK(q, sent[s], now)
    <3> HIDE DEF k
    <3> QED BY <1>1, <2>1, <2>2, StepsAside
  <2>4. sim' = [sim EXCEPT ![s] = q] /\ activeSims' = activeSims
    BY <1>3, <2>p DEF J!TakeTick
  <2> QED BY <1>2, <1>a, <2>1, <2>2, <2>3, <2>4, OneJourney
<1>4. CASE J!TakeDone(s)
  <2>p. PICK q : q = [k EXCEPT !.step = "leave"]
    OBVIOUS
  <2>1. /\ q \in J!Journeys /\ q.step = "leave" /\ q.points = k.points /\ q.speed = k.speed
        /\ q.began = k.began /\ q.dist = k.dist /\ q.seq = k.seq /\ q.cancelled = k.cancelled
    <3> HIDE DEF k
    <3> QED BY <1>1, <2>p DEF J!Journeys
  <2>2. k.step = "wait" /\ k.cancelled
    BY <1>4 DEF J!TakeDone
  <2>3. sent[s] # <<>>
    BY <1>1, <2>2 DEF JourneyOK
  <2>4. JourneyOK(q, sent[s], now)
    <3> HIDE DEF k
    <3> QED BY <1>1, <2>1, <2>2, <2>3, StepsAside
  <2>5. sim' = [sim EXCEPT ![s] = q] /\ activeSims' = activeSims
    BY <1>4, <2>p DEF J!TakeDone
  <2> QED BY <1>2, <1>a, <2>1, <2>2, <2>4, <2>5, OneJourney
<1>5. CASE J!Leave(s)
  <2>p. PICK q : q = [k EXCEPT !.step = "ended"]
    OBVIOUS
  <2>1. /\ q \in J!Journeys /\ q.step = "ended" /\ q.points = k.points /\ q.speed = k.speed
        /\ q.began = k.began /\ q.dist = k.dist /\ q.seq = k.seq /\ q.cancelled = k.cancelled
    <3> HIDE DEF k
    <3> QED BY <1>1, <2>p DEF J!Journeys
  <2>2. k.step = "leave"
    BY <1>5 DEF J!Leave
  <2>3. sent[s] # <<>> /\ (k.cancelled \/ k.dist >= J!Total(k.points))
    BY <1>1, <2>2 DEF JourneyOK
  <2>4. JourneyOK(q, sent[s], now)
    <3> HIDE DEF k
    <3> QED BY <1>1, <2>1, <2>2, <2>3, StepsAside
  <2>5. sim' = [sim EXCEPT ![s] = q] /\ activeSims' = activeSims \ {s}
    BY <1>5, <2>p DEF J!Leave
  <2> QED BY <1>2, <2>1, <2>4, <2>5, OneJourney
<1>6. CASE J!Stop(s)
  <2>p. PICK q : q = [k EXCEPT !.cancelled = TRUE]
    OBVIOUS
  <2>1. /\ q \in J!Journeys /\ q.step = k.step /\ q.points = k.points /\ q.speed = k.speed
        /\ q.began = k.began /\ q.dist = k.dist /\ q.seq = k.seq /\ q.cancelled = TRUE
    <3> HIDE DEF k
    <3> QED BY <1>1, <2>p DEF J!Journeys
  <2>2. JourneyOK(q, sent[s], now)
    <3> HIDE DEF k
    <3> QED BY <1>1, <2>1 DEF JourneyOK
  <2>3. sim' = [sim EXCEPT ![s] = q] /\ activeSims' = activeSims /\ s \in activeSims
    BY <1>6, <2>p DEF J!Stop
  <2>4. k.step # "ended"
    BY <1>a, <2>3 DEF JourneysOK
  <2> QED BY <1>2, <1>a, <2>1, <2>2, <2>3, <2>4, OneJourney
<1> QED BY <1>3, <1>4, <1>5, <1>6

LEMMA TickJourneys ==
  ASSUME JourneysOK, J!Tick
  PROVE  JourneysOK'
<1>1. /\ now' = now + 1 /\ now \in Nat /\ now' \in 0 .. MaxTime
      /\ activeSims' = activeSims /\ sent' = sent
      /\ sim' = [s \in Sims |-> IF J!Running(s) THEN [sim[s] EXCEPT !.tick = TRUE] ELSE sim[s]]
  <2>1. now \in 0 .. MaxTime /\ MaxTime \in Nat /\ now < MaxTime
    BY JourneyAssumption DEF J!Tick, JourneysOK, JourneyAssumption
  <2> QED BY <2>1 DEF J!Tick
<1>2. sim' = [s \in Sims |-> sim'[s]] /\ sent' = [s \in Sims |-> sent'[s]]
  BY <1>1 DEF JourneysOK
<1>3. ASSUME NEW s \in Sims, sim[s] = [step |-> "none"] /\ sent[s] = <<>>
      PROVE  sim'[s] = [step |-> "none"] /\ sent'[s] = <<>> /\ ~J!Running(s) /\ ~J!Running(s)'
  BY <1>1, <1>3 DEF J!Running
<1>4. ASSUME NEW s \in Sims, JourneyOK(sim[s], sent[s], now)
      PROVE  JourneyOK(sim'[s], sent'[s], now') /\ (J!Running(s)' <=> J!Running(s))
  <2>p. PICK k, q, out : k = sim[s] /\ q = sim'[s] /\ out = sent[s]
    OBVIOUS
  <2>1. JourneyOK(k, out, now) /\ k \in J!Journeys
    BY <1>4, <2>p, Zenon DEF JourneyOK
  <2>2. q = k \/ q = [k EXCEPT !.tick = TRUE]
    BY <1>1, <2>p
  <2>3. /\ q \in J!Journeys /\ q.step = k.step /\ q.points = k.points /\ q.speed = k.speed
        /\ q.began = k.began /\ q.dist = k.dist /\ q.seq = k.seq /\ q.cancelled = k.cancelled
    BY <2>1, <2>2 DEF J!Journeys
  <2>4. k.began \in Nat /\ k.speed \in Nat /\ k.dist \in Nat /\ k.began <= now
        /\ k.dist <= (now - k.began) * k.speed
    BY <2>1 DEF JourneyOK, J!Journeys
  <2>5. k.began <= now' /\ k.dist <= (now' - k.began) * k.speed
    <3>1. PICK a, b, c, d \in Nat : a = now - k.began /\ b = now' - k.began /\ c = k.speed /\ d = k.dist
      BY <1>1, <2>4
    <3>2. a <= b
      BY <1>1, <2>4, <3>1
    <3>3. a * c <= b * c /\ a * c \in Nat /\ b * c \in Nat /\ d <= a * c
      BY <2>4, <3>1, <3>2, LongerIsFurther
    <3>4. d <= b * c
      BY <3>3
    <3>5. k.began <= now'
      BY <1>1, <2>4
    <3> QED BY <3>1, <3>4, <3>5
  <2>6. JourneyOK(q, out, now')
    BY <2>1, <2>3, <2>5, Zenon DEF JourneyOK
  <2>7. J!Running(s)' <=> J!Running(s)
    BY <2>3, <2>p DEF J!Running
  <2> QED BY <1>1, <2>6, <2>7, <2>p
<1>5. activeSims' = {s \in Sims : J!Running(s)'}
  <2>1. \A s \in Sims : J!Running(s)' <=> J!Running(s)
    BY <1>3, <1>4, Zenon DEF JourneysOK
  <2> QED BY <1>1, <2>1 DEF JourneysOK
<1>6. \A s \in Sims : \/ sim'[s] = [step |-> "none"] /\ sent'[s] = <<>>
                      \/ JourneyOK(sim'[s], sent'[s], now')
  BY <1>3, <1>4, Zenon DEF JourneysOK
<1> QED BY <1>1, <1>2, <1>5, <1>6, Zenon DEF JourneysOK

LEMMA InitJourneys == J!Init => JourneysOK
<1> SUFFICES ASSUME J!Init PROVE JourneysOK
  OBVIOUS
<1>1. /\ sim = [s \in Sims |-> sim[s]] /\ sent = [s \in Sims |-> sent[s]]
      /\ \A s \in Sims : sim[s] = [step |-> "none"] /\ sent[s] = <<>>
      /\ activeSims = {} /\ now \in 0 .. MaxTime
  BY JourneyAssumption DEF J!Init, JourneyAssumption
<1>2. \A s \in Sims : ~J!Running(s)
  BY <1>1 DEF J!Running
<1> QED BY <1>1, <1>2 DEF JourneysOK

LEMMA NextJourneys == JourneysOK /\ [J!Next]_routeVars => JourneysOK'
<1> SUFFICES ASSUME JourneysOK, J!Next \/ UNCHANGED routeVars PROVE JourneysOK'
  OBVIOUS
<1>1. CASE UNCHANGED routeVars
  BY <1>1 DEF routeVars, JourneysOK, J!Running
<1> QED BY <1>1, TickJourneys, StartJourney, LookJourney, SendJourney, QuietJourney, Zenon DEF J!Next

LEMMA JourneysAlways == ServicesSpec => []JourneysOK
<1>1. ServicesInit => JourneysOK
  BY InitJourneys, Zenon DEF ServicesInit
<1>2. JourneysOK /\ [ServicesNext]_allVars => JourneysOK'
  <2>1. [ServicesNext]_allVars => [J!Next]_routeVars
    BY DEF ServicesNext, allVars, routeVars
  <2> QED BY <2>1, NextJourneys
<1> QED BY <1>1, <1>2, PTL DEF ServicesSpec

(* runSimulation: the positions sent are places of the way, in the order   *)
(* they are come by, and a journey that nobody stops ends at the end of    *)
(* its way: for any points, speeds and number of journeys, and however     *)
(* late a goroutine is.                                                    *)
THEOREM JourneysFollowTheWay == ServicesSpec => []FollowsTheWay
<1>1. JourneysOK => FollowsTheWay
  BY JourneysFollow, Zenon DEF FollowsTheWay
<1> QED BY <1>1, JourneysAlways, PTL

(***************************************************************************)
(* The types of all parts.                                                 *)
(***************************************************************************)

LEMMA FeedAlways == ServicesSpec => [](TypeOK /\ BrokerInv)
<1>1. ServicesInit => TypeOK /\ BrokerInv
  BY InitType, Zenon DEF ServicesInit
<1>2. TypeOK /\ BrokerInv /\ [ServicesNext]_allVars => (TypeOK /\ BrokerInv)'
  <2>1. [ServicesNext]_allVars => [Next]_vars
    BY Zenon DEF ServicesNext, allVars
  <2> QED BY <2>1, NextType
<1> QED BY <1>1, <1>2, PTL DEF ServicesSpec

(* Every variable of every part keeps its type: the feed's channels, the   *)
(* explorer's locks and files, the log's ring and sink, the journeys.      *)
THEOREM TypesAreKept == ServicesSpec => []TypesOK
<1>1. TypeOK /\ ExplorerInv /\ LogInv /\ JourneysOK => TypesOK
  BY JourneysTyped, Zenon DEF TypesOK, ExplorerInv, LogInv
<1> QED BY <1>1, FeedAlways, ExplorerAlways, LogAlways, JourneysAlways, PTL
=============================================================================
