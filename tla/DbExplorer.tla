----------------------------- MODULE DbExplorer -----------------------------
(***************************************************************************)
(* The DB explorer, internal/api/dbexplorer.go: requests that edit a row   *)
(* of whatsmeow's SQLite file, back the file up and restore it, while the  *)
(* client the session runs on writes to the same file.  The file is one    *)
(* row; what a request finds wrong with its own parameters is left out.    *)
(***************************************************************************)
EXTENDS Naturals

CONSTANTS
  Requests,    (* Each is one call of one handler.                          *)
  Values,      (* What the row may hold.                                    *)
  MaxSeconds,  (* Bound of the model: seconds, which name the backups.      *)
  MaxSaves     (* Bound of the model: writes by the client.                 *)

VARIABLES
  open,        (* waDB and waDBWrite are there.                             *)
  dbMu,        (* The request that holds the lock, or none.                 *)
  file,        (* The row, gone with it, or a file that is no database.     *)
  backups,     (* The backup directory: second -> what the file was.        *)
  client,      (* The global client, or none.                               *)
  strays,      (* Clients it was before that may still be connected, and    *)
               (* whose container is open.                                  *)
  store,       (* The global storeContainer, or none; a container goes by   *)
               (* the request that made it, the first by the name Client.   *)
  closed,      (* The containers that were closed.                          *)
  device,      (* What each Reinitialize has read and made no client of.    *)
  now,
  request,     (* What each request is doing.                               *)
  writer,      (* History: who wrote the file last.                         *)
  saves        (* Writes by the client so far.                              *)

stack == <<client, strays, store, closed>>
vars  == <<open, dbMu, file, backups, stack, device, now, request, writer, saves>>

NoRow  == "no row"
Broken == "broken"
None   == "none"
Client == "client"

(* A client runs on a device: what it holds of the row, the container it   *)
(* writes to, and, as history, whether nobody wrote to the file between    *)
(* the reading of the device and the making of the client.                 *)
Device(holds, container) == [holds |-> holds, store |-> container, current |-> TRUE]
NoClient == [holds |-> None, store |-> None, current |-> FALSE]

(* A request: where its handler is, what it was asked (a value matters to  *)
(* a patch only), the backup it made, what it wrote over or restored, its  *)
(* answer.                                                                 *)
Fresh == [at |-> "new", does |-> "nothing", value |-> CHOOSE v \in Values : TRUE, name |-> 0,
          backup |-> 0, over |-> None, copy |-> None, answer |-> None, alone |-> FALSE]

Init ==
  /\ open = TRUE
  /\ dbMu = None
  /\ file \in Values
  /\ backups \in [{0} -> Values]
  /\ client = Device(file, Client) /\ strays = {}
  /\ store = Client /\ closed = {}
  /\ device = [r \in Requests |-> NoClient]
  /\ now = 1
  /\ request = [r \in Requests |-> Fresh]
  /\ writer = Client
  /\ saves = 0

Answered(r, answer) == [request EXCEPT ![r].answer = answer, ![r].at = "done"]

Answer(r, answer) == request' = Answered(r, answer)

Goes(r, step) == request' = [request EXCEPT ![r].at = step]

(* Somebody has written: no other edit can say that its backup is what it  *)
(* will write over, and a device that was read before is no longer current.*)
Wrote(who, requests) ==
  /\ writer' = who
  /\ device' = [q \in Requests |-> [device[q] EXCEPT !.current = FALSE]]
  /\ request' = [q \in Requests |->
       IF q # who /\ requests[q].at = "write" THEN [requests[q] EXCEPT !.alone = FALSE]
       ELSE requests[q]]

(***************************************************************************)
(* Requests arrive.                                                        *)
(***************************************************************************)

(* Every handler but deletion and reconnection wants the connections; a    *)
(* restore also wants its backup to be there, and looks before the lock.   *)
Arrive(r) ==
  /\ request[r].at = "new"
  /\ \/ \E does \in {"patch", "delete", "backup"} :
        \E value \in IF does = "patch" THEN Values ELSE {Fresh.value} :
          request' = [request EXCEPT ![r] =
            [Fresh EXCEPT !.at = IF open THEN "backup" ELSE "done", !.does = does,
                          !.value = value, !.answer = "unavailable"]]
     \/ \E name \in DOMAIN backups :
          request' = [request EXCEPT ![r] =
            [Fresh EXCEPT !.at = IF open THEN "lock" ELSE "done", !.does = "restore",
                          !.name = name, !.answer = "unavailable"]]
     \/ \E full \in BOOLEAN :
          request' = [request EXCEPT ![r] =
            [Fresh EXCEPT !.at = IF full THEN "reinitialize" ELSE "reconnect",
                          !.does = "reconnect"]]
  /\ UNCHANGED <<open, dbMu, file, backups, stack, device, now, writer, saves>>

(* deleteDBBackup does not take the lock.  Its name may be used again.     *)
DeleteBackup(r) ==
  /\ request[r].at = "new"
  /\ \E name \in DOMAIN backups :
       /\ backups' = [n \in DOMAIN backups \ {name} |-> backups[n]]
       /\ request' = [q \in Requests |->
            IF q = r THEN [Fresh EXCEPT !.answer = "ok", !.at = "done"]
            ELSE IF request[q].backup = name THEN [request[q] EXCEPT !.alone = FALSE]
            ELSE request[q]]
  /\ UNCHANGED <<open, dbMu, file, stack, device, now, writer, saves>>

(***************************************************************************)
(* Edits and backups.                                                      *)
(***************************************************************************)

WithBackup == [n \in DOMAIN backups \cup {now} |-> IF n = now THEN file ELSE backups[n]]

Saved(r) ==
  IF request[r].does = "backup" THEN Answered(r, "ok")
  ELSE [request EXCEPT ![r] = [@ EXCEPT !.at = "write", !.backup = now, !.over = file,
                                        !.alone = TRUE]]

(* Mutant: a backup of the same second is written over.                    *)
BackupOver(r) ==
  /\ request[r].at = "backup" /\ dbMu = None
  /\ \/ /\ open /\ file # Broken
        /\ backups' = WithBackup
        /\ request' = Saved(r)
     \/ Answer(r, "error") /\ UNCHANGED backups
  /\ UNCHANGED <<open, dbMu, file, stack, device, now, writer, saves>>

(* dbeCreateBackup, under dbMu.  A name is good for a second, and VACUUM   *)
(* INTO refuses a file that is there; it may fail for other reasons too.   *)
Backup(r) ==
  /\ request[r].at = "backup" /\ dbMu = None
  /\ \/ /\ open /\ file # Broken /\ now \notin DOMAIN backups
        /\ backups' = WithBackup
        /\ request' = Saved(r)
     \/ Answer(r, "error") /\ UNCHANGED backups
  /\ UNCHANGED <<open, dbMu, file, stack, device, now, writer, saves>>

Written(r, reconnect, answer) == [request EXCEPT ![r] =
  [@ EXCEPT !.at = IF reconnect THEN "reconnect" ELSE "done", !.answer = answer, !.over = file]]

(* The statement runs without the lock, on the connection there is by then *)
(* (none: the handler panics).  A patch is answered ok whether or not it   *)
(* found the row, a deletion only if it did.                               *)
Write(r) ==
  /\ request[r].at = "write"
  /\ \/ /\ open /\ file # Broken
        /\ \E reconnect \in BOOLEAN :
             IF file # NoRow
             THEN /\ file' = IF request[r].does = "patch" THEN request[r].value ELSE NoRow
                  /\ Wrote(r, Written(r, reconnect, "ok"))
             ELSE /\ IF request[r].does = "patch" THEN request' = Written(r, reconnect, "ok")
                                                  ELSE Answer(r, "not found")
                  /\ UNCHANGED <<file, device, writer>>
     \/ Answer(r, "error") /\ UNCHANGED <<file, device, writer>>
  /\ UNCHANGED <<open, dbMu, backups, stack, now, saves>>

(* ForceReconnect: the same client connects again, or the answer says that *)
(* it did not, or that there is none; the row stays as written.            *)
Reconnect(r) ==
  /\ request[r].at = "reconnect"
  /\ \/ client # NoClient /\ Answer(r, "ok")
     \/ Answer(r, "reconnect failed")
  /\ UNCHANGED <<open, dbMu, file, backups, stack, device, now, writer, saves>>

(***************************************************************************)
(* Restore.                                                                *)
(***************************************************************************)

(* From here the lock is held to the end.                                  *)
Lock(r) ==
  /\ request[r].at = "lock" /\ dbMu = None
  /\ dbMu' = r
  /\ open' = FALSE
  /\ Goes(r, "replace")
  /\ UNCHANGED <<file, backups, stack, device, now, writer, saves>>

Unlock == dbMu' = None

(* Mutant: when the copy fails the handler just says so.                   *)
ReplaceOrGiveUp(r) ==
  /\ request[r].at = "replace"
  /\ \/ /\ request[r].name \in DOMAIN backups
        /\ file' = backups[request[r].name]
        /\ Wrote(r, [request EXCEPT ![r].copy = file', ![r].at = "reopen"])
        /\ UNCHANGED dbMu
     \/ /\ file' \in IF request[r].name \in DOMAIN backups THEN {file, Broken} ELSE {file}
        /\ Wrote(r, Answered(r, "error"))
        /\ Unlock
  /\ UNCHANGED <<open, backups, stack, now, saves>>

(* dbeReplaceFile copies the backup over the file.  The backup may be gone *)
(* by now; else the file is cut before it is filled.  When it fails the    *)
(* connections are opened as at the start, on whatever file there is.      *)
Replace(r) ==
  /\ request[r].at = "replace"
  /\ \/ /\ request[r].name \in DOMAIN backups
        /\ file' = backups[request[r].name]
        /\ Wrote(r, [request EXCEPT ![r].copy = file', ![r].at = "reopen"])
        /\ UNCHANGED <<open, dbMu>>
     \/ /\ file' \in IF request[r].name \in DOMAIN backups THEN {file, Broken} ELSE {file}
        /\ Wrote(r, Answered(r, "error"))
        /\ open' = TRUE /\ Unlock
  /\ UNCHANGED <<backups, stack, now, saves>>

(* dbeReopenConnections; sql.Open does not touch the file and cannot fail. *)
Reopen(r) ==
  /\ request[r].at = "reopen"
  /\ open' = TRUE
  /\ Goes(r, "reinitialize")
  /\ UNCHANGED <<dbMu, file, backups, stack, device, now, writer, saves>>

(***************************************************************************)
(* Reinitialize, of a restore or of a request of its own, which does not   *)
(* take the lock: the global client and storeContainer are read and set at *)
(* each of its steps, whoever else sets them meanwhile.                    *)
(***************************************************************************)

Unlocks(r) == IF dbMu = r THEN Unlock ELSE UNCHANGED dbMu

(* An error, or a panic where somebody else left nil.                      *)
ReinitializeFails(r) == Answer(r, "reinitialize failed") /\ Unlocks(r)

(* Mutant: a client that is there is kept, and connected again.            *)
KeepClient(r) ==
  /\ request[r].at = "reinitialize"
  /\ Goes(r, IF client = NoClient THEN "close" ELSE "connect")
  /\ UNCHANGED <<open, dbMu, file, backups, stack, device, now, writer, saves>>

(* A client that writes to the file when it is connected.                  *)
CanWrite(c) == c # NoClient /\ c.store \notin closed

Stray == {c \in {client} : CanWrite(c)}

(* client.Disconnect(), client = nil.  Between the two another request, or *)
(* the loop that reconnects, may connect this client, or set another.      *)
DropClient(r) ==
  /\ request[r].at = "reinitialize"
  /\ client' = NoClient
  /\ strays' \in {strays, strays \cup Stray}
  /\ Goes(r, "close")
  /\ UNCHANGED <<open, dbMu, file, backups, store, closed, device, now, writer, saves>>

CloseStore(r) ==
  /\ request[r].at = "close"
  /\ closed' = closed \cup ({store} \ {None})
  /\ strays' = {c \in strays : c.store # store}
  /\ Goes(r, IF store = None THEN "create" ELSE "forget")
  /\ UNCHANGED <<open, dbMu, file, backups, client, store, device, now, writer, saves>>

ForgetStore(r) ==
  /\ request[r].at = "forget"
  /\ store' = None
  /\ Goes(r, "create")
  /\ UNCHANGED <<open, dbMu, file, backups, client, strays, closed, device, now, writer, saves>>

(* sqlstore.New; its error leaves nil.                                     *)
CreateStore(r) ==
  /\ request[r].at = "create"
  /\ \/ store' = r /\ Goes(r, "load") /\ UNCHANGED dbMu
     \/ store' = None /\ ReinitializeFails(r)
  /\ UNCHANGED <<open, file, backups, client, strays, closed, device, now, writer, saves>>

(* GetFirstDevice, of the container that is the global one by then.        *)
LoadDevice(r) ==
  /\ request[r].at = "load"
  /\ \/ /\ store \notin closed \cup {None} /\ file # Broken
        /\ device' = [device EXCEPT ![r] = Device(file, store)]
        /\ Goes(r, "install") /\ UNCHANGED dbMu
     \/ ReinitializeFails(r) /\ UNCHANGED device
  /\ UNCHANGED <<open, file, backups, stack, now, writer, saves>>

(* NewClient: a client that somebody else set meanwhile is forgotten.      *)
InstallClient(r) ==
  /\ request[r].at = "install"
  /\ client' = device[r]
  /\ strays' = strays \cup Stray
  /\ device' = [device EXCEPT ![r] = NoClient]
  /\ Goes(r, "connect")
  /\ UNCHANGED <<open, dbMu, file, backups, store, closed, now, writer, saves>>

(* client.Connect(), of the client that is the global one by then.         *)
ConnectClient(r) ==
  /\ request[r].at = "connect"
  /\ \/ client # NoClient /\ Answer(r, "ok") /\ Unlocks(r)
     \/ ReinitializeFails(r)
  /\ UNCHANGED <<open, file, backups, stack, device, now, writer, saves>>

Reinitialize(r) == \/ DropClient(r) \/ CloseStore(r) \/ ForgetStore(r) \/ CreateStore(r)
                   \/ LoadDevice(r) \/ InstallClient(r) \/ ConnectClient(r)

(***************************************************************************)
(* The clients and the clock.                                              *)
(***************************************************************************)

(* A client advances its session and stores it: from what it holds, over   *)
(* what the file holds, as long as its container is open.                  *)
ClientSaves ==
  /\ file # Broken /\ saves < MaxSaves
  /\ \E v \in Values :
       /\ file' = v
       /\ \/ /\ CanWrite(client)
             /\ client' = [client EXCEPT !.holds = v]
             /\ UNCHANGED strays
          \/ \E c \in strays :
               /\ strays' = (strays \ {c}) \cup {[c EXCEPT !.holds = v]}
               /\ UNCHANGED client
  /\ saves' = saves + 1
  /\ Wrote(Client, request)
  /\ UNCHANGED <<open, dbMu, backups, store, closed, now>>

Tick ==
  /\ now < MaxSeconds /\ now' = now + 1
  /\ UNCHANGED <<open, dbMu, file, backups, stack, device, request, writer, saves>>

Serve(r) ==
  Backup(r) \/ Write(r) \/ Reconnect(r) \/ Lock(r) \/ Replace(r) \/ Reopen(r) \/ Reinitialize(r)

Next == \/ \E r \in Requests : Arrive(r) \/ DeleteBackup(r) \/ Serve(r)
        \/ ClientSaves \/ Tick

Spec == Init /\ [][Next]_vars

(* A handler that has begun goes on.                                       *)
FairSpec == Spec /\ \A r \in Requests : WF_vars(Serve(r))

(***************************************************************************)
(* Properties.                                                             *)
(***************************************************************************)

Contents == Values \cup {NoRow}

Rebuilding == {"reinitialize", "close", "forget", "create", "load", "install", "connect"}

Devices == [holds : Contents, store : Requests \cup {Client}, current : BOOLEAN]

Handlers ==
  [at : {"new", "backup", "write", "reconnect", "lock", "replace", "reopen", "done"} \cup Rebuilding,
   does : {"nothing", "patch", "delete", "backup", "restore", "reconnect"},
   value : Values, name : 0 .. MaxSeconds, backup : 0 .. MaxSeconds,
   over : Contents \cup {None}, copy : Contents \cup {None},
   answer : {None, "ok", "not found", "error", "unavailable", "reconnect failed",
             "reinitialize failed"},
   alone : BOOLEAN]

TypeOK ==
  /\ open \in BOOLEAN
  /\ dbMu \in Requests \cup {None}
  /\ file \in Contents \cup {Broken}
  /\ DOMAIN backups \subseteq 0 .. MaxSeconds /\ backups \in [DOMAIN backups -> Contents]
  /\ client \in Devices \cup {NoClient} /\ strays \subseteq Devices
  /\ store \in Requests \cup {Client, None} /\ closed \subseteq Requests \cup {Client}
  /\ device \in [Requests -> Devices \cup {NoClient}]
  /\ \A r \in Requests : request[r].at = "install" => device[r] # NoClient
  /\ now \in 1 .. MaxSeconds /\ saves \in 0 .. MaxSaves
  /\ request \in [Requests -> Handlers]
  /\ writer \in Requests \cup {Client}

(* Until its backup is deleted, what an edit wrote over can be restored:   *)
(* the backup that its answer names holds it, whatever else was backed up, *)
(* edited or restored before and after, provided nobody wrote to the file  *)
(* between the backup and the edit.                                        *)
Restorable(r) ==
  LET edit == request[r]
  IN edit.alone /\ edit.at \in {"reconnect", "done"} /\ edit.backup \in DOMAIN backups =>
       backups[edit.backup] = edit.over

EditHasBackup == \A r \in Requests : request[r].does \in {"patch", "delete"} => Restorable(r)

(* The inductive invariant behind it: from the backup to the write the     *)
(* backup is what the file is, and from then on what was written over.     *)
BackupInv ==
  \A r \in Requests : request[r].alone =>
    /\ request[r].at \in {"write", "reconnect", "done"}
    /\ request[r].backup \in DOMAIN backups
    /\ backups[request[r].backup] = request[r].over
    /\ request[r].at = "write" => request[r].over = file

(* While the last to write the file is a restore that was answered ok, the *)
(* file is the backup, and the client, if there still is one, holds what   *)
(* the file holds and not the session from before; unless that client is   *)
(* of a full reconnect that overlapped: one that had read its device       *)
(* before the restore replaced the file and made a client of it after the  *)
(* restore had made its own.  Nothing keeps it from that, and nothing      *)
(* mends it.                                                               *)
RestoreTakesEffect ==
  \A r \in Requests :
    writer = r /\ request[r].does = "restore" /\ request[r].at = "done" /\ request[r].answer = "ok"
      => file = request[r].copy /\ (client.current => client.holds = file)

(* The inductive invariant behind it: what a restore copied stays in the   *)
(* file until somebody else writes it, and a restore writes only then; a   *)
(* device read since the last write is what the file is, and so is the     *)
(* client, once the restore has dropped the one there was.                 *)
Restoring(r, steps) == writer = r /\ request[r].does = "restore" /\ request[r].at \in steps

RestoreInv ==
  /\ \A q \in Requests : device[q].current => device[q].holds = file
  /\ \A r \in Requests :
       /\ request[r].at \in {"backup", "write", "reconnect"} => request[r].does # "restore"
       /\ Restoring(r, Rebuilding \cup {"reopen"}) => file = request[r].copy
       /\ Restoring(r, Rebuilding \ {"reinitialize"}) =>
            (client.current => client.holds = file)

(* The connections that a restore closes are opened again, whatever fails. *)
ExplorerReturns == ~open ~> open
=============================================================================
