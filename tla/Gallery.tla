-------------------------------- MODULE Gallery --------------------------------
(***************************************************************************)
(* A gallery kept in step with the glasses over their access point:        *)
(* FileClient::sync_all of src/client/fileapi.rs with what it calls, one   *)
(* request, write and delete at a time, run again and again over the same  *)
(* folder while pictures are taken, requests fail, replies get lost and    *)
(* the program is killed.  A file's content is the number of its shot; of  *)
(* a body or a file on disk only the content and the length are kept.      *)
(***************************************************************************)
EXTENDS Integers, FiniteSetsExt, SequencesExt

CONSTANTS
    Names,        \* what the glasses may call a file: <<folder, basename>>
    Bytes,        \* the length of each shot, in shooting order
    Kib,          \* BYTES_PER_KIB, 1024 in the code
    SizeKib,      \* the length of each shot as the glasses list it
    MaxSyncs

Shots == 1 .. Len(Bytes)

\* The completeness rule: the glasses list a length in KiB, rounded down.
expected_byte_range(kib) == kib * Kib .. kib * Kib + Kib - 1
download_is_complete(kib, len) == len \in expected_byte_range(kib)

ASSUME GalleryAssumption ==
    /\ IsFiniteSet(Names)
    /\ Bytes \in Seq(Nat)
    /\ Kib \in Nat \ {0}
    /\ SizeKib \in [Shots -> Nat]
    /\ \A id \in Shots : Bytes[id] \in expected_byte_range(SizeKib[id])
    /\ MaxSyncs \in Nat

VARIABLES
    reachable, \* the phone is on the glasses' access point
    stored,    \* the glasses' files: the shot under each name, 0 for none
    shots,
    disk,      \* the folder synced into: [id, len] under each basename, None for none
    stage,     \* where sync_all is
    delete_after,
    todo,      \* the entries of the listing still ahead, the current one first
    body,      \* what the current download returned
    report,    \* SyncReport, the bytes and the failures of it
    listing,   \* history: what the listing held, with the shot of each entry
    syncs

camera == <<stored, shots>>
sync == <<stage, delete_after, todo, body, report, listing, syncs>>
vars == <<reachable, camera, disk, sync>>

None == [id |-> 0, len |-> 0]

basename(name) == name[2]
Bases == {basename(n) : n \in Names}

NewReport == [bytes |-> 0, failures |-> <<>>]

-----------------------------------------------------------------------------
(* SyncPlan: what a sync does with a listing, one step after the other.    *)

FileSteps(entry, delete) ==
    <<[do |-> "Download", entry |-> entry]>>
        \o (IF delete THEN <<[do |-> "Delete", entry |-> entry]>> ELSE <<>>)

for_list(entries, delete) ==
    [i \in DOMAIN entries |-> [do |-> "Thumbnail", entry |-> entries[i]]]
        \o FlattenSeq([i \in DOMAIN entries |-> FileSteps(entries[i], delete)])
        \o <<[do |-> "TearDown"]>>

\* The most a step will move: the upper end of what a download's length may be.
AtMost(step) ==
    IF step.do = "Download" THEN Max(expected_byte_range(step.entry.size_kib)) ELSE 0

\* The sum, step by step.
DownloadTurns(plan) ==
    LET sum[n \in 0 .. Len(plan)] == IF n = 0 THEN 0 ELSE sum[n - 1] + AtMost(plan[n])
    IN  sum

max_download_bytes(plan) == DownloadTurns(plan)[Len(plan)]

-----------------------------------------------------------------------------
Init ==
    /\ reachable = TRUE
    /\ stored = [n \in Names |-> 0] /\ shots = 0
    /\ disk = [b \in Bases |-> None]
    /\ stage = "off" /\ delete_after = FALSE
    /\ todo = <<>> /\ body = None /\ report = NewReport /\ listing = <<>>
    /\ syncs = 0

\* The glasses take a picture or a recording.
Shoot(name) ==
    /\ shots < Len(Bytes) /\ stored[name] = 0
    /\ shots' = shots + 1
    /\ stored' = [stored EXCEPT ![name] = shots']
    /\ UNCHANGED <<reachable, disk, sync>>

\* The access point goes up or down (OpenWifi).
AccessPoint ==
    /\ reachable' = ~ reachable
    /\ UNCHANGED <<camera, disk, sync>>

Running == stage \in {"list", "download", "write", "delete"}

\* What the glasses list, in an order of their own.
Entries == {[name |-> n, size_kib |-> SizeKib[stored[n]], id |-> stored[n]] :
              n \in {m \in Names : stored[m] # 0}}

StartSync(delete) ==
    /\ ~ Running
    /\ syncs < MaxSyncs
    /\ syncs' = syncs + 1
    /\ stage' = "list" /\ delete_after' = delete
    /\ todo' = <<>> /\ body' = None /\ report' = NewReport /\ listing' = <<>>
    /\ UNCHANGED <<reachable, camera, disk>>

\* GET /app/getfilelist: an empty gallery is done, a failure ends the sync.
List ==
    /\ stage = "list"
    /\ \/ /\ reachable
          /\ listing' \in SetToSeqs(Entries)
          /\ todo' = listing'
          /\ stage' = IF todo' = <<>> THEN "done" ELSE "download"
       \/ stage' = "failed" /\ UNCHANGED <<listing, todo>>
    /\ UNCHANGED <<reachable, camera, disk, delete_after, body, report, syncs>>

NextEntry ==
    /\ todo' = Tail(todo) /\ body' = None
    /\ stage' = IF todo' = <<>> THEN "done" ELSE "download"

Failed(name) == report' = [report EXCEPT !.failures = Append(@, name)]

\* Fault: a download that failed is tried again, for good.
DownloadRetries ==
    /\ stage = "download"
    /\ LET entry == Head(todo)
           id == stored[entry.name]
       IN  /\ reachable /\ id # 0
           /\ body' = [id |-> id, len |-> Bytes[id]]
           /\ stage' = "write"
    /\ UNCHANGED <<reachable, camera, disk, delete_after, todo, report, listing, syncs>>

\* GET of one file: an error, a file that is gone, or a body that may be cut short.
Download ==
    /\ stage = "download"
    /\ LET entry == Head(todo)
           id == stored[entry.name]
       IN  \/ Failed(entry.name) /\ NextEntry
           \/ /\ reachable /\ id # 0
              /\ \E len \in 0 .. Bytes[id] :
                    IF download_is_complete(entry.size_kib, len)
                    THEN /\ body' = [id |-> id, len |-> len]
                         /\ stage' = "write"
                         /\ UNCHANGED <<todo, report>>
                    ELSE Failed(entry.name) /\ NextEntry
    /\ UNCHANGED <<reachable, camera, disk, delete_after, listing, syncs>>

\* fs::write truncates, then writes: an error may leave any part of the body.
Partly(base) ==
    disk' \in {disk} \cup {[disk EXCEPT ![base] = [body EXCEPT !.len = len]] : len \in 0 .. body.len}

\* Fault: a file that did not land goes on to its delete.
WriteGoesOn ==
    /\ stage = "write"
    /\ LET entry == Head(todo)
           base == basename(entry.name)
       IN  \/ /\ disk' = [disk EXCEPT ![base] = body]
              /\ report' = [report EXCEPT !.bytes = @ + body.len]
           \/ Partly(base) /\ Failed(entry.name)
    /\ IF delete_after THEN stage' = "delete" /\ UNCHANGED <<todo, body>> ELSE NextEntry
    /\ UNCHANGED <<reachable, camera, delete_after, listing, syncs>>

\* The file under its basename, replacing what is there.
Write ==
    /\ stage = "write"
    /\ LET entry == Head(todo)
           base == basename(entry.name)
       IN  \/ /\ disk' = [disk EXCEPT ![base] = body]
              /\ report' = [report EXCEPT !.bytes = @ + body.len]
              /\ IF delete_after THEN stage' = "delete" /\ UNCHANGED <<todo, body>> ELSE NextEntry
           \/ Partly(base) /\ Failed(entry.name) /\ NextEntry
    /\ UNCHANGED <<reachable, camera, delete_after, listing, syncs>>

\* Fault: a delete that was refused is not a failure.
DeleteForgiving ==
    /\ stage = "delete"
    /\ LET name == Head(todo).name
       IN  \/ /\ reachable
              /\ stored' = [stored EXCEPT ![name] = 0]
           \/ UNCHANGED stored
    /\ NextEntry
    /\ UNCHANGED <<reachable, shots, disk, delete_after, report, listing, syncs>>

\* GET /app/deletefile: done, done with the reply lost, or not done.
Delete ==
    /\ stage = "delete"
    /\ LET name == Head(todo).name
           gone == [stored EXCEPT ![name] = 0]
       IN  \/ /\ reachable
              /\ stored' = gone /\ UNCHANGED report
           \/ /\ stored' \in {stored} \cup (IF reachable THEN {gone} ELSE {})
              /\ Failed(name)
    /\ NextEntry
    /\ UNCHANGED <<reachable, shots, disk, delete_after, listing, syncs>>

\* The program is killed, perhaps in the middle of the write.
Interrupt ==
    /\ Running
    /\ stage' = "off"
    /\ todo' = <<>> /\ body' = None /\ report' = NewReport /\ listing' = <<>>
    /\ IF stage = "write" THEN Partly(basename(Head(todo).name)) ELSE UNCHANGED disk
    /\ UNCHANGED <<reachable, camera, delete_after, syncs>>

SyncStep == List \/ Download \/ Write \/ Delete
Next ==
    \/ AccessPoint
    \/ \E n \in Names : Shoot(n)
    \/ \E delete \in BOOLEAN : StartSync(delete)
    \/ SyncStep \/ Interrupt

\* A request answers or times out (60 s), and the thread that syncs is scheduled.
Spec == Init /\ [][Next]_vars /\ WF_vars(SyncStep)

-----------------------------------------------------------------------------
\* A copy that passes for whole: less than a KiB may be missing.
Whole(copy, id) == copy.id = id /\ copy.len > Bytes[id] - Kib

OnDisk(id) == \E b \in Bases : Whole(disk[b], id)
Safe(id) == OnDisk(id) \/ \E n \in Names : stored[n] = id

\* Whatever fails, is lost or is killed, and however often, a shot leaves the
\* glasses only when it is on disk, and leaves the disk for good only where
\* another shot with its basename is written over it.
LostOnlyToItsNamesake ==
    [][\A id \in Shots : Safe(id) /\ ~ Safe(id)' =>
         \E b \in Bases : Whole(disk[b], id) /\ disk'[b].id # id]_vars

\* What a sync without failures says: every shot it listed is on disk, and
\* off the glasses when it was to delete, unless two have one basename, in no
\* more bytes than its plan announced.
Namesakes == \E i, j \in DOMAIN listing :
    i # j /\ basename(listing[i].name) = basename(listing[j].name)
CleanSyncSaved ==
    stage = "done" /\ report.failures = <<>> /\ ~ Namesakes =>
        /\ \A i \in DOMAIN listing :
              /\ OnDisk(listing[i].id)
              /\ delete_after => \A n \in Names : stored[n] # listing[i].id
        /\ report.bytes <= max_download_bytes(for_list(listing, delete_after))

\* A sync ends, by itself or killed.
SyncEnds == Running ~> ~ Running
=============================================================================
