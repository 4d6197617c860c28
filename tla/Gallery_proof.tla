----------------------------- MODULE Gallery_proof -----------------------------
(***************************************************************************)
(* Proofs that the sync of Gallery loses no shot except to a namesake, and *)
(* that one without failures has saved its whole listing in no more bytes  *)
(* than its plan announced, for any names, lengths and KiB.                *)
(***************************************************************************)
EXTENDS Gallery, FiniteSetTheorems, SequenceTheorems, WellFoundedInduction, TLAPS

Entry == [name : Names, size_kib : Nat, id : Shots]
Copy == [id : Shots \cup {0}, len : Nat]

Types ==
    /\ stored \in [Names -> Shots \cup {0}]
    /\ shots \in 0 .. Len(Bytes)
    /\ disk \in [Bases -> Copy]
    /\ body \in Copy
    /\ todo \in Seq(Entry)

\* An entry still ahead is on the glasses as it was listed, and comes once.
Ahead ==
    /\ \A i \in 1 .. Len(todo) :
          /\ stored[todo[i].name] = todo[i].id
          /\ todo[i].size_kib = SizeKib[todo[i].id]
    /\ \A i, j \in 1 .. Len(todo) : todo[i].name = todo[j].name => i = j

\* What is about to be written is the current entry's shot, and what is about
\* to be deleted is on disk.
Current ==
    /\ stage \in {"download", "write", "delete"} => todo # <<>>
    /\ stage = "write" =>
          body.id = Head(todo).id /\ download_is_complete(Head(todo).size_kib, body.len)
    /\ stage = "delete" => Whole(disk[basename(Head(todo).name)], Head(todo).id)

IInv == Types /\ Ahead /\ Current

-----------------------------------------------------------------------------
\* A length that passes the check lacks less than a KiB.
LEMMA CompleteIsWhole ==
    ASSUME NEW id \in Shots, NEW len \in Nat, download_is_complete(SizeKib[id], len)
    PROVE  len > Bytes[id] - Kib
<1> DEFINE low == SizeKib[id] * Kib
<1>1. Kib \in Nat /\ SizeKib[id] \in Nat /\ Bytes[id] \in Nat
  BY GalleryAssumption DEF Shots
<1>2. low \in Nat
  BY <1>1
<1>3. Bytes[id] \in low .. low + Kib - 1 /\ len \in low .. low + Kib - 1
  BY GalleryAssumption DEF download_is_complete, expected_byte_range
<1> HIDE DEF low
<1> QED
  BY <1>1, <1>2, <1>3

LEMMA BasenameIsBase == \A n \in Names : basename(n) \in Bases
BY DEF Bases

\* The glasses hold finitely many files, so a listing is a sequence.
LEMMA EntriesFinite == ASSUME Types PROVE IsFiniteSet(Entries)
<1> DEFINE held == {m \in Names : stored[m] # 0}
           f == [n \in held |-> [name |-> n, size_kib |-> SizeKib[stored[n]], id |-> stored[n]]]
<1>1. IsFiniteSet(held)
  BY GalleryAssumption, FS_Subset
<1>2. f \in Surjection(held, Entries)
  BY DEF Surjection, Entries
<1> QED
  BY <1>1, <1>2, FS_Surjection

\* A listing names every file once, with the length the glasses list.
LEMMA ListingMatches ==
    ASSUME Types, NEW s \in SetToSeqs(Entries)
    PROVE  /\ s \in Seq(Entry)
           /\ \A i \in 1 .. Len(s) :
                 /\ stored[s[i].name] = s[i].id
                 /\ s[i].size_kib = SizeKib[s[i].id]
           /\ \A i, j \in 1 .. Len(s) : s[i].name = s[j].name => i = j
<1> DEFINE n == Cardinality(Entries)
<1>1. n \in Nat
  BY EntriesFinite, FS_CardinalityType
<1>2. s \in [1 .. n -> Entries] /\ \A i, j \in 1 .. n : i # j => s[i] # s[j]
  BY DEF SetToSeqs
<1> HIDE DEF n
<1>3. Entries \subseteq Entry
  BY GalleryAssumption DEF Entries, Entry, Types
<1>4. s \in Seq(Entry) /\ Len(s) = n
  BY <1>1, <1>2, <1>3
<1>5. \A e \in Entries : stored[e.name] = e.id /\ e.size_kib = SizeKib[e.id]
  BY DEF Entries
<1>6. \A e, d \in Entries : e.name = d.name => e = d
  BY DEF Entries
<1> QED
  BY <1>2, <1>4, <1>5, <1>6

\* Going on to the next entry keeps the rest of the listing as it was.
LEMMA NextEntryKeeps ==
    ASSUME Types, Ahead, NextEntry, todo # <<>>,
           \A n \in Names : n # Head(todo).name => stored'[n] = stored[n]
    PROVE  /\ todo' \in Seq(Entry) /\ body' \in Copy
           /\ Ahead'
           /\ stage' \in {"done", "download"}
           /\ stage' = "download" => todo' # <<>>
<1>1. todo' = Tail(todo) /\ body' = None
  BY DEF NextEntry
<1>2. /\ todo' \in Seq(Entry) /\ Len(todo') = Len(todo) - 1
      /\ \A i \in 1 .. Len(todo') : todo'[i] = todo[i + 1] /\ i + 1 \in 1 .. Len(todo)
  BY <1>1 DEF Types
<1>3. body' \in Copy
  BY <1>1 DEF None, Copy
<1>4. \A i \in 1 .. Len(todo') : stored'[todo'[i].name] = stored[todo'[i].name]
  <2> SUFFICES ASSUME NEW i \in 1 .. Len(todo')
               PROVE  stored'[todo'[i].name] = stored[todo'[i].name]
    OBVIOUS
  <2>1. todo'[i] = todo[i + 1] /\ i + 1 \in 1 .. Len(todo) /\ i + 1 # 1 /\ 1 \in 1 .. Len(todo)
    BY <1>2 DEF Types
  <2>2. todo[i + 1].name # todo[1].name
    BY <2>1 DEF Ahead
  <2>3. todo[i + 1] \in Entry /\ Head(todo) = todo[1]
    BY <2>1 DEF Types
  <2> QED
    BY <2>1, <2>2, <2>3 DEF Entry
<1>5. Ahead'
  <2>1. Len(todo) \in Nat
    BY DEF Types
  <2>2. \A i \in 1 .. Len(todo') :
           stored'[todo'[i].name] = todo'[i].id /\ todo'[i].size_kib = SizeKib[todo'[i].id]
    BY SMTT(20), <1>2, <1>4 DEF Ahead
  <2>3. \A i, j \in 1 .. Len(todo') : todo'[i].name = todo'[j].name => i = j
    <3> SUFFICES ASSUME NEW i \in 1 .. Len(todo'), NEW j \in 1 .. Len(todo'),
                        todo'[i].name = todo'[j].name
                 PROVE  i = j
      OBVIOUS
    <3>1. i + 1 = j + 1
      BY <1>2 DEF Ahead
    <3> QED
      BY <1>2, <2>1, <3>1
  <2> QED
    BY <2>2, <2>3 DEF Ahead
<1> QED
  BY <1>2, <1>3, <1>5 DEF NextEntry

-----------------------------------------------------------------------------
LEMMA Initially == Init => IInv
<1> SUFFICES ASSUME Init PROVE IInv
  OBVIOUS
<1>1. None \in Copy
  BY DEF None, Copy
<1> QED
  BY <1>1, GalleryAssumption DEF Init, IInv, Types, Ahead, Current

\* The current entry, in a stage that has one.
LEMMA HeadEntry ==
    ASSUME IInv, todo # <<>>
    PROVE  /\ Head(todo) \in Entry
           /\ basename(Head(todo).name) \in Bases
           /\ stored[Head(todo).name] = Head(todo).id
           /\ Head(todo).size_kib = SizeKib[Head(todo).id]
           /\ 1 \in 1 .. Len(todo) /\ Head(todo) = todo[1]
<1>1. Head(todo) \in Entry /\ 1 \in 1 .. Len(todo) /\ Head(todo) = todo[1]
  BY DEF IInv, Types
<1> QED
  BY <1>1, BasenameIsBase DEF IInv, Ahead, Entry

LEMMA ShootKeeps == ASSUME IInv, NEW n \in Names, Shoot(n) PROVE IInv'
<1>1. UNCHANGED <<disk, stage, todo, body>>
  BY DEF Shoot, sync
<1>2. Types'
  BY <1>1, GalleryAssumption DEF Shoot, IInv, Types, Shots
<1>3. \A i \in 1 .. Len(todo) : todo[i].name # n
  <2> SUFFICES ASSUME NEW i \in 1 .. Len(todo) PROVE todo[i].name # n
    OBVIOUS
  <2>1. todo[i] \in Entry /\ stored[todo[i].name] = todo[i].id
    BY DEF IInv, Types, Ahead
  <2>2. todo[i].id # 0
    BY <2>1 DEF Entry, Shots
  <2> QED
    BY <2>1, <2>2 DEF Shoot
<1>4. Ahead'
  <2>1. \A i \in 1 .. Len(todo) : stored'[todo[i].name] = stored[todo[i].name]
    BY <1>3 DEF Shoot, IInv, Types, Entry
  <2> QED
    BY <1>1, <2>1 DEF IInv, Ahead
<1>5. Current'
  BY <1>1 DEF IInv, Current, Whole
<1> QED
  BY <1>2, <1>4, <1>5 DEF IInv

LEMMA ListKeeps == ASSUME IInv, List PROVE IInv'
<1>1. UNCHANGED <<stored, shots, disk, body>> /\ stage' \in {"done", "download", "failed"}
  BY DEF List, camera
<1>2. CASE listing' \in SetToSeqs(Entries) /\ todo' = listing'
           /\ stage' = IF todo' = <<>> THEN "done" ELSE "download"
  <2>1. /\ todo' \in Seq(Entry)
        /\ \A i \in 1 .. Len(todo') :
              stored[todo'[i].name] = todo'[i].id /\ todo'[i].size_kib = SizeKib[todo'[i].id]
        /\ \A i, j \in 1 .. Len(todo') : todo'[i].name = todo'[j].name => i = j
    BY <1>2, ListingMatches DEF IInv
  <2> QED
    BY <1>1, <1>2, <2>1 DEF IInv, Types, Ahead, Current
<1>3. CASE stage' = "failed" /\ UNCHANGED todo
  BY <1>1, <1>3 DEF IInv, Types, Ahead, Current
<1> QED
  BY <1>2, <1>3 DEF List

LEMMA DownloadKeeps == ASSUME IInv, Download PROVE IInv'
<1> DEFINE entry == Head(todo)
           id == stored[entry.name]
<1>1. stage = "download" /\ todo # <<>> /\ UNCHANGED <<stored, shots, disk>>
  BY DEF Download, camera, IInv, Current
<1>2. CASE NextEntry
  BY <1>1, <1>2, NextEntryKeeps DEF IInv, Types, Current
<1>3. ASSUME id # 0, NEW len \in 0 .. Bytes[id], download_is_complete(entry.size_kib, len),
             body' = [id |-> id, len |-> len], stage' = "write", UNCHANGED todo
      PROVE  IInv'
  <2>1. id \in Shots /\ id = entry.id
    BY <1>1, HeadEntry DEF Entry
  <2>2. len \in Nat
    BY <2>1, GalleryAssumption DEF Shots
  <2>3. body' \in Copy
    BY <1>3, <2>1, <2>2 DEF Copy
  <2> QED
    BY <1>1, <1>3, <2>1, <2>3 DEF IInv, Types, Ahead, Current
<1>4. \/ NextEntry
      \/ /\ id # 0
         /\ \E len \in 0 .. Bytes[id] :
               /\ download_is_complete(entry.size_kib, len)
               /\ body' = [id |-> id, len |-> len]
               /\ stage' = "write" /\ UNCHANGED todo
  BY DEF Download
<1> QED
  BY <1>2, <1>3, <1>4

\* What a write, finished or not, may do to the disk.
LEMMA WriteToDisk ==
    ASSUME IInv, stage = "write",
           \/ disk' = [disk EXCEPT ![basename(Head(todo).name)] = body]
           \/ Partly(basename(Head(todo).name))
    PROVE  /\ disk' \in [Bases -> Copy]
           /\ \A b \in Bases : b # basename(Head(todo).name) => disk'[b] = disk[b]
<1> DEFINE base == basename(Head(todo).name)
<1>1. todo # <<>>
  BY DEF IInv, Current
<1>2. base \in Bases /\ disk \in [Bases -> Copy] /\ body \in Copy
  BY <1>1, HeadEntry DEF IInv, Types
<1>3. \A len \in 0 .. body.len : [body EXCEPT !.len = len] \in Copy
  BY <1>2 DEF Copy
<1>4. CASE disk' = [disk EXCEPT ![base] = body]
  BY <1>2, <1>4
<1>5. CASE Partly(base)
  <2>1. CASE disk' = disk
    BY <1>2, <2>1
  <2>2. ASSUME NEW len \in 0 .. body.len, disk' = [disk EXCEPT ![base] = [body EXCEPT !.len = len]]
        PROVE  /\ disk' \in [Bases -> Copy]
               /\ \A b \in Bases : b # base => disk'[b] = disk[b]
    BY <1>2, <1>3, <2>2
  <2> QED
    BY <1>5, <2>1, <2>2 DEF Partly
<1> QED
  BY <1>4, <1>5

LEMMA WriteKeeps == ASSUME IInv, Write PROVE IInv'
<1> DEFINE entry == Head(todo)
           base == basename(entry.name)
<1>1. stage = "write" /\ todo # <<>> /\ UNCHANGED <<stored, shots>>
  BY DEF Write, camera, IInv, Current
<1>2. disk' \in [Bases -> Copy]
  BY <1>1, WriteToDisk DEF Write
<1>3. CASE NextEntry
  BY <1>1, <1>2, <1>3, NextEntryKeeps DEF IInv, Types, Current
<1>4. CASE /\ disk' = [disk EXCEPT ![base] = body]
           /\ stage' = "delete" /\ UNCHANGED <<todo, body>>
  <2>1. base \in Bases /\ disk'[base] = body
    BY <1>1, <1>4, HeadEntry DEF IInv, Types
  <2>2. entry \in Entry /\ entry.size_kib = SizeKib[entry.id]
        /\ body.id = entry.id /\ download_is_complete(entry.size_kib, body.len)
    BY <1>1, HeadEntry DEF IInv, Current
  <2>3. body.len \in Nat /\ entry.id \in Shots
    BY <2>2 DEF IInv, Types, Copy, Entry
  <2>4. Whole(disk'[base], entry.id)
    BY <2>1, <2>2, <2>3, CompleteIsWhole DEF Whole
  <2> QED
    BY <1>1, <1>2, <1>4, <2>4 DEF IInv, Types, Ahead, Current
<1> QED
  BY <1>3, <1>4 DEF Write

LEMMA DeleteKeeps == ASSUME IInv, Delete PROVE IInv'
<1> DEFINE name == Head(todo).name
<1>1. stage = "delete" /\ todo # <<>> /\ NextEntry /\ UNCHANGED <<shots, disk>>
  BY DEF Delete, IInv, Current
<1>2. stored' \in {stored, [stored EXCEPT ![name] = 0]}
  BY DEF Delete
<1>3. /\ stored' \in [Names -> Shots \cup {0}]
      /\ \A n \in Names : n # name => stored'[n] = stored[n]
  BY <1>2 DEF IInv, Types
<1> QED
  BY <1>1, <1>3, NextEntryKeeps DEF IInv, Types, Current

LEMMA StopKeeps ==
    ASSUME IInv, (\E delete \in BOOLEAN : StartSync(delete)) \/ Interrupt PROVE IInv'
<1>1. todo' = <<>> /\ body' = None /\ stage' \in {"list", "off"} /\ UNCHANGED <<stored, shots>>
  BY DEF StartSync, Interrupt, camera
<1>2. body' \in Copy
  BY <1>1 DEF None, Copy
<1>3. disk' \in [Bases -> Copy]
  BY WriteToDisk DEF StartSync, Interrupt, IInv, Types
<1> QED
  BY <1>1, <1>2, <1>3 DEF IInv, Types, Ahead, Current

LEMMA Inductive == IInv /\ [Next]_vars => IInv'
<1> SUFFICES ASSUME IInv, [Next]_vars PROVE IInv'
  OBVIOUS
<1>1. CASE UNCHANGED <<camera, disk, sync>>
  BY <1>1 DEF camera, sync, IInv, Types, Ahead, Current, Whole
<1>2. CASE UNCHANGED vars
  BY <1>1, <1>2 DEF vars
<1> QED
  BY <1>1, <1>2, ShootKeeps, ListKeeps, DownloadKeeps, WriteKeeps, DeleteKeeps, StopKeeps
  DEF Next, AccessPoint, SyncStep

-----------------------------------------------------------------------------
LostTo == \A id \in Shots : Safe(id) /\ ~ Safe(id)' =>
             \E b \in Bases : Whole(disk[b], id) /\ disk'[b].id # id

\* A write changes the disk under one name, and the shot it writes is still
\* on the glasses.
LEMMA WriteLoses ==
    ASSUME IInv, stage = "write", UNCHANGED stored,
           \/ disk' = [disk EXCEPT ![basename(Head(todo).name)] = body]
           \/ Partly(basename(Head(todo).name))
    PROVE  LostTo
<1> DEFINE base == basename(Head(todo).name)
<1> SUFFICES ASSUME NEW id \in Shots, Safe(id), ~ Safe(id)'
             PROVE  \E b \in Bases : Whole(disk[b], id) /\ disk'[b].id # id
  BY DEF LostTo
<1>1. todo # <<>> /\ body.id = Head(todo).id
  BY DEF IInv, Current
<1>2. Head(todo).name \in Names /\ stored[Head(todo).name] = body.id
  BY <1>1, HeadEntry DEF Entry
<1>3. \A n \in Names : stored[n] # id
  BY DEF Safe
<1>4. PICK b \in Bases : Whole(disk[b], id)
  BY <1>3 DEF Safe, OnDisk
<1>5. ~ Whole(disk'[b], id)
  BY DEF Safe, OnDisk
<1>6. b = base
  BY <1>4, <1>5, WriteToDisk
<1>7. disk'[b] = disk[b] \/ disk'[b].id = body.id
  <2>1. disk \in [Bases -> Copy] /\ body \in Copy
    BY DEF IInv, Types
  <2> QED
    BY <1>6, <2>1 DEF Partly, Copy
<1>8. disk'[b].id # id
  BY <1>2, <1>3, <1>4, <1>5, <1>7
<1> QED
  BY <1>4, <1>8

LEMMA DeleteLoses == ASSUME IInv, Delete PROVE LostTo
<1>1. stage = "delete" /\ UNCHANGED disk
      /\ stored' \in {stored, [stored EXCEPT ![Head(todo).name] = 0]}
  BY DEF Delete
<1>2. todo # <<>> /\ Whole(disk[basename(Head(todo).name)], Head(todo).id)
  BY <1>1 DEF IInv, Current
<1>3. OnDisk(Head(todo).id) /\ stored[Head(todo).name] = Head(todo).id
  BY <1>2, HeadEntry DEF OnDisk
<1>4. \A id : OnDisk(id)' = OnDisk(id)
  BY <1>1 DEF OnDisk, Whole
<1>5. \A n \in Names : stored[n] # Head(todo).id => stored'[n] = stored[n]
  BY <1>1, <1>3 DEF IInv, Types
<1> QED
  BY <1>3, <1>4, <1>5 DEF LostTo, Safe

LEMMA StepLoses == IInv /\ [Next]_vars => LostTo
<1> SUFFICES ASSUME IInv, [Next]_vars PROVE LostTo
  OBVIOUS
<1>1. CASE UNCHANGED <<stored, disk>>
  BY <1>1 DEF LostTo, Safe, OnDisk, Whole
<1>2. CASE \E n \in Names : Shoot(n)
  <2>1. \A id \in Shots, n \in Names : stored[n] = id => stored'[n] = id
    BY <1>2, GalleryAssumption DEF Shoot, IInv, Types, Shots
  <2> QED
    BY <1>2, <2>1 DEF Shoot, LostTo, Safe, OnDisk, Whole
<1>3. CASE Write
  BY <1>3, WriteLoses DEF Write, camera
<1>4. CASE Delete
  BY <1>4, DeleteLoses
<1>5. CASE Interrupt
  BY <1>1, <1>5, WriteLoses DEF Interrupt, camera
<1> QED
  BY <1>1, <1>2, <1>3, <1>4, <1>5
  DEF Next, SyncStep, AccessPoint, StartSync, List, Download, vars, camera

\* Whatever fails, is lost or is killed, a shot is lost only where a namesake
\* is written over it.
THEOREM SyncLosesOnlyToNamesakes == Spec => LostOnlyToItsNamesake
<1>1. Spec => []IInv
  BY Initially, Inductive, PTL DEF Spec
<1>2. IInv /\ [Next]_vars => [LostTo]_vars
  BY StepLoses
<1>3. Spec => [][LostTo]_vars
  BY <1>1, <1>2, PTL DEF Spec
<1> QED
  BY <1>3 DEF LostTo, LostOnlyToItsNamesake

-----------------------------------------------------------------------------
(* Loops over sequences: their induction, by a least counterexample.       *)

\* A set of numbers that is not empty has a least one.
LEMMA Least ==
    ASSUME NEW T, T \subseteq Nat, T # {}
    PROVE  \E m \in T : \A n \in T : m <= n
  <1> DEFINE R == {ss \in Nat \X Nat : ss[1] < ss[2]}
  <1>1. IsWellFoundedOn(R, Nat)
    BY NatLessThanWellFounded DEF OpToRel
  <1> HIDE DEF R
  <1>2. \E x \in T : \A y \in T : ~ (<<y, x>> \in R)
    BY <1>1, WFMin
  <1>3. \A x, y \in Nat : ~ (<<y, x>> \in R) => x <= y
    BY DEF R
  <1> QED
    BY <1>2, <1>3

\* Induction up to n, the induction hypothesis as a set.
LEMMA UpTo ==
    ASSUME NEW n \in Nat, NEW T, 0 \in T, \A i \in 1 .. n : i - 1 \in T => i \in T
    PROVE  \A i \in 0 .. n : i \in T
  <1> DEFINE missing == {i \in 0 .. n : i \notin T}
  <1> SUFFICES ASSUME missing # {} PROVE FALSE
    OBVIOUS
  <1>0. missing \subseteq Nat
    OBVIOUS
  <1>1. PICK m \in missing : \A i \in missing : m <= i
    <2> HIDE DEF missing
    <2> QED
      BY <1>0, Least
  <1>2. m \in 1 .. n
    BY <1>1
  <1>3. m - 1 \in 0 .. n /\ ~ (m <= m - 1)
    BY <1>2
  <1>4. m - 1 \in T
    BY <1>1, <1>3
  <1> QED
    BY <1>1, <1>2, <1>4

\* f runs through a loop of n turns, from base on: turn i makes step[i][x] of x.
RunsThrough(f, n, S, base, step) ==
    /\ f \in [0 .. n -> S]
    /\ f[0] = base
    /\ \A i \in 1 .. n : f[i] = step[i][f[i - 1]]

\* There is such a function.
LEMMA Turns ==
    ASSUME NEW n \in Nat, NEW S, NEW base \in S,
           NEW step, \A i \in 1 .. n : \A x \in S : step[i][x] \in S
    PROVE  \E f : RunsThrough(f, n, S, base, step)
  <1> DEFINE Runs(m, g) == g[0] = base /\ \A i \in 1 .. m : g[i] = step[i][g[i - 1]]
             T == {m \in 0 .. n : \E g \in [0 .. m -> S] : Runs(m, g)}
  <1>1. 0 \in T
    <2> DEFINE g == [i \in 0 .. 0 |-> base]
    <2>1. g \in [0 .. 0 -> S] /\ g[0] = base
      OBVIOUS
    <2>2. Runs(0, g)
      BY <2>1
    <2> HIDE DEF Runs, g
    <2> QED
      BY <2>1, <2>2
  <1>2. ASSUME NEW m \in 1 .. n, m - 1 \in T PROVE m \in T
    <2>1. PICK g \in [0 .. m - 1 -> S] : Runs(m - 1, g)
      BY <1>2
    <2> DEFINE x == step[m][g[m - 1]]
               h == [i \in 0 .. m |-> IF i = m THEN x ELSE g[i]]
    <2>2. m - 1 \in 0 .. m - 1 /\ m \in 0 .. n /\ 0 \in 0 .. m - 1 /\ m # 0
      OBVIOUS
    <2>3. x \in S
      BY <2>1, <2>2
    <2> HIDE DEF x
    <2>4. \A i \in 0 .. m : i # m => i \in 0 .. m - 1
      OBVIOUS
    <2>5. h \in [0 .. m -> S]
      BY <2>3, <2>4
    <2>6. h[0] = base
      BY <2>1, <2>2
    <2>7. ASSUME NEW i \in 1 .. m PROVE h[i] = step[i][h[i - 1]]
      <3>1. i \in 0 .. m /\ i - 1 \in 0 .. m /\ i - 1 # m
        OBVIOUS
      <3>2. h[i - 1] = g[i - 1]
        BY <3>1
      <3>3. CASE i = m
        BY <3>1, <3>2, <3>3 DEF x
      <3>4. CASE i # m
        <4>1. i \in 1 .. m - 1
          BY <3>4
        <4> QED
          BY <2>1, <3>1, <3>2, <3>4, <4>1
      <3> QED
        BY <3>3, <3>4
    <2>8. Runs(m, h)
      BY <2>6, <2>7
    <2> HIDE DEF h, Runs
    <2> QED
      BY <2>2, <2>5, <2>8
  <1> HIDE DEF T
  <1>3. \A i \in 0 .. n : i \in T
    BY <1>1, <1>2, UpTo
  <1>4. n \in T
    BY <1>3
  <1>5. PICK g \in [0 .. n -> S] : Runs(n, g)
    BY <1>4 DEF T
  <1>6. RunsThrough(g, n, S, base, step)
    BY <1>5 DEF RunsThrough
  <1> QED
    BY <1>6

-----------------------------------------------------------------------------
(* What a plan announces.                                                  *)

\* The steps of a plan.
Steps == [do : {"Thumbnail", "Download", "Delete"}, entry : Entry] \cup [do : {"TearDown"}]

\* The most a file of the listing may bring.
Most(entry) == entry.size_kib * Kib + Kib - 1

\* A download that is complete brings no more than its step announces.
LEMMA MostIs ==
    ASSUME NEW entry \in Entry
    PROVE  /\ Most(entry) \in Nat
           /\ AtMost([do |-> "Download", entry |-> entry]) = Most(entry)
           /\ \A len \in Nat : download_is_complete(entry.size_kib, len) => len <= Most(entry)
<1> DEFINE low == entry.size_kib * Kib
           high == low + Kib - 1
           range == low .. high
<1>1. Kib \in Nat \ {0} /\ entry.size_kib \in Nat
  BY GalleryAssumption DEF Entry
<1>2. low \in Nat
  BY <1>1
<1> HIDE DEF low
<1>3. high \in range /\ high \in Nat /\ \A y \in range : high >= y
  BY <1>1, <1>2
<1>4. Max(range) = high
  <2>1. \A x \in range : (\A y \in range : x >= y) => x = high
    BY <1>2, <1>3
  <2> HIDE DEF range, high
  <2> QED
    BY <1>3, <2>1 DEF Max
<1>5. expected_byte_range(entry.size_kib) = range
  BY DEF expected_byte_range, low
<1>6. Most(entry) = high
  BY DEF Most, low
<1>7. AtMost([do |-> "Download", entry |-> entry]) = Max(range)
  BY <1>5 DEF AtMost
<1>8. \A len \in Nat : download_is_complete(entry.size_kib, len) => len <= high
  BY <1>1, <1>2, <1>5 DEF download_is_complete
<1> QED
  BY <1>3, <1>4, <1>6, <1>7, <1>8

\* Only a download announces anything.
LEMMA StepMost ==
    ASSUME NEW step \in Steps
    PROVE  AtMost(step) \in Nat /\ (step.do # "Download" => AtMost(step) = 0)
<1>1. CASE step.do # "Download"
  BY <1>1 DEF AtMost
<1>2. CASE step.do = "Download"
  <2>1. step.entry \in Entry /\ step = [do |-> "Download", entry |-> step.entry]
    BY <1>2 DEF Steps
  <2> QED
    BY <1>2, <2>1, MostIs
<1> QED
  BY <1>1, <1>2

\* The recursive definition of the sum is one.
LEMMA DownloadTurnsAre ==
    ASSUME NEW plan \in Seq(Steps)
    PROVE  LET sum == DownloadTurns(plan)
           IN  /\ sum \in [0 .. Len(plan) -> Nat] /\ sum[0] = 0
               /\ \A i \in 1 .. Len(plan) : sum[i] = sum[i - 1] + AtMost(plan[i])
<1> DEFINE n == Len(plan)
           step == [i \in 1 .. n |-> [x \in Nat |-> x + AtMost(plan[i])]]
           IsRun(g) == g = [i \in 0 .. n |-> IF i = 0 THEN 0 ELSE g[i - 1] + AtMost(plan[i])]
           sum == DownloadTurns(plan)
<1>1. n \in Nat /\ \A i \in 1 .. n : AtMost(plan[i]) \in Nat
  BY StepMost
<1>2. \A i \in 1 .. n : \A x \in Nat : step[i][x] = x + AtMost(plan[i]) /\ step[i][x] \in Nat
  BY <1>1
<1>3. PICK f : f \in [0 .. n -> Nat] /\ f[0] = 0 /\ \A i \in 1 .. n : f[i] = step[i][f[i - 1]]
  <2> HIDE DEF n, step
  <2>1. \A i \in 1 .. n : \A x \in Nat : step[i][x] \in Nat
    BY <1>2
  <2>2. n \in Nat /\ 0 \in Nat
    BY <1>1
  <2>3. \E f : RunsThrough(f, n, Nat, 0, step)
    BY <2>1, <2>2, Turns
  <2> QED
    BY <2>3 DEF RunsThrough
<1>4. \A i \in 1 .. n : f[i] = f[i - 1] + AtMost(plan[i])
  <2> SUFFICES ASSUME NEW i \in 1 .. n PROVE f[i] = f[i - 1] + AtMost(plan[i])
    OBVIOUS
  <2>1. f[i - 1] \in Nat
    <3>1. i - 1 \in 0 .. n
      BY <1>1
    <3> HIDE DEF n
    <3> QED
      BY <1>3, <3>1
  <2> QED
    BY <1>2, <1>3, <2>1
<1>5. IsRun(f)
  <2>1. \A i \in 0 .. n : i # 0 => i \in 1 .. n
    BY <1>1
  <2> HIDE DEF n, step
  <2>2. \A i \in 0 .. n : f[i] = IF i = 0 THEN 0 ELSE f[i - 1] + AtMost(plan[i])
    BY <1>3, <1>4, <2>1
  <2> QED
    BY <1>3, <2>2
<1>6. sum = CHOOSE g : IsRun(g)
  BY DEF DownloadTurns
<1>7. IsRun(sum)
  <2> HIDE DEF IsRun, sum
  <2> QED
    BY <1>5, <1>6
<1> HIDE DEF sum
<1>8. sum[0] = 0 /\ \A i \in 1 .. n : sum[i] = sum[i - 1] + AtMost(plan[i])
  BY <1>1, <1>7
<1>9. \A i \in 0 .. n : sum[i] \in Nat
  <2> DEFINE T == {i \in 0 .. n : sum[i] \in Nat}
  <2>1. 0 \in T
    BY <1>1, <1>8
  <2>2. \A i \in 1 .. n : i - 1 \in T => i \in T
    BY <1>1, <1>8
  <2>3. \A i \in 0 .. n : i \in T
    <3> HIDE DEF T, n
    <3> QED
      BY <1>1, <2>1, <2>2, UpTo
  <2> QED
    BY <2>3
<1>10. sum \in [0 .. n -> Nat]
  BY <1>7, <1>9
<1> QED
  BY <1>8, <1>10 DEF sum

\* A plan without a download announces nothing.
LEMMA NothingAnnounced ==
    ASSUME NEW plan \in Seq(Steps), \A i \in 1 .. Len(plan) : AtMost(plan[i]) = 0
    PROVE  max_download_bytes(plan) = 0
<1> DEFINE n == Len(plan)
           sum == DownloadTurns(plan)
           T == {i \in 0 .. n : sum[i] = 0}
<1>1. n \in Nat /\ sum[0] = 0 /\ \A i \in 1 .. n : sum[i] = sum[i - 1] + AtMost(plan[i])
  BY DownloadTurnsAre
<1> HIDE DEF sum
<1>2. 0 \in T /\ \A i \in 1 .. n : i - 1 \in T => i \in T
  BY <1>1
<1>3. \A i \in 0 .. n : i \in T
  <2> HIDE DEF T, n
  <2> QED
    BY <1>1, <1>2, UpTo
<1>4. sum[n] = 0
  BY <1>1, <1>3
<1> QED
  BY <1>4 DEF max_download_bytes, sum

\* One plan after the other announces the sum of the two.
LEMMA AnnouncedTogether ==
    ASSUME NEW s \in Seq(Steps), NEW t \in Seq(Steps)
    PROVE  /\ max_download_bytes(s \o t) = max_download_bytes(s) + max_download_bytes(t)
           /\ max_download_bytes(s) \in Nat /\ max_download_bytes(t) \in Nat
<1> DEFINE m == Len(s)
           n == Len(t)
           both == s \o t
           a == DownloadTurns(s)
           b == DownloadTurns(t)
           c == DownloadTurns(both)
           A == {i \in 0 .. m : c[i] = a[i]}
           B == {i \in 0 .. n : c[m + i] = a[m] + b[i]}
<1>1. m \in Nat /\ n \in Nat /\ both \in Seq(Steps) /\ Len(both) = m + n
  OBVIOUS
<1>2. (\A i \in 1 .. m : both[i] = s[i]) /\ (\A i \in 1 .. n : both[m + i] = t[i])
  OBVIOUS
<1> HIDE DEF both
<1>3. /\ a \in [0 .. m -> Nat] /\ a[0] = 0
      /\ \A i \in 1 .. m : a[i] = a[i - 1] + AtMost(s[i])
  BY DownloadTurnsAre
<1>4. /\ b \in [0 .. n -> Nat] /\ b[0] = 0
      /\ \A i \in 1 .. n : b[i] = b[i - 1] + AtMost(t[i])
  BY DownloadTurnsAre
<1>5. /\ c \in [0 .. m + n -> Nat] /\ c[0] = 0
      /\ \A i \in 1 .. m + n : c[i] = c[i - 1] + AtMost(both[i])
  BY <1>1, DownloadTurnsAre
<1>6. \A i \in 1 .. n : AtMost(t[i]) \in Nat
  BY StepMost
<1> HIDE DEF a, b, c, m, n
<1>7. \A i \in 0 .. m : i \in A
  <2>1. 0 \in A
    BY <1>1, <1>3, <1>5
  <2>2. ASSUME NEW i \in 1 .. m, i - 1 \in A PROVE i \in A
    <3>1. i \in 1 .. m + n /\ i \in 0 .. m
      BY <1>1
    <3>2. c[i - 1] = a[i - 1]
      BY <2>2
    <3>3. c[i] = a[i]
      BY <1>2, <1>3, <1>5, <3>1, <3>2
    <3> QED
      BY <3>1, <3>3
  <2> HIDE DEF A
  <2> QED
    BY <1>1, <2>1, <2>2, UpTo
<1>8. \A i \in 0 .. n : i \in B
  <2>1. 0 \in B
    <3>1. m \in 0 .. m /\ m + 0 = m /\ 0 \in 0 .. n
      BY <1>1
    <3>2. c[m] = a[m] /\ a[m] \in Nat
      BY <1>3, <1>7, <3>1
    <3> QED
      BY <1>4, <3>1, <3>2
  <2>2. ASSUME NEW i \in 1 .. n, i - 1 \in B PROVE i \in B
    <3>1. m + i \in 1 .. m + n /\ i \in 0 .. n /\ i - 1 \in 0 .. n /\ m \in 0 .. m
          /\ (m + i) - 1 = m + (i - 1)
      BY <1>1
    <3>2. c[m + (i - 1)] = a[m] + b[i - 1]
      BY <2>2
    <3>3. a[m] \in Nat /\ b[i - 1] \in Nat /\ AtMost(t[i]) \in Nat
      BY <1>3, <1>4, <1>6, <3>1
    <3>4. c[m + i] = (a[m] + b[i - 1]) + AtMost(t[i])
      <4> DEFINE j == m + i
      <4>1. j \in 1 .. m + n /\ c[j - 1] = a[m] + b[i - 1]
        BY <3>1, <3>2
      <4>2. both[j] = t[i]
        BY <1>2
      <4> HIDE DEF j
      <4>3. c[j] = c[j - 1] + AtMost(both[j])
        BY <1>5, <4>1
      <4>4. c[j] = (a[m] + b[i - 1]) + AtMost(t[i])
        BY <4>1, <4>2, <4>3
      <4> QED
        BY <4>4 DEF j
    <3>5. b[i] = b[i - 1] + AtMost(t[i])
      BY <1>4
    <3>6. c[m + i] = a[m] + b[i]
      BY <3>3, <3>4, <3>5
    <3> QED
      BY <3>1, <3>6
  <2> HIDE DEF B
  <2> QED
    BY <1>1, <2>1, <2>2, UpTo
<1>9. c[m + n] = a[m] + b[n] /\ a[m] \in Nat /\ b[n] \in Nat
  BY <1>1, <1>3, <1>4, <1>8
<1>10. /\ max_download_bytes(both) = c[m + n]
       /\ max_download_bytes(s) = a[m] /\ max_download_bytes(t) = b[n]
  BY <1>1 DEF max_download_bytes, a, b, c, m, n
<1> QED
  BY <1>9, <1>10 DEF both

-----------------------------------------------------------------------------
(* The plan of a listing, flattened.                                       *)

\* FlattenSeq's loop: from the empty sequence on, one sequence after the other.
Flattens(g, S, seqs) ==
    /\ g \in [0 .. Len(seqs) -> Seq(S)]
    /\ g[0] = <<>> /\ \A i \in 1 .. Len(seqs) : g[i] = g[i - 1] \o seqs[i]
    /\ FlattenSeq(seqs) = g[Len(seqs)]

\* The library's FlattenSeq, a fold, is that loop.
LEMMA FlattenTurns ==
    ASSUME NEW S, NEW seqs \in Seq(Seq(S))
    PROVE  \E g : Flattens(g, S, seqs)
<1> DEFINE n == Len(seqs)
           step == [i \in 1 .. n |-> [x \in Seq(S) |-> x \o seqs[i]]]
           IsRun(g) == g = [i \in 1 .. n |-> IF i = 1 THEN seqs[i] ELSE g[i - 1] \o seqs[i]]
           flat == CHOOSE g : IsRun(g)
<1>1. n \in Nat /\ (\A i \in 1 .. n : seqs[i] \in Seq(S)) /\ <<>> \in Seq(S)
  BY EmptySeq
<1>2. \A i \in 1 .. n : \A x \in Seq(S) : step[i][x] = x \o seqs[i] /\ step[i][x] \in Seq(S)
  BY <1>1
<1>3. PICK f : f \in [0 .. n -> Seq(S)] /\ f[0] = <<>> /\ \A i \in 1 .. n : f[i] = step[i][f[i - 1]]
  <2> HIDE DEF n, step
  <2>1. \A i \in 1 .. n : \A x \in Seq(S) : step[i][x] \in Seq(S)
    BY <1>2
  <2>2. \E f : RunsThrough(f, n, Seq(S), <<>>, step)
    BY <1>1, <2>1, Turns
  <2> QED
    BY <2>2 DEF RunsThrough
<1>4. \A i \in 1 .. n : f[i] = f[i - 1] \o seqs[i]
  <2> SUFFICES ASSUME NEW i \in 1 .. n PROVE f[i] = f[i - 1] \o seqs[i]
    OBVIOUS
  <2>1. f[i - 1] \in Seq(S)
    <3>1. i - 1 \in 0 .. n
      BY <1>1
    <3> HIDE DEF n
    <3> QED
      BY <1>3, <3>1
  <2> QED
    BY <1>2, <1>3, <2>1
<1>5. CASE n = 0
  <2>1. seqs = <<>>
    BY <1>5, EmptySeq
  <2>2. FlattenSeq(seqs) = seqs
    BY <1>5 DEF FlattenSeq
  <2> QED
    BY <1>3, <1>4, <1>5, <2>1, <2>2 DEF Flattens
<1>6. CASE n # 0
  <2>1. FlattenSeq(seqs) = flat[n]
    BY <1>6 DEF FlattenSeq
  <2> DEFINE h == [i \in 1 .. n |-> f[i]]
  <2>2. IsRun(h)
    <3>1. ASSUME NEW i \in 1 .. n PROVE f[i] = IF i = 1 THEN seqs[i] ELSE h[i - 1] \o seqs[i]
      <4>1. CASE i = 1
        <5>1. f[i] = <<>> \o seqs[i] /\ seqs[i] \in Seq(S)
          <6>1. i - 1 = 0
            BY <4>1
          <6> HIDE DEF n
          <6> QED
            BY <1>1, <1>3, <1>4, <6>1
        <5> QED
          BY <4>1, <5>1, ConcatEmptySeq
      <4>2. CASE i # 1
        <5>1. i - 1 \in 1 .. n
          BY <1>1, <4>2
        <5>2. h[i - 1] = f[i - 1]
          BY <5>1
        <5> QED
          BY <1>4, <4>2, <5>2
      <4> QED
        BY <4>1, <4>2
    <3> HIDE DEF n
    <3> QED
      BY <3>1
  <2>3. IsRun(flat)
    <3> HIDE DEF IsRun, h
    <3> QED
      BY <2>2
  <2> HIDE DEF flat
  <2>4. \A i \in 1 .. n : flat[i] = IF i = 1 THEN seqs[i] ELSE flat[i - 1] \o seqs[i]
    <3> HIDE DEF n
    <3> QED
      BY <2>3
  <2> DEFINE T == {i \in 0 .. n : i = 0 \/ flat[i] = f[i]}
  <2>5. 0 \in T
    BY <1>1
  <2>6. ASSUME NEW i \in 1 .. n, i - 1 \in T PROVE i \in T
    <3>1. flat[i] = f[i]
      <4>1. CASE i = 1
        <5>1. f[i] = <<>> \o seqs[i] /\ seqs[i] \in Seq(S)
          <6>1. i - 1 = 0
            BY <4>1
          <6> HIDE DEF n
          <6> QED
            BY <1>1, <1>3, <1>4, <6>1
        <5> QED
          BY <2>4, <4>1, <5>1, ConcatEmptySeq
      <4>2. CASE i # 1
        <5>1. flat[i - 1] = f[i - 1]
          BY <2>6, <4>2
        <5> QED
          BY <1>4, <2>4, <4>2, <5>1
      <4> QED
        BY <4>1, <4>2
    <3> QED
      BY <1>1, <3>1
  <2>7. \A i \in 0 .. n : i \in T
    <3> HIDE DEF T, n
    <3> QED
      BY <1>1, <2>5, <2>6, UpTo
  <2>8. flat[n] = f[n]
    BY <1>1, <1>6, <2>7
  <2> QED
    BY <1>3, <1>4, <2>1, <2>8 DEF Flattens
<1> QED
  BY <1>5, <1>6

-----------------------------------------------------------------------------
\* What the first n entries of a listing may bring.
Downloads(entries) == [i \in DOMAIN entries |-> [do |-> "Download", entry |-> entries[i]]]
Due(entries, n) == DownloadTurns(Downloads(entries))[n]

\* One entry more may bring what that entry may bring.
LEMMA DueTurns ==
    ASSUME NEW entries \in Seq(Entry)
    PROVE  /\ Due(entries, 0) = 0
           /\ \A i \in 0 .. Len(entries) : Due(entries, i) \in Nat
           /\ \A i \in 1 .. Len(entries) : Due(entries, i) = Due(entries, i - 1) + Most(entries[i])
<1> DEFINE n == Len(entries)
           d == Downloads(entries)
<1>1. n \in Nat /\ DOMAIN entries = 1 .. n /\ \A i \in 1 .. n : entries[i] \in Entry
  OBVIOUS
<1>2. \A e \in Entry : [do |-> "Download", entry |-> e] \in Steps
  BY DEF Steps
<1>3. d \in Seq(Steps) /\ Len(d) = n /\ \A i \in 1 .. n : d[i] = [do |-> "Download", entry |-> entries[i]]
  <2> HIDE DEF n
  <2>1. d = [i \in 1 .. n |-> [do |-> "Download", entry |-> entries[i]]]
    BY <1>1 DEF Downloads
  <2>2. \A i \in 1 .. n : [do |-> "Download", entry |-> entries[i]] \in Steps
    BY <1>1, <1>2
  <2> HIDE DEF d
  <2>3. d \in [1 .. n -> Steps]
    BY <2>1, <2>2
  <2> QED
    BY <1>1, <2>1, <2>3
<1> HIDE DEF d
<1>4. LET sum == DownloadTurns(d)
      IN  /\ sum \in [0 .. n -> Nat] /\ sum[0] = 0
          /\ \A i \in 1 .. n : sum[i] = sum[i - 1] + AtMost(d[i])
  BY <1>3, DownloadTurnsAre
<1>5. \A i \in 1 .. n : AtMost(d[i]) = Most(entries[i])
  BY <1>1, <1>3, MostIs
<1> QED
  BY <1>4, <1>5 DEF Due, d

\* The steps of one file announce what it may bring, with or without its delete.
LEMMA FileAnnounces ==
    ASSUME NEW entry \in Entry, NEW delete \in BOOLEAN
    PROVE  /\ FileSteps(entry, delete) \in Seq(Steps)
           /\ max_download_bytes(FileSteps(entry, delete)) = Most(entry)
<1> DEFINE a == [do |-> "Download", entry |-> entry]
           b == [do |-> "Delete", entry |-> entry]
           p == <<a>>
           q == IF delete THEN <<b>> ELSE <<>>
<1>1. a \in Steps /\ b \in Steps /\ b.do # "Download"
  BY DEF Steps
<1>2. AtMost(a) = Most(entry) /\ AtMost(b) = 0 /\ Most(entry) \in Nat
  BY <1>1, MostIs, StepMost
<1> HIDE DEF a, b
<1>3. p \in Seq(Steps) /\ Len(p) = 1 /\ p[1] = a
  BY <1>1
<1>4. q \in Seq(Steps) /\ \A i \in 1 .. Len(q) : q[i] = b
  <2>1. <<b>> \in Seq(Steps) /\ Len(<<b>>) = 1 /\ <<b>>[1] = b
    BY <1>1
  <2>2. <<>> \in Seq(Steps) /\ Len(<<>>) = 0
    BY EmptySeq
  <2>3. CASE delete
    <3>1. q = <<b>>
      BY <2>3
    <3> HIDE DEF q
    <3> QED
      BY <2>1, <3>1
  <2>4. CASE ~ delete
    <3>1. q = <<>>
      BY <2>4
    <3> HIDE DEF q
    <3> QED
      BY <2>2, <3>1
  <2> QED
    BY <2>3, <2>4
<1>5. FileSteps(entry, delete) = p \o q
  BY DEF FileSteps, a, b
<1> HIDE DEF p, q
<1>6. max_download_bytes(q) = 0
  BY <1>2, <1>4, NothingAnnounced
<1>7. max_download_bytes(p) = Most(entry)
  <2>1. LET sum == DownloadTurns(p)
        IN  sum[0] = 0 /\ \A i \in 1 .. Len(p) : sum[i] = sum[i - 1] + AtMost(p[i])
    BY <1>3, DownloadTurnsAre
  <2>2. DownloadTurns(p)[1] = 0 + Most(entry)
    BY <1>2, <1>3, <2>1
  <2> QED
    BY <1>2, <1>3, <2>2 DEF max_download_bytes
<1>8. max_download_bytes(p \o q) = Most(entry) + 0
  BY <1>3, <1>4, <1>6, <1>7, AnnouncedTogether
<1>9. p \o q \in Seq(Steps)
  BY <1>3, <1>4
<1> QED
  BY <1>2, <1>5, <1>8, <1>9

\* What a plan announces is what its listing may bring.
LEMMA PlanAnnounces ==
    ASSUME NEW entries \in Seq(Entry), NEW delete \in BOOLEAN
    PROVE  max_download_bytes(for_list(entries, delete)) = Due(entries, Len(entries))
<1> DEFINE n == Len(entries)
           thumbs == [i \in DOMAIN entries |-> [do |-> "Thumbnail", entry |-> entries[i]]]
           files == [i \in DOMAIN entries |-> FileSteps(entries[i], delete)]
           flat == FlattenSeq(files)
           last == [do |-> "TearDown"]
<1>1. n \in Nat /\ DOMAIN entries = 1 .. n /\ \A i \in 1 .. n : entries[i] \in Entry
  OBVIOUS
<1>2. thumbs \in Seq(Steps) /\ \A i \in 1 .. Len(thumbs) : AtMost(thumbs[i]) = 0
  <2>1. \A e \in Entry : [do |-> "Thumbnail", entry |-> e] \in Steps
                         /\ [do |-> "Thumbnail", entry |-> e].do # "Download"
    BY DEF Steps
  <2>2. \A i \in 1 .. n : thumbs[i] = [do |-> "Thumbnail", entry |-> entries[i]]
                          /\ thumbs[i] \in Steps /\ AtMost(thumbs[i]) = 0
    BY <1>1, <2>1, StepMost
  <2>3. DOMAIN thumbs = 1 .. n /\ thumbs = [i \in 1 .. n |-> thumbs[i]]
    BY <1>1
  <2> HIDE DEF thumbs, n
  <2>4. thumbs \in [1 .. n -> Steps]
    BY <2>2, <2>3
  <2> QED
    BY <1>1, <2>2, <2>4
<1>3. files \in Seq(Seq(Steps)) /\ Len(files) = n
      /\ \A i \in 1 .. n : files[i] \in Seq(Steps) /\ max_download_bytes(files[i]) = Most(entries[i])
  <2>1. \A i \in 1 .. n : files[i] = FileSteps(entries[i], delete)
                          /\ files[i] \in Seq(Steps) /\ max_download_bytes(files[i]) = Most(entries[i])
    BY <1>1, FileAnnounces
  <2>2. DOMAIN files = 1 .. n /\ files = [i \in 1 .. n |-> files[i]]
    BY <1>1
  <2> HIDE DEF files, n
  <2>3. files \in [1 .. n -> Seq(Steps)]
    BY <2>1, <2>2
  <2> QED
    BY <1>1, <2>1, <2>3
<1>4. for_list(entries, delete) = thumbs \o flat \o <<last>>
  BY DEF for_list
<1> HIDE DEF thumbs, files
<1>5. PICK g :
          /\ g \in [0 .. n -> Seq(Steps)]
          /\ g[0] = <<>> /\ \A i \in 1 .. n : g[i] = g[i - 1] \o files[i]
          /\ flat = g[n]
  <2>1. \E g : Flattens(g, Steps, files)
    BY <1>3, FlattenTurns
  <2> QED
    BY <1>3, <2>1 DEF Flattens
<1> HIDE DEF flat
<1>6. max_download_bytes(flat) = Due(entries, n) /\ flat \in Seq(Steps)
  <2> DEFINE T == {i \in 0 .. n : max_download_bytes(g[i]) = Due(entries, i)}
  <2>1. 0 \in T
    <3> DEFINE none == g[0]
    <3>1. none \in Seq(Steps) /\ Len(none) = 0
      BY <1>5, EmptySeq
    <3> HIDE DEF none
    <3>2. \A i \in 1 .. Len(none) : AtMost(none[i]) = 0
      BY <3>1
    <3>3. max_download_bytes(none) = 0
      BY <3>1, <3>2, NothingAnnounced
    <3> QED
      BY <1>1, <3>3, DueTurns DEF none
  <2>2. ASSUME NEW i \in 1 .. n, i - 1 \in T PROVE i \in T
    <3>1. i - 1 \in 0 .. n /\ i \in 0 .. n
      BY <1>1
    <3>2. g[i - 1] \in Seq(Steps) /\ files[i] \in Seq(Steps)
      BY <1>3, <1>5, <3>1
    <3>3. max_download_bytes(g[i - 1] \o files[i])
              = max_download_bytes(g[i - 1]) + max_download_bytes(files[i])
      BY <3>2, AnnouncedTogether
    <3>4. max_download_bytes(g[i - 1]) = Due(entries, i - 1)
      BY <2>2
    <3>5. Due(entries, i) = Due(entries, i - 1) + Most(entries[i])
      BY DueTurns
    <3>6. max_download_bytes(g[i]) = Due(entries, i)
      BY <1>3, <1>5, <3>3, <3>4, <3>5
    <3> QED
      BY <3>1, <3>6
  <2>3. \A i \in 0 .. n : i \in T
    <3> HIDE DEF T, n
    <3> QED
      BY <1>1, <2>1, <2>2, UpTo
  <2>4. n \in 0 .. n
    BY <1>1
  <2> QED
    BY <1>5, <2>3, <2>4
<1>7. max_download_bytes(thumbs) = 0
  BY <1>2, NothingAnnounced
<1>8. <<last>> \in Seq(Steps) /\ max_download_bytes(<<last>>) = 0
  <2>1. last \in Steps /\ last.do # "Download"
    BY DEF Steps
  <2>2. AtMost(last) = 0
    BY <2>1, StepMost
  <2> HIDE DEF last
  <2>3. <<last>> \in Seq(Steps) /\ \A i \in 1 .. Len(<<last>>) : <<last>>[i] = last
    BY <2>1
  <2> QED
    BY <2>2, <2>3, NothingAnnounced
<1>9. Due(entries, n) \in Nat
  BY <1>1, DueTurns
<1> HIDE DEF last
<1>10. thumbs \o flat \in Seq(Steps) /\ max_download_bytes(thumbs \o flat) = 0 + Due(entries, n)
  BY <1>2, <1>6, <1>7, AnnouncedTogether
<1>11. max_download_bytes((thumbs \o flat) \o <<last>>) = (0 + Due(entries, n)) + 0
  BY <1>8, <1>10, AnnouncedTogether
<1> QED
  BY <1>4, <1>9, <1>11

-----------------------------------------------------------------------------
(* What a sync remembers: the entries behind it are saved.                 *)

\* How many entries of the listing are behind.
Taken == Len(listing) - Len(todo)

\* The types of the report and of the listing.
ReportTyped ==
    /\ listing \in Seq(Entry)
    /\ report \in [bytes : Nat, failures : Seq(Names)]
    /\ delete_after \in BOOLEAN

\* What is ahead is the end of the listing.
Coming ==
    /\ Taken \in Nat
    /\ \A i \in 1 .. Len(todo) : todo[i] = listing[Taken + i]
    /\ stage = "done" => todo = <<>>
    /\ stage \in {"off", "list", "failed"} => listing = <<>>

\* A shot has one number and one name, and a number is not used again.
Numbered ==
    /\ \A n \in Names : stored[n] <= shots
    /\ \A m, n \in Names : stored[m] = stored[n] /\ stored[m] # 0 => m = n
    /\ \A i \in 1 .. Len(listing) : listing[i].id <= shots

\* Entry i is on disk, and off the glasses where the sync deletes.
Saved(i) ==
    /\ Whole(disk[basename(listing[i].name)], listing[i].id)
    /\ delete_after => \A n \in Names : stored[n] # listing[i].id

\* While nothing failed, what is behind is on disk, and off the glasses.
SavedSoFar == report.failures = <<>> /\ ~ Namesakes => \A i \in 1 .. Taken : Saved(i)

\* What was moved is at most what the entries behind may bring; before its
\* delete, the current one counts as behind.
MovedSoFar == report.bytes <= Due(listing, IF stage = "delete" THEN Taken + 1 ELSE Taken)

\* The invariant, on top of IInv, that makes a clean sync complete.
History == ReportTyped /\ Coming /\ Numbered /\ SavedSoFar /\ MovedSoFar

\* A sync that has no listing, or that is at the start of it.
LEMMA AtStart ==
    ASSUME listing' \in Seq(Entry), todo' = listing', report' = NewReport, delete_after' \in BOOLEAN,
           stage' # "delete", stage' = "done" => todo' = <<>>,
           stage' \in {"off", "list", "failed"} => listing' = <<>>,
           Numbered'
    PROVE  History'
<1>1. Len(listing') \in Nat /\ Len(todo') = Len(listing')
  OBVIOUS
<1>2. Taken' = 0 /\ (1 .. 0 = {})
  BY <1>1 DEF Taken
<1>3. ReportTyped'
  <2>1. <<>> \in Seq(Names)
    BY EmptySeq
  <2> QED
    BY <2>1 DEF ReportTyped, NewReport
<1>4. \A i \in 1 .. Len(todo') : todo'[i] = listing'[0 + i]
  BY <1>1
<1>5. Coming'
  BY <1>2, <1>4 DEF Coming
<1>6. SavedSoFar'
  BY <1>2 DEF SavedSoFar
<1>7. MovedSoFar'
  <2>1. Due(listing', 0) = 0
    BY DueTurns
  <2>2. report'.bytes = 0
    BY DEF NewReport
  <2> QED
    BY <1>2, <2>1, <2>2 DEF MovedSoFar
<1> QED
  BY <1>3, <1>5, <1>6, <1>7 DEF History

\* It holds of a folder nobody has synced into.
LEMMA StartHistory == Init => History
<1> SUFFICES ASSUME Init PROVE History
  OBVIOUS
<1> DEFINE none == <<>>
<1>1. none \in Seq(Entry) /\ none \in Seq(Names) /\ Len(none) = 0
  BY EmptySeq
<1>2. listing = none /\ todo = none /\ stage = "off" /\ delete_after = FALSE /\ shots = 0
      /\ stored = [n \in Names |-> 0] /\ report.bytes = 0 /\ report.failures = none
      /\ report = [bytes |-> 0, failures |-> none]
  BY DEF Init, NewReport
<1> HIDE DEF none
<1>3. Taken = 0 /\ (1 .. 0 = {})
  BY <1>1, <1>2 DEF Taken
<1>4. Due(none, 0) = 0
  BY <1>1, DueTurns
<1>5. Coming /\ Numbered /\ SavedSoFar /\ MovedSoFar
  BY <1>1, <1>2, <1>3, <1>4 DEF Coming, Numbered, SavedSoFar, MovedSoFar, none
<1>6. ReportTyped
  <2>1. report \in [bytes : Nat, failures : Seq(Names)]
    BY <1>1, <1>2
  <2>2. listing \in Seq(Entry) /\ delete_after \in BOOLEAN
    BY <1>1, <1>2
  <2> QED
    BY <2>1, <2>2 DEF ReportTyped
<1> QED
  BY <1>5, <1>6 DEF History

\* What the types say about the listing.
LEMMA Listed ==
    ASSUME IInv, History
    PROVE  /\ Taken \in Nat /\ Len(listing) \in Nat /\ Len(todo) \in Nat
           /\ Len(listing) = Taken + Len(todo)
           /\ shots \in Nat /\ \A n \in Names : stored[n] \in Nat
           /\ \A i \in 1 .. Len(listing) :
                 /\ listing[i] \in Entry /\ listing[i].name \in Names
                 /\ basename(listing[i].name) \in Bases
                 /\ listing[i].id \in Nat /\ listing[i].id # 0 /\ listing[i].id <= shots
           /\ report.bytes \in Nat /\ report.failures \in Seq(Names)
           /\ \A i \in 0 .. Len(listing) : Due(listing, i) \in Nat
<1>1. /\ listing \in Seq(Entry) /\ todo \in Seq(Entry) /\ shots \in 0 .. Len(Bytes)
      /\ stored \in [Names -> Shots \cup {0}]
      /\ report \in [bytes : Nat, failures : Seq(Names)]
  BY DEF IInv, Types, History, ReportTyped
<1>2. Len(listing) \in Nat /\ Len(todo) \in Nat /\ Taken \in Nat
  BY <1>1 DEF History, Coming
<1>3. Len(listing) = Taken + Len(todo)
  BY <1>2 DEF Taken
<1>4. Len(Bytes) \in Nat /\ Shots \subseteq Nat /\ 0 \notin Shots
  BY GalleryAssumption DEF Shots
<1>5. shots \in Nat /\ \A n \in Names : stored[n] \in Nat
  <2>1. \A n \in Names : stored[n] \in Shots \cup {0}
    BY <1>1
  <2>2. \A x \in Shots \cup {0} : x \in Nat
    BY <1>4
  <2>3. shots \in Nat
    BY <1>1, <1>4
  <2> QED
    BY <2>1, <2>2, <2>3
<1>6. \A i \in 1 .. Len(listing) : listing[i] \in Entry
  BY <1>1
<1>7. \A e \in Entry : e.name \in Names /\ basename(e.name) \in Bases /\ e.id \in Nat /\ e.id # 0
  BY <1>4, BasenameIsBase DEF Entry
<1>8. \A i \in 1 .. Len(listing) : listing[i].id <= shots
  BY DEF History, Numbered
<1>9. \A i \in 0 .. Len(listing) : Due(listing, i) \in Nat
  BY <1>1, DueTurns
<1> QED
  BY <1>1, <1>2, <1>3, <1>5, <1>6, <1>7, <1>8, <1>9

\* The current entry is the next one of the listing.
LEMMA CurrentEntry ==
    ASSUME IInv, History, todo # <<>>
    PROVE  /\ Taken + 1 \in 1 .. Len(listing) /\ Head(todo) = listing[Taken + 1]
           /\ Due(listing, Taken + 1) = Due(listing, Taken) + Most(listing[Taken + 1])
           /\ Due(listing, Taken) \in Nat /\ Most(listing[Taken + 1]) \in Nat
<1>1. Len(todo) \in Nat \ {0} /\ Head(todo) = todo[1]
  BY HeadEntry, EmptySeq DEF IInv, Types
<1>2. todo[1] = listing[Taken + 1]
  BY <1>1 DEF History, Coming
<1>3. Taken + 1 \in 1 .. Len(listing) /\ Taken \in 0 .. Len(listing) /\ (Taken + 1) - 1 = Taken
  BY <1>1, Listed
<1>4. Due(listing, Taken + 1) = Due(listing, (Taken + 1) - 1) + Most(listing[Taken + 1])
  <2>1. listing \in Seq(Entry)
    BY DEF History, ReportTyped
  <2> QED
    BY <1>3, <2>1, DueTurns
<1>5. Most(listing[Taken + 1]) \in Nat
  BY <1>3, Listed, MostIs
<1>6. Due(listing, Taken) \in Nat
  BY <1>3, Listed
<1> QED
  BY <1>1, <1>2, <1>3, <1>4, <1>5, <1>6

\* Going on to the next entry.
LEMMA GoesOn ==
    ASSUME IInv, History, NextEntry, todo # <<>>, UNCHANGED listing
    PROVE  Coming' /\ Taken' = Taken + 1 /\ stage' \in {"done", "download"}
<1>1. todo' = Tail(todo) /\ stage' = IF todo' = <<>> THEN "done" ELSE "download"
  BY DEF NextEntry
<1>2. Len(todo) \in Nat \ {0} /\ todo \in Seq(Entry)
  BY EmptySeq DEF IInv, Types
<1>3. Len(todo') = Len(todo) - 1 /\ \A i \in 1 .. Len(todo') : todo'[i] = todo[i + 1]
  BY <1>1, <1>2
<1>4. Taken \in Nat /\ Len(listing) \in Nat
  BY Listed
<1>5. Taken' = Len(listing) - Len(todo') /\ Taken = Len(listing) - Len(todo)
  BY DEF Taken
<1>6. Taken' = Taken + 1
  BY <1>2, <1>3, <1>4, <1>5
<1>7. ASSUME NEW i \in 1 .. Len(todo') PROVE todo'[i] = listing'[Taken' + i]
  <2>1. i + 1 \in 1 .. Len(todo) /\ Taken + (i + 1) = (Taken + 1) + i
    BY <1>2, <1>3, <1>4
  <2>2. todo[i + 1] = listing[Taken + (i + 1)]
    BY <2>1 DEF History, Coming
  <2> QED
    BY <1>3, <1>6, <2>1, <2>2
<1>8. Coming'
  BY <1>1, <1>4, <1>6, <1>7 DEF Coming
<1> QED
  BY <1>1, <1>6, <1>8

\* A failure in the report.
LEMMA FailureStays ==
    ASSUME IInv, History, NEW name \in Names, Failed(name), UNCHANGED <<listing, delete_after>>
    PROVE  ReportTyped' /\ SavedSoFar' /\ report'.bytes = report.bytes
<1>1. report \in [bytes : Nat, failures : Seq(Names)] /\ report.failures \in Seq(Names)
  BY DEF History, ReportTyped
<1>2. /\ report'.failures = Append(report.failures, name) /\ report'.bytes = report.bytes
      /\ report' \in [bytes : Nat, failures : Seq(Names)]
  <2> DEFINE fs == Append(report.failures, name)
  <2>1. fs \in Seq(Names)
    BY <1>1
  <2>2. report' = [report EXCEPT !.failures = fs]
    BY DEF Failed
  <2> HIDE DEF fs
  <2>3. report' \in [bytes : Nat, failures : Seq(Names)] /\ report'.failures = fs
        /\ report'.bytes = report.bytes
    BY <1>1, <2>1, <2>2
  <2> QED
    BY <2>3 DEF fs
<1>3. \A s \in Seq(Names) : Append(s, name) # <<>>
  OBVIOUS
<1>4. report'.failures # <<>>
  BY <1>1, <1>2, <1>3
<1> QED
  BY <1>2, <1>4 DEF ReportTyped, SavedSoFar, History

\* Where the disk and the glasses keep what is behind, it stays saved.
LEMMA SavedStays ==
    ASSUME NEW i, Saved(i), UNCHANGED <<listing, delete_after>>,
           disk'[basename(listing[i].name)] = disk[basename(listing[i].name)],
           \A n \in Names : stored'[n] = listing[i].id => stored[n] = listing[i].id
    PROVE  Saved(i)'
<1>1. Whole(disk'[basename(listing'[i].name)], listing'[i].id)
  BY DEF Saved
<1>2. delete_after' => \A n \in Names : stored'[n] # listing'[i].id
  BY DEF Saved
<1> QED
  BY <1>1, <1>2 DEF Saved

\* Files are taken, the access point comes and goes: the sync is where it was.
LEMMA ShootTells == ASSUME IInv, History, NEW n \in Names, Shoot(n) PROVE History'
<1>1. UNCHANGED <<disk, stage, delete_after, todo, report, listing>>
  BY DEF Shoot, sync
<1>2. shots' = shots + 1 /\ stored' = [stored EXCEPT ![n] = shots'] /\ stored[n] = 0
  BY DEF Shoot
<1>3. /\ stored \in [Names -> Shots \cup {0}] /\ shots \in Nat
      /\ \A m \in Names : stored[m] \in Nat /\ stored[m] <= shots
  BY Listed DEF IInv, Types, History, Numbered
<1>4. stored'[n] = shots + 1 /\ \A m \in Names : m # n => stored'[m] = stored[m]
  BY <1>2, <1>3
<1>5. Taken' = Taken
  BY <1>1 DEF Taken
<1>6. Numbered'
  <2>1. \A m \in Names : stored'[m] <= shots'
    BY <1>2, <1>3, <1>4
  <2>2. ASSUME NEW m \in Names, NEW k \in Names, stored'[m] = stored'[k], stored'[m] # 0 PROVE m = k
    <3>1. CASE m = n \/ k = n
      BY <1>3, <1>4, <2>2, <3>1
    <3>2. CASE m # n /\ k # n
      BY <1>4, <2>2, <3>2 DEF History, Numbered
    <3> QED
      BY <3>1, <3>2
  <2>3. \A i \in 1 .. Len(listing') : listing'[i].id <= shots'
    <3>1. \A i \in 1 .. Len(listing) : listing[i].id \in Nat /\ listing[i].id <= shots
      BY Listed
    <3> QED
      BY <1>1, <1>2, <1>3, <3>1
  <2> QED
    BY <2>1, <2>2, <2>3 DEF Numbered
<1>7. SavedSoFar'
  <2> SUFFICES ASSUME report'.failures = <<>>, ~ Namesakes', NEW i \in 1 .. Taken' PROVE Saved(i)'
    BY DEF SavedSoFar
  <2>1. ~ Namesakes
    BY <1>1 DEF Namesakes
  <2>2. Saved(i)
    BY <1>1, <1>5, <2>1 DEF History, SavedSoFar
  <2>3. i \in 1 .. Len(listing)
    BY <1>5, Listed
  <2>4. listing[i].id \in Nat /\ listing[i].id <= shots
    BY <2>3, Listed
  <2>5. \A m \in Names : stored'[m] = listing[i].id => stored[m] = listing[i].id
    BY <1>3, <1>4, <2>4
  <2> QED
    BY <1>1, <2>2, <2>5, SavedStays
<1>8. ReportTyped' /\ Coming' /\ MovedSoFar'
  BY <1>1, <1>5 DEF History, ReportTyped, Coming, MovedSoFar
<1> QED
  BY <1>6, <1>7, <1>8 DEF History

\* A sync that starts or is killed has no listing.
LEMMA StartTells ==
    ASSUME IInv, History, (\E delete \in BOOLEAN : StartSync(delete)) \/ Interrupt
    PROVE  History'
<1>1. /\ todo' = <<>> /\ listing' = <<>> /\ report' = NewReport /\ stage' \in {"list", "off"}
      /\ UNCHANGED <<stored, shots>>
  BY DEF StartSync, Interrupt, camera
<1>2. delete_after' \in BOOLEAN
  BY DEF StartSync, Interrupt, History, ReportTyped
<1> DEFINE none == <<>>
<1>3. none \in Seq(Entry) /\ Len(none) = 0
  BY EmptySeq
<1> HIDE DEF none
<1>4. todo' = none /\ listing' = none
  BY <1>1 DEF none
<1>5. Numbered'
  BY <1>1, <1>3, <1>4 DEF History, Numbered
<1>6. stage' # "delete" /\ (stage' = "done" => todo' = <<>>)
  BY <1>1
<1>7. stage' \in {"off", "list", "failed"} => listing' = <<>>
  BY <1>1
<1>8. listing' \in Seq(Entry) /\ todo' = listing'
  BY <1>3, <1>4
<1> QED
  BY <1>1, <1>2, <1>5, <1>6, <1>7, <1>8, AtStart

\* The listing is what the glasses hold, each shot once.
LEMMA ListTells == ASSUME IInv, History, List PROVE History'
<1>1. stage = "list" /\ UNCHANGED <<stored, shots, disk, report, delete_after>>
  BY DEF List, camera
<1>2. listing = <<>> /\ Taken = 0 /\ todo = <<>>
  <2>1. listing = <<>> /\ Taken \in Nat
    BY <1>1 DEF History, Coming
  <2>2. Len(listing) = 0
    BY <2>1
  <2>3. Len(todo) \in Nat /\ Len(listing) = Taken + Len(todo) /\ todo \in Seq(Entry)
    BY Listed DEF IInv, Types
  <2>4. Len(todo) = 0 /\ Taken = 0
    BY <2>1, <2>2, <2>3
  <2> QED
    BY <2>1, <2>3, <2>4, EmptySeq
<1>3. report.bytes = 0
  <2>1. report.bytes <= Due(listing, 0)
    BY <1>1, <1>2 DEF History, MovedSoFar
  <2>2. listing \in Seq(Entry) /\ report.bytes \in Nat
    BY Listed DEF History, ReportTyped
  <2>3. Due(listing, 0) = 0
    BY <2>2, DueTurns
  <2> QED
    BY <2>1, <2>2, <2>3
<1>4. CASE /\ listing' \in SetToSeqs(Entries) /\ todo' = listing'
           /\ stage' = IF todo' = <<>> THEN "done" ELSE "download"
  <2>1. listing' \in Seq(Entry)
        /\ \A i \in 1 .. Len(listing') : stored[listing'[i].name] = listing'[i].id
    BY <1>4, ListingMatches DEF IInv
  <2>2. Len(listing') \in Nat /\ \A i \in 1 .. Len(listing') : listing'[i] \in Entry
    BY <2>1
  <2>3. Numbered'
    <3>1. ASSUME NEW i \in 1 .. Len(listing') PROVE listing'[i].id <= shots'
      <4>1. listing'[i].name \in Names
        BY <2>2 DEF Entry
      <4> QED
        BY <1>1, <2>1, <4>1 DEF History, Numbered
    <3> QED
      BY <1>1, <3>1 DEF History, Numbered
  <2>4. Taken' = 0 /\ (1 .. 0 = {})
    BY <1>4, <2>2 DEF Taken
  <2>5. Coming'
    <3>1. \A i \in 1 .. Len(todo') : todo'[i] = listing'[0 + i]
      BY <1>4, <2>2
    <3>2. (stage' = "done" => todo' = <<>>) /\ stage' \notin {"off", "list", "failed"}
      BY <1>4
    <3> QED
      BY <2>4, <3>1, <3>2 DEF Coming
  <2>6. SavedSoFar'
    BY <2>4 DEF SavedSoFar
  <2>7. MovedSoFar'
    <3>1. Due(listing', 0) = 0 /\ stage' # "delete"
      BY <1>4, <2>1, DueTurns
    <3> QED
      BY <1>1, <1>3, <2>4, <3>1 DEF MovedSoFar
  <2>8. ReportTyped'
    BY <1>1, <2>1 DEF History, ReportTyped
  <2> QED
    BY <2>3, <2>5, <2>6, <2>7, <2>8 DEF History
<1>5. CASE stage' = "failed" /\ UNCHANGED <<listing, todo>>
  <2>1. Taken' = Taken
    BY <1>5 DEF Taken
  <2>2. Coming' /\ Numbered' /\ ReportTyped'
    BY <1>1, <1>2, <1>5, <2>1 DEF History, Coming, Numbered, ReportTyped
  <2>3. SavedSoFar'
    <3>1. 1 .. 0 = {}
      OBVIOUS
    <3> QED
      BY <1>2, <2>1, <3>1 DEF SavedSoFar
  <2>4. MovedSoFar'
    BY <1>1, <1>5, <2>1 DEF History, MovedSoFar
  <2> QED
    BY <2>2, <2>3, <2>4 DEF History
<1> QED
  BY <1>4, <1>5 DEF List

\* A failure, and on to the next entry.
LEMMA FailureTells ==
    ASSUME IInv, History, todo # <<>>, NEW name \in Names, Failed(name), NextEntry,
           UNCHANGED <<listing, delete_after>>, Numbered'
    PROVE  History'
<1>1. ReportTyped' /\ SavedSoFar' /\ report'.bytes = report.bytes
  BY FailureStays
<1>2. Coming' /\ Taken' = Taken + 1 /\ stage' \in {"done", "download"}
  BY GoesOn
<1>3. MovedSoFar'
  <2>1. /\ Due(listing, Taken + 1) = Due(listing, Taken) + Most(listing[Taken + 1])
        /\ Due(listing, Taken) \in Nat /\ Most(listing[Taken + 1]) \in Nat
    BY CurrentEntry
  <2>2. report.bytes <= Due(listing, Taken) \/ report.bytes <= Due(listing, Taken + 1)
    BY DEF History, MovedSoFar
  <2>3. report.bytes \in Nat
    BY Listed
  <2>4. report.bytes <= Due(listing, Taken + 1)
    BY <2>1, <2>2, <2>3
  <2> QED
    BY <1>1, <1>2, <2>4 DEF MovedSoFar
<1> QED
  BY <1>1, <1>2, <1>3 DEF History

\* A download fails, or leaves the entry the current one.
LEMMA DownloadTells == ASSUME IInv, History, Download PROVE History'
<1>1. /\ stage = "download" /\ todo # <<>>
      /\ UNCHANGED <<stored, shots, disk, delete_after, listing>>
  BY DEF Download, camera, IInv, Current
<1>2. Numbered' /\ Head(todo).name \in Names
  BY <1>1, HeadEntry DEF History, Numbered, Entry
<1>3. CASE Failed(Head(todo).name) /\ NextEntry
  BY <1>1, <1>2, <1>3, FailureTells
<1>4. CASE stage' = "write" /\ UNCHANGED <<todo, report>>
  <2>1. Taken' = Taken
    BY <1>1, <1>4 DEF Taken
  <2>2. Coming' /\ ReportTyped' /\ MovedSoFar'
    BY <1>1, <1>4, <2>1 DEF History, Coming, ReportTyped, MovedSoFar
  <2>3. SavedSoFar'
    <3>1. \A i : Saved(i) => Saved(i)'
      BY <1>1 DEF Saved
    <3> QED
      BY <1>1, <1>4, <2>1, <3>1 DEF History, SavedSoFar, Namesakes
  <2> QED
    BY <1>2, <2>2, <2>3 DEF History
<1> QED
  BY <1>3, <1>4 DEF Download

\* A write that went well has the current shot on disk, counted once; it is over
\* no other entry of the listing unless the two are namesakes.
LEMMA WriteTells == ASSUME IInv, History, Write PROVE History'
<1> DEFINE entry == Head(todo)
           base == basename(entry.name)
           k == Taken + 1
<1>1. /\ stage = "write" /\ todo # <<>>
      /\ UNCHANGED <<stored, shots, delete_after, listing>>
  BY DEF Write, camera, IInv, Current
<1>2. /\ entry \in Entry /\ entry.name \in Names /\ base \in Bases
      /\ entry.size_kib = SizeKib[entry.id] /\ entry.id \in Shots
  BY <1>1, HeadEntry DEF Entry
<1>3. Numbered'
  BY <1>1 DEF History, Numbered
<1>4. /\ k \in 1 .. Len(listing) /\ entry = listing[k] /\ Taken \in Nat
      /\ Due(listing, k) = Due(listing, Taken) + Most(entry)
      /\ Due(listing, Taken) \in Nat /\ Most(entry) \in Nat
  BY <1>1, CurrentEntry, Listed
<1>5. CASE Failed(entry.name) /\ NextEntry
  BY <1>1, <1>2, <1>3, <1>5, FailureTells
<1>6. CASE /\ disk' = [disk EXCEPT ![base] = body]
           /\ report' = [report EXCEPT !.bytes = @ + body.len]
           /\ IF delete_after THEN stage' = "delete" /\ UNCHANGED <<todo, body>> ELSE NextEntry
  <2>1. /\ disk \in [Bases -> Copy] /\ body \in Copy /\ body.len \in Nat
        /\ body.id = entry.id /\ download_is_complete(entry.size_kib, body.len)
    BY <1>1 DEF IInv, Types, Current, Copy
  <2>2. disk'[base] = body /\ \A b \in Bases : b # base => disk'[b] = disk[b]
    BY <1>2, <1>6, <2>1
  <2>3. Whole(disk'[base], entry.id)
    <3>1. body.len > Bytes[entry.id] - Kib
      BY <1>2, <2>1, CompleteIsWhole
    <3> QED
      BY <2>1, <2>2, <3>1 DEF Whole
  <2>4. body.len <= Most(entry)
    BY <1>2, <2>1, MostIs
  <2>5. /\ report' \in [bytes : Nat, failures : Seq(Names)]
        /\ report'.bytes = report.bytes + body.len /\ report'.failures = report.failures
    <3>1. report \in [bytes : Nat, failures : Seq(Names)] /\ report.bytes + body.len \in Nat
      BY <2>1, Listed DEF History, ReportTyped
    <3> QED
      BY <1>6, <3>1
  <2>6. ReportTyped'
    BY <1>1, <2>5 DEF History, ReportTyped
  <2>7. report'.bytes <= Due(listing, k)
    <3>1. report.bytes <= Due(listing, Taken) /\ report.bytes \in Nat
      BY <1>1, Listed DEF History, MovedSoFar
    <3> HIDE DEF k, entry
    <3> QED
      BY <1>4, <2>1, <2>4, <2>5, <3>1
  <2>8. ASSUME report'.failures = <<>>, ~ Namesakes', NEW i \in 1 .. Taken PROVE Saved(i)'
    <3>1. ~ Namesakes /\ report.failures = <<>>
      BY <1>1, <2>5, <2>8 DEF Namesakes
    <3>2. Saved(i)
      BY <3>1 DEF History, SavedSoFar
    <3>3. i \in 1 .. Len(listing) /\ i # k /\ DOMAIN listing = 1 .. Len(listing)
      <4>1. listing \in Seq(Entry)
        BY DEF History, ReportTyped
      <4> QED
        BY <1>4, <4>1
    <3>4. basename(listing[i].name) # base
      <4> HIDE DEF k
      <4> QED
        BY <1>4, <3>1, <3>3 DEF Namesakes
    <3>5. basename(listing[i].name) \in Bases
      BY <3>3, Listed
    <3>6. disk'[basename(listing[i].name)] = disk[basename(listing[i].name)]
      BY <2>2, <3>4, <3>5
    <3> QED
      BY <1>1, <3>2, <3>6, SavedStays
  <2>9. CASE delete_after
    <3>1. stage' = "delete" /\ UNCHANGED todo
      BY <1>6, <2>9
    <3>2. Taken' = Taken
      BY <1>1, <3>1 DEF Taken
    <3>3. Coming'
      BY <1>1, <3>1, <3>2 DEF History, Coming
    <3>4. MovedSoFar'
      BY <1>1, <2>7, <3>1, <3>2 DEF MovedSoFar
    <3>5. SavedSoFar'
      BY <2>8, <3>2 DEF SavedSoFar
    <3> QED
      BY <1>3, <2>6, <3>3, <3>4, <3>5 DEF History
  <2>10. CASE ~ delete_after
    <3>1. NextEntry
      BY <1>6, <2>10
    <3>2. Coming' /\ Taken' = k /\ stage' \in {"done", "download"}
      BY <1>1, <3>1, GoesOn
    <3>3. MovedSoFar'
      BY <1>1, <2>7, <3>2 DEF MovedSoFar
    <3>4. ASSUME NEW i, i = k PROVE Saved(i)'
      <4>1. k \in 1 .. Len(listing') /\ Whole(disk'[basename(listing'[i].name)], listing'[i].id)
        BY <1>1, <1>4, <2>3, <3>4
      <4> QED
        BY <1>1, <2>10, <4>1 DEF Saved
    <3>5. \A i \in 1 .. k : i \in 1 .. Taken \/ i = k
      BY <1>4
    <3>6. SavedSoFar'
      BY <2>8, <3>2, <3>4, <3>5 DEF SavedSoFar
    <3> QED
      BY <1>3, <2>6, <3>2, <3>3, <3>6 DEF History
  <2> QED
    BY <2>9, <2>10
<1> QED
  BY <1>5, <1>6 DEF Write

\* A delete that is not reported as a failure has taken the shot off the glasses.
LEMMA DeleteTells == ASSUME IInv, History, Delete PROVE History'
<1> DEFINE entry == Head(todo)
           k == Taken + 1
<1>1. /\ stage = "delete" /\ todo # <<>> /\ NextEntry
      /\ UNCHANGED <<shots, disk, delete_after, listing>>
      /\ stored' \in {stored, [stored EXCEPT ![entry.name] = 0]}
  BY DEF Delete, IInv, Current
<1>2. /\ entry.name \in Names /\ stored[entry.name] = entry.id
      /\ Whole(disk[basename(entry.name)], entry.id)
  BY <1>1, HeadEntry DEF IInv, Current, Entry
<1>3. k \in 1 .. Len(listing) /\ entry = listing[k] /\ Taken \in Nat /\ entry.id \in Nat /\ entry.id # 0
  BY <1>1, CurrentEntry, Listed
<1>4. stored \in [Names -> Shots \cup {0}]
  BY DEF IInv, Types
<1>5. \A n \in Names : stored'[n] = stored[n] \/ stored'[n] = 0
  BY <1>1, <1>4
<1>6. Numbered'
  <2>1. shots \in Nat
    BY Listed
  <2>2. \A n \in Names : stored'[n] <= shots'
    BY <1>1, <1>5, <2>1 DEF History, Numbered
  <2>3. \A m, n \in Names : stored'[m] = stored'[n] /\ stored'[m] # 0 => m = n
    BY <1>5 DEF History, Numbered
  <2>4. \A i \in 1 .. Len(listing') : listing'[i].id <= shots'
    BY <1>1 DEF History, Numbered
  <2> QED
    BY <2>2, <2>3, <2>4 DEF Numbered
<1>7. CASE Failed(entry.name)
  BY <1>1, <1>2, <1>6, <1>7, FailureTells
<1>8. CASE stored' = [stored EXCEPT ![entry.name] = 0] /\ UNCHANGED report
  <2>1. Coming' /\ Taken' = k /\ stage' \in {"done", "download"}
    BY <1>1, GoesOn
  <2>2. ReportTyped'
    BY <1>1, <1>8 DEF History, ReportTyped
  <2>3. MovedSoFar'
    BY <1>1, <1>8, <2>1 DEF History, MovedSoFar
  <2>4. SavedSoFar'
    <3> SUFFICES ASSUME report'.failures = <<>>, ~ Namesakes', NEW i \in 1 .. k PROVE Saved(i)'
      BY <2>1 DEF SavedSoFar
    <3>1. ~ Namesakes /\ report.failures = <<>>
      BY <1>1, <1>8 DEF Namesakes
    <3>2. CASE i = k
      <4>1. \A n \in Names : stored'[n] # entry.id
        <5> SUFFICES ASSUME NEW n \in Names, stored'[n] = entry.id PROVE FALSE
          OBVIOUS
        <5>1. CASE n = entry.name
          <6>1. stored'[n] = 0
            BY <1>2, <1>4, <1>8, <5>1
          <6> QED
            BY <1>3, <6>1
        <5>2. CASE n # entry.name
          <6>1. stored[n] = stored[entry.name] /\ stored[n] # 0
            BY <1>2, <1>3, <1>5
          <6> QED
            BY <1>2, <5>2, <6>1 DEF History, Numbered
        <5> QED
          BY <5>1, <5>2
      <4> HIDE DEF entry, k
      <4>2. Whole(disk'[basename(listing'[i].name)], listing'[i].id)
        BY <1>1, <1>2, <1>3, <3>2
      <4>3. \A n \in Names : stored'[n] # listing'[i].id
        BY <1>1, <1>3, <3>2, <4>1
      <4> QED
        BY <4>2, <4>3 DEF Saved
    <3>3. CASE i \in 1 .. Taken
      <4>1. Saved(i)
        BY <3>1, <3>3 DEF History, SavedSoFar
      <4>2. listing[i].id # 0
        <5>1. i \in 1 .. Len(listing)
          BY <1>3
        <5> QED
          BY <5>1, Listed
      <4>3. \A n \in Names : stored'[n] = listing[i].id => stored[n] = listing[i].id
        BY <1>5, <4>2
      <4> QED
        BY <1>1, <4>1, <4>3, SavedStays
    <3>4. i = k \/ i \in 1 .. Taken
      BY <1>3
    <3> QED
      BY <3>2, <3>3, <3>4
  <2> QED
    BY <1>6, <2>1, <2>2, <2>3, <2>4 DEF History
<1> QED
  BY <1>7, <1>8 DEF Delete

\* Every step keeps it.
LEMMA HistoryGoesOn == IInv /\ History /\ [Next]_vars => History'
<1> SUFFICES ASSUME IInv, History, [Next]_vars PROVE History'
  OBVIOUS
<1>1. CASE UNCHANGED <<camera, disk, sync>>
  <2>1. UNCHANGED <<stored, shots, disk, stage, delete_after, todo, report, listing>>
    BY <1>1 DEF camera, sync
  <2>2. Taken' = Taken
    BY <2>1 DEF Taken
  <2>3. \A i : Saved(i) => Saved(i)'
    BY <2>1 DEF Saved
  <2>4. SavedSoFar'
    BY <2>1, <2>2, <2>3 DEF History, SavedSoFar, Namesakes
  <2>5. ReportTyped' /\ Coming' /\ Numbered' /\ MovedSoFar'
    BY <2>1, <2>2 DEF History, ReportTyped, Coming, Numbered, MovedSoFar
  <2> QED
    BY <2>4, <2>5 DEF History
<1>2. CASE UNCHANGED vars
  BY <1>1, <1>2 DEF vars
<1> QED
  BY <1>1, <1>2, ShootTells, StartTells, ListTells, DownloadTells, WriteTells, DeleteTells
  DEF Next, AccessPoint, SyncStep

\* And with nothing ahead it is the property.
LEMMA SavedAtTheEnd == IInv /\ History => CleanSyncSaved
<1> SUFFICES ASSUME IInv, History, stage = "done", report.failures = <<>>, ~ Namesakes
             PROVE  /\ \A i \in DOMAIN listing :
                          /\ OnDisk(listing[i].id)
                          /\ delete_after => \A n \in Names : stored[n] # listing[i].id
                    /\ report.bytes <= max_download_bytes(for_list(listing, delete_after))
  BY DEF CleanSyncSaved
<1>1. todo = <<>>
  BY DEF History, Coming
<1>2. Len(todo) = 0
  BY <1>1
<1>3. Taken = Len(listing) /\ listing \in Seq(Entry) /\ delete_after \in BOOLEAN
  BY <1>2, Listed DEF History, ReportTyped
<1>4. ASSUME NEW i \in DOMAIN listing
      PROVE  OnDisk(listing[i].id) /\ (delete_after => \A n \in Names : stored[n] # listing[i].id)
  <2>1. i \in 1 .. Len(listing)
    BY <1>3
  <2>2. Saved(i)
    BY <1>3, <2>1 DEF History, SavedSoFar
  <2>3. basename(listing[i].name) \in Bases
    BY <2>1, Listed
  <2> QED
    BY <2>2, <2>3 DEF Saved, OnDisk
<1>5. report.bytes <= Due(listing, Len(listing))
  BY <1>3 DEF History, MovedSoFar
<1>6. max_download_bytes(for_list(listing, delete_after)) = Due(listing, Len(listing))
  BY <1>3, PlanAnnounces
<1> QED
  BY <1>4, <1>5, <1>6

\* A sync that reports no failure has on disk, and off the glasses when it was to
\* delete, every shot of its listing that has a basename of its own, in no more
\* bytes than its plan announced.
THEOREM CleanSyncIsComplete == Spec => []CleanSyncSaved
<1>1. Spec => []IInv
  BY Initially, Inductive, PTL DEF Spec
<1>2. Spec => []History
  BY <1>1, StartHistory, HistoryGoesOn, PTL DEF Spec
<1> QED
  BY <1>1, <1>2, SavedAtTheEnd, PTL
=============================================================================
