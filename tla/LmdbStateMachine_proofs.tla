---------------------- MODULE LmdbStateMachine_proofs ----------------------
(***************************************************************************)
(* Crash recovery and snapshots of LmdbStateMachine, for every log, set of *)
(* commands, number of keys and values, and any number of faults.          *)
(***************************************************************************)
EXTENDS LmdbStateMachine, Commands_proofs

-----------------------------------------------------------------------------
(* Replaying: facts about one image and one position *)

LEMMA LogFacts ==
    ASSUME TypeOK
    PROVE  /\ Len(log) \in Nat
           /\ \A i \in 1 .. Len(log) : /\ log[i] \in Entry
                                       /\ log[i].cmd \in Command
           /\ \A i \in 0 .. Len(log) : hist[i] \in Contents
<1>1. Len(log) \in Nat /\ \A i \in 1 .. Len(log) : log[i] \in Entry
  <2>1. log \in Seq(Entry)
    BY DEF TypeOK
  <2> QED  BY <2>1
<1>2. \A i \in 1 .. Len(log) : log[i].cmd \in Command
  BY <1>1, CmdsAssumption DEF Entry
<1>3. \A i \in 0 .. Len(log) : hist[i] \in Contents
  BY DEF TypeOK
<1> QED  BY <1>1, <1>2, <1>3

(* What can be replayed from a position can be replayed from an earlier one *)
LEMMA ReplayableEarlier ==
    ASSUME TypeOK, HistoryOK,
           NEW image \in Image, NEW i \in Nat, NEW j \in Nat, i <= j, Good(image, j)
    PROVE  Good(image, i)
<1>1. image.upto \in Nat /\ image.upto <= Len(log) /\ j <= image.upto /\ Len(log) \in Nat
  BY LogFacts DEF Good, Replayable, Image
<1>2. ASSUME NEW k \in Keys, ~ image.recas
      PROVE  \/ image.kv[k] = hist[i][k]
             \/ \E n \in i + 1 .. image.upto : k \in Writes(log[n].cmd)
  <2>1. SUFFICES ASSUME \A n \in i + 1 .. image.upto : k \notin Writes(log[n].cmd)
                 PROVE  image.kv[k] = hist[i][k]
    OBVIOUS
  <2>2. image.kv[k] = hist[j][k]
    <3>1. \/ image.kv[k] = hist[j][k]
          \/ \E n \in j + 1 .. image.upto : k \in Writes(log[n].cmd)
      BY <1>2 DEF Good, Replayable
    <3>2. \A n \in j + 1 .. image.upto : n \in i + 1 .. image.upto
      BY <1>1
    <3> QED  BY <3>1, <3>2, <2>1
  <2>3. \A n \in i + 1 .. j : k \notin Writes(log[n].cmd)
    BY <2>1, <1>1
  <2>4. i \in 0 .. Len(log) /\ j \in 0 .. Len(log)
    BY <1>1
  <2>5. hist[i][k] = hist[j][k]
    BY <2>3, <2>4 DEF HistoryOK
  <2> QED  BY <2>2, <2>5
<1> QED  BY <1>1, <1>2 DEF Good, Replayable

(* The state of the log at m can be replayed from any earlier position *)
LEMMA HistoryReplayable ==
    ASSUME TypeOK, HistoryOK, NEW i \in Nat, NEW m \in Nat, i <= m, m <= Len(log)
    PROVE  /\ [kv |-> hist[m], upto |-> m, recas |-> FALSE] \in Image
           /\ Good([kv |-> hist[m], upto |-> m, recas |-> FALSE], i)
<1> DEFINE image == [kv |-> hist[m], upto |-> m, recas |-> FALSE]
<1>1. image \in Image
  BY LogFacts DEF Image
<1>2. Good(image, m)
  BY LogFacts DEF Good, Replayable
<1> QED  BY <1>1, <1>2, ReplayableEarlier

(* Executing the next entry moves the position forward by one *)
LEMMA ExecuteReplayable ==
    ASSUME TypeOK, HistoryOK,
           NEW image \in Image, NEW n \in 1 .. Len(log), Good(image, n - 1)
    PROVE  Execute(image, n) \in Image /\ Good(Execute(image, n), n)
<1> DEFINE cmd == log[n].cmd
           after == Execute(image, n)
<1>1. cmd \in Command /\ hist[n - 1] \in Contents /\ Len(log) \in Nat
  BY LogFacts
<1>2. image.kv \in Contents /\ image.upto \in Nat /\ image.recas \in BOOLEAN
  BY DEF Image
<1>3. ApplyCommand(cmd, image.kv) \in Contents
  BY <1>1, <1>2, ApplyCommandType
<1>4. /\ after.kv = ApplyCommand(cmd, image.kv)
      /\ after.upto = IF n > image.upto THEN n ELSE image.upto
      /\ after.recas = (image.recas \/ (cmd.op = "cas" /\ n <= image.upto))
  BY DEF Execute
<1>5. after \in Image
  BY <1>2, <1>3 DEF Execute, Image
<1>6. /\ n <= after.upto /\ after.upto <= Len(log) /\ image.upto <= after.upto
      /\ n - 1 <= image.upto
  BY <1>1, <1>2, <1>4 DEF Good, Replayable
<1>7. hist[n] = ApplyCommand(cmd, hist[n - 1])
  BY DEF HistoryOK
<1>8. ASSUME NEW k \in Keys, ~ after.recas
      PROVE  \/ after.kv[k] = hist[n][k]
             \/ \E i \in n + 1 .. after.upto : k \in Writes(log[i].cmd)
  <2>1. ~ image.recas /\ (cmd.op # "cas" \/ n > image.upto)
    <3>1. ~ (image.recas \/ (cmd.op = "cas" /\ n <= image.upto))
      BY <1>8, <1>4, Zenon
    <3>2. n \in Nat
      BY <1>1
    <3> QED  BY <3>1, <3>2, <1>2
  <2>2. \A q \in Keys : \/ image.kv[q] = hist[n - 1][q]
                        \/ \E i \in n .. image.upto : q \in Writes(log[i].cmd)
    BY <2>1 DEF Good, Replayable
  <2>3. CASE n > image.upto
    <3>0. \A i \in n .. image.upto : FALSE
      BY <2>3, <1>1, <1>2
    <3>1. \A q \in Keys : image.kv[q] = hist[n - 1][q]
      BY <2>2, <3>0
    <3>2. image.kv = hist[n - 1]
      BY <3>1, <1>1, <1>2 DEF Contents
    <3> QED  BY <3>2, <1>4, <1>7
  <2>4. CASE cmd.op # "cas" /\ k \in Writes(cmd)
    BY <2>4, <1>1, <1>2, <1>4, <1>7, ApplyCommandBlind
  <2>5. CASE k \notin Writes(cmd)
    <3>1. after.kv[k] = image.kv[k] /\ hist[n][k] = hist[n - 1][k]
      BY <2>5, <1>1, <1>2, <1>4, <1>7, ApplyCommandFrame
    <3>2. CASE image.kv[k] = hist[n - 1][k]
      BY <3>1, <3>2
    <3>3. CASE \E i \in n .. image.upto : k \in Writes(log[i].cmd)
      <4>1. PICK i \in n .. image.upto : k \in Writes(log[i].cmd)
        BY <3>3
      <4>2. i # n
        BY <4>1, <2>5
      <4>3. i \in n + 1 .. after.upto
        BY <4>1, <4>2, <1>2, <1>5, <1>6 DEF Image
      <4> QED  BY <4>1, <4>3
    <3> QED  BY <3>2, <3>3, <2>2
  <2> QED  BY <2>1, <2>3, <2>4, <2>5
<1> QED  BY <1>5, <1>6, <1>8 DEF Good, Replayable

(* A new entry of the log changes nothing for what could be replayed before *)
LEMMA CommitKeepsGood ==
    ASSUME TypeOK, NEW cmd \in Cmds, NEW term \in Nat, Commit(cmd, term),
           NEW image \in Image, NEW j \in Nat, Good(image, j)
    PROVE  Good(image, j)'
<1>1. /\ Len(log) \in Nat /\ Len(log') = Len(log) + 1
      /\ \A i \in 1 .. Len(log) : log'[i] = log[i]
      /\ \A i \in 0 .. Len(log) : hist'[i] = hist[i]
  BY DEF TypeOK, Commit
<1>2. image.upto \in Nat /\ image.upto <= Len(log) /\ j <= image.upto
  BY DEF Good, Replayable, Image
<1>3. hist'[j] = hist[j] /\ \A i \in j + 1 .. image.upto : log'[i] = log[i]
  BY <1>1, <1>2
<1> QED  BY <1>1, <1>2, <1>3 DEF Good, Replayable

-----------------------------------------------------------------------------
(* The inductive invariant, action by action *)

LEMMA IdOfType ==
    ASSUME TypeOK, NEW i \in 0 .. Len(log)
    PROVE  IdOf(i) \in LogId /\ IdOf(i).index = i /\ IdOf(IdOf(i).index) = IdOf(i)
BY LogFacts DEF IdOf, NoId, LogId, Entry

(* The idle records have their types *)
LEMMA IdleTypes ==
    /\ NoId \in LogId /\ Blank \in Image /\ NoSnapshot \in Snapshot
    /\ NoApply \in [pc : {"idle", "loop", "committed"}, image : Image, next : Nat, last : Nat]
    /\ NoGen \in [pc : {"idle", "dir", "copied"}, snap : Snapshot]
    /\ NoRestore \in [pc : {"idle", "blocking", "committed"}, snap : Snapshot]
BY DEF NoId, LogId, Blank, Image, Empty, Contents, NoSnapshot, Snapshot, NoApply, NoGen, NoRestore

LEMMA InitInv == Init => IInv
<1> SUFFICES ASSUME Init PROVE IInv
  OBVIOUS
<1>1. Len(log) = 0 /\ log \in Seq(Entry) /\ Empty \in Contents
  BY DEF Init, Empty, Contents
<1>2. TypeOK
  BY <1>1, IdleTypes DEF Init, TypeOK
<1>3. HistoryOK
  BY <1>1 DEF Init, HistoryOK
<1>4. Good(Blank, 0)
  BY <1>1 DEF Init, Good, Replayable, Blank
<1>5. StoreOK
  BY <1>4 DEF Init, StoreOK, NoSnapshot, NoId
<1>6. ApplyOK /\ GenOK /\ RestoreOK /\ MetaBehind
  BY DEF Init, ApplyOK, GenOK, RestoreOK, MetaBehind, NoApply, NoGen, NoRestore
<1>7. IdsOK
  BY <1>1 DEF Init, IdsOK, IdOf, NoSnapshot, NoGen, NoRestore, NoId
<1> QED  BY <1>2, <1>3, <1>5, <1>6, <1>7 DEF IInv

LEMMA CommitInv ==
    ASSUME IInv, NEW cmd \in Cmds, NEW term \in Nat, Commit(cmd, term)
    PROVE  IInv'
<1> USE DEF IInv
<1>1. /\ Len(log) \in Nat /\ Len(log') = Len(log) + 1
      /\ log' \in Seq(Entry)
      /\ \A i \in 1 .. Len(log) : log'[i] = log[i]
      /\ log'[Len(log) + 1].cmd = cmd
      /\ \A i \in 0 .. Len(log) : hist'[i] = hist[i]
      /\ hist'[Len(log) + 1] = ApplyCommand(cmd, hist[Len(log)])
      /\ DOMAIN hist' = 0 .. Len(log) + 1
  BY DEF TypeOK, Commit, Entry
<1>2. cmd \in Command /\ hist[Len(log)] \in Contents
  BY <1>1, CmdsAssumption, LogFacts
<1>3. /\ UNCHANGED <<kv_db, meta, file, up, last_applied, entry_terms, snapshot_meta>>
      /\ UNCHANGED <<faults, panics, running, stopped, apply, gen, restore>>
  BY DEF Commit, bounds, durable, serving, cache
<1>4. TypeOK'
  <2>1. hist' \in [0 .. Len(log') -> Contents]
    <3>1. \A i \in 0 .. Len(log') : hist'[i] \in Contents
      BY <1>1, <1>2, LogFacts, ApplyCommandType
    <3>2. hist' = [i \in 0 .. Len(log) + 1 |-> hist'[i]]
      BY DEF Commit
    <3> QED  BY <3>1, <3>2, <1>1
  <2>2. entry_terms' \subseteq 1 .. Len(log')
    BY <1>1, <1>3 DEF TypeOK
  <2> QED  BY <1>1, <1>3, <2>1, <2>2 DEF TypeOK
<1>5. HistoryOK'
  <2>1. hist'[0] = Empty
    BY <1>1 DEF HistoryOK
  <2>2. \A i \in 1 .. Len(log') : hist'[i] = ApplyCommand(log'[i].cmd, hist'[i - 1])
    <3> SUFFICES ASSUME NEW i \in 1 .. Len(log')
                 PROVE  hist'[i] = ApplyCommand(log'[i].cmd, hist'[i - 1])
      OBVIOUS
    <3>1. CASE i <= Len(log)
      BY <1>1, <3>1 DEF HistoryOK
    <3>2. CASE i = Len(log) + 1
      BY <1>1, <3>2
    <3> QED  BY <1>1, <3>1, <3>2
  <2>3. ASSUME NEW a \in 0 .. Len(log'), NEW b \in 0 .. Len(log'), NEW k \in Keys, a <= b,
               \A i \in a + 1 .. b : k \notin Writes(log'[i].cmd)
        PROVE  hist'[a][k] = hist'[b][k]
    <3>1. CASE b <= Len(log)
      <4>1. \A i \in a + 1 .. b : k \notin Writes(log[i].cmd)
        BY <1>1, <2>3, <3>1
      <4>2. a \in 0 .. Len(log) /\ b \in 0 .. Len(log)
        BY <1>1, <2>3, <3>1
      <4>3. hist[a][k] = hist[b][k]
        BY <2>3, <4>1, <4>2 DEF HistoryOK
      <4> QED  BY <1>1, <4>2, <4>3
    <3>2. CASE a = b
      BY <3>2
    <3>3. CASE b = Len(log) + 1 /\ a <= Len(log)
      <4>1. \A i \in a + 1 .. Len(log) : k \notin Writes(log[i].cmd)
        BY <1>1, <2>3, <3>3
      <4>2. hist[a][k] = hist[Len(log)][k]
        BY <1>1, <2>3, <3>3, <4>1 DEF HistoryOK
      <4>3. k \notin Writes(cmd)
        BY <1>1, <2>3, <3>3
      <4>4. ApplyCommand(cmd, hist[Len(log)])[k] = hist[Len(log)][k]
        BY <1>2, <4>3, ApplyCommandFrame
      <4> QED  BY <1>1, <2>3, <3>3, <4>2, <4>4
    <3> QED  BY <1>1, <2>3, <3>1, <3>2, <3>3
  <2> QED  BY <2>1, <2>2, <2>3 DEF HistoryOK
<1>6. \A image \in Image, j \in Nat : Good(image, j) => Good(image, j)'
  BY CommitKeepsGood
<1>7. /\ kv_db \in Image /\ meta.index \in Nat /\ last_applied.index \in Nat
      /\ file.image \in Image /\ file.id.index \in Nat
      /\ apply.image \in Image /\ apply.next \in Nat /\ apply.last \in Nat
      /\ gen.snap.image \in Image /\ gen.snap.id.index \in Nat
      /\ restore.snap.image \in Image /\ restore.snap.id.index \in Nat
  BY DEF TypeOK, LogId, Snapshot
<1>8. StoreOK'
  BY <1>3, <1>6, <1>7 DEF StoreOK, Good, Replayable
<1>9. ApplyOK'
  <2>1. ASSUME apply.pc = "loop" PROVE Good(apply.image, apply.next - 1)'
    <3>1. apply.next - 1 \in Nat /\ Good(apply.image, apply.next - 1)
      BY <1>7, <2>1 DEF ApplyOK
    <3> QED  BY <1>3, <1>6, <1>7, <3>1 DEF Good, Replayable
  <2>2. ASSUME apply.pc = "committed" PROVE Good(kv_db, apply.last)'
    <3>1. Good(kv_db, apply.last)
      BY <2>2 DEF ApplyOK
    <3> QED  BY <1>3, <1>6, <1>7, <3>1 DEF Good, Replayable
  <2> QED  BY <1>1, <1>3, <1>7, <2>1, <2>2 DEF ApplyOK
<1>10. GenOK' /\ RestoreOK' /\ MetaBehind'
  BY <1>3, <1>6, <1>7 DEF GenOK, RestoreOK, MetaBehind, Good, Replayable
<1>11. IdsOK'
  <2>1. \A id \in LogId : IsLogId(id) => IsLogId(id)'
    BY <1>1 DEF IsLogId, IdOf, LogId
  <2>2. \A id \in {meta, last_applied, snapshot_meta, file.id, gen.snap.id, restore.snap.id} :
            id \in LogId
    BY DEF TypeOK, Snapshot
  <2>3. \A id \in {meta, last_applied, snapshot_meta, file.id, gen.snap.id, restore.snap.id} :
            IsLogId(id)'
    BY <2>1, <2>2 DEF IdsOK
  <2> QED  BY <1>3, <2>3 DEF IdsOK, IsLogId
<1> QED  BY <1>4, <1>5, <1>8, <1>9, <1>10, <1>11

(* While the log stands still, so does everything said about it alone *)
LEMMA LogKept ==
    ASSUME UNCHANGED external
    PROVE  /\ HistoryOK => HistoryOK'
           /\ \A image, j : Good(image, j) => Good(image, j)'
           /\ \A id : IsLogId(id) => IsLogId(id)'
BY DEF external, HistoryOK, Good, Replayable, IsLogId, IdOf

(* The types that the steps below need *)
LEMMA Types ==
    ASSUME TypeOK
    PROVE  /\ Len(log) \in Nat
           /\ kv_db \in Image /\ meta \in LogId /\ meta.index \in Nat
           /\ last_applied \in LogId /\ last_applied.index \in Nat
           /\ file \in Snapshot /\ file.image \in Image /\ file.id \in LogId
           /\ apply.image \in Image /\ apply.next \in Nat /\ apply.last \in Nat
           /\ gen.snap.image \in Image /\ gen.snap.id \in LogId /\ gen.snap.id.index \in Nat
           /\ restore.snap \in Snapshot /\ restore.snap.image \in Image
           /\ restore.snap.id \in LogId /\ restore.snap.id.index \in Nat
<1>1. Len(log) \in Nat
  BY LogFacts
<1> QED  BY <1>1 DEF TypeOK, LogId, Snapshot

(* A part of the invariant is kept by a step that leaves alone what it is about *)
LEMMA Frames ==
    ASSUME IInv, UNCHANGED external
    PROVE  /\ UNCHANGED <<kv_db, meta, file, up, last_applied>> => StoreOK'
           /\ UNCHANGED <<apply, up, restore, last_applied, kv_db>> => ApplyOK'
           /\ UNCHANGED <<gen, up, last_applied>> => GenOK'
           /\ UNCHANGED <<restore, up, last_applied, kv_db, meta>> => RestoreOK'
           /\ UNCHANGED <<up, meta, last_applied, restore>> => MetaBehind'
           /\ UNCHANGED <<meta, last_applied, snapshot_meta, file, gen, restore>> => IdsOK'
<1>1. log' = log /\ hist' = hist
  BY DEF external
<1>2. UNCHANGED <<kv_db, meta, file, up, last_applied>> => StoreOK'
  BY <1>1 DEF IInv, StoreOK, Good, Replayable
<1>3. UNCHANGED <<apply, up, restore, last_applied, kv_db>> => ApplyOK'
  BY <1>1 DEF IInv, ApplyOK, Good, Replayable
<1>4. UNCHANGED <<gen, up, last_applied>> => GenOK'
  BY <1>1 DEF IInv, GenOK, Good, Replayable
<1>5. UNCHANGED <<restore, up, last_applied, kv_db, meta>> => RestoreOK'
  BY <1>1 DEF IInv, RestoreOK, Good, Replayable
<1>6. UNCHANGED <<up, meta, last_applied, restore>> => MetaBehind'
  BY DEF IInv, MetaBehind
<1>7. UNCHANGED <<meta, last_applied, snapshot_meta, file, gen, restore>> => IdsOK'
  BY <1>1 DEF IInv, IdsOK, IsLogId, IdOf
<1> QED  BY <1>2, <1>3, <1>4, <1>5, <1>6, <1>7

(* A log id that is kept, or has become the id of position 0, is a log id *)
LEMMA IdsFrame ==
    ASSUME IInv, UNCHANGED external,
           {meta', last_applied', snapshot_meta', file'.id, gen'.snap.id, restore'.snap.id}
             \subseteq {meta, last_applied, snapshot_meta, file.id, gen.snap.id, restore.snap.id, NoId}
    PROVE  IdsOK'
<1>1. \A id : IsLogId(id) => IsLogId(id)'
  BY LogKept
<1>2. IsLogId(NoId)
  BY Types DEF IInv, IsLogId, IdOf, NoId
<1>3. \A id \in {meta, last_applied, snapshot_meta, file.id, gen.snap.id, restore.snap.id, NoId} :
         IsLogId(id)
  BY <1>2 DEF IInv, IdsOK
<1>4. \A id \in {meta', last_applied', snapshot_meta', file'.id, gen'.snap.id, restore'.snap.id} :
         IsLogId(id)'
  BY <1>1, <1>3
<1> QED  BY <1>4 DEF IdsOK, IsLogId

LEMMA ApplyInv ==
    ASSUME IInv,
           \/ \E last \in 1 .. MaxLog : ApplyBegin(last)
           \/ ApplyEntry \/ ApplyCommit \/ ApplyPublish \/ ApplyError
    PROVE  IInv'
<1> USE DEF IInv
<1>1. UNCHANGED external
  BY DEF ApplyBegin, ApplyEntry, ApplyCommit, ApplyPublish, ApplyError
<1>2. HistoryOK'
  BY <1>1, LogKept
<1>3. /\ \A image, j : Good(image, j) => Good(image, j)'
      /\ log' = log /\ hist' = hist
  BY <1>1, LogKept DEF external
<1>4. CASE \E last \in 1 .. MaxLog : ApplyBegin(last)
  <2>1. PICK last : ApplyBegin(last)
    BY <1>4
  <2>2. /\ UNCHANGED <<kv_db, meta, file, up, last_applied, snapshot_meta, gen, restore>>
        /\ UNCHANGED <<faults, panics, running, stopped, entry_terms>>
        /\ up /\ restore.pc = "idle"
        /\ last \in last_applied.index + 1 .. Len(log)
        /\ apply' = [pc |-> "loop", image |-> kv_db, next |-> last_applied.index + 1, last |-> last]
    BY <2>1 DEF ApplyBegin, Idle, bounds, durable, serving, cache
  <2>3. TypeOK'
    BY <1>3, <2>2, Types DEF TypeOK
  <2>4. Good(kv_db, last_applied.index)
    BY <2>2 DEF StoreOK
  <2>5. ApplyOK'
    <3>1. apply'.image = kv_db /\ apply'.next - 1 = last_applied.index
      BY <2>2, Types
    <3>2. Good(apply.image, apply.next - 1)'
      BY <1>3, <2>4, <3>1 DEF Good, Replayable
    <3> QED  BY <1>3, <2>2, <3>2, Types DEF ApplyOK
  <2>6. StoreOK' /\ GenOK' /\ RestoreOK' /\ MetaBehind' /\ IdsOK'
    BY <1>1, <2>2, Frames
  <2> QED  BY <1>2, <2>3, <2>5, <2>6
<1>5. CASE ApplyEntry
  <2>1. /\ UNCHANGED <<kv_db, meta, file, up, last_applied, snapshot_meta, gen, restore>>
        /\ UNCHANGED <<faults, panics, running, stopped>>
        /\ apply.pc = "loop" /\ apply.next <= apply.last
        /\ apply' = [apply EXCEPT !.image = Execute(apply.image, apply.next), !.next = @ + 1]
        /\ entry_terms' = entry_terms \cup {apply.next}
    BY <1>5 DEF ApplyEntry, bounds, durable, serving
  <2>2. /\ up /\ restore.pc = "idle" /\ apply.last \in 1 .. Len(log)
        /\ apply.next \in last_applied.index + 1 .. apply.last + 1
        /\ Good(apply.image, apply.next - 1)
    BY <2>1 DEF ApplyOK
  <2>3. apply.next \in 1 .. Len(log)
    BY <2>1, <2>2, Types
  <2>4. /\ Execute(apply.image, apply.next) \in Image
        /\ Good(Execute(apply.image, apply.next), apply.next)
    BY <2>2, <2>3, ExecuteReplayable, Types
  <2>5. /\ apply'.pc = "loop" /\ apply'.last = apply.last
        /\ apply'.image = Execute(apply.image, apply.next)
        /\ apply'.next = apply.next + 1 /\ apply'.next - 1 = apply.next
        /\ apply' \in [pc : {"idle", "loop", "committed"}, image : Image, next : Nat, last : Nat]
    <3>1. apply \in [pc : {"idle", "loop", "committed"}, image : Image, next : Nat, last : Nat]
      BY DEF TypeOK
    <3>2. apply' = [pc |-> "loop", image |-> Execute(apply.image, apply.next),
                    next |-> apply.next + 1, last |-> apply.last]
      BY <2>1, <3>1
    <3> QED  BY <2>4, <3>1, <3>2
  <2>6. TypeOK'
    BY <1>3, <2>1, <2>3, <2>5 DEF TypeOK
  <2>7. ApplyOK'
    <3>1. Good(apply.image, apply.next - 1)'
      BY <1>3, <2>4, <2>5 DEF Good, Replayable
    <3>2. /\ up' /\ restore'.pc = "idle" /\ apply'.last \in 1 .. Len(log')
          /\ apply'.pc = "loop"
      BY <1>3, <2>1, <2>2, <2>5
    <3>3. apply'.next \in last_applied'.index + 1 .. apply'.last + 1
      <4>1. /\ apply'.next = apply.next + 1 /\ apply'.last = apply.last
            /\ last_applied'.index = last_applied.index
        BY <2>1, <2>5
      <4>2. /\ last_applied.index \in Nat /\ apply.last \in Nat /\ apply.next \in Nat
            /\ last_applied.index + 1 <= apply.next /\ apply.next <= apply.last
        BY <2>1, <2>2, <2>3, Types
      <4> QED  BY <4>1, <4>2
    <3> QED  BY <3>1, <3>2, <3>3 DEF ApplyOK
  <2>8. StoreOK' /\ GenOK' /\ RestoreOK' /\ MetaBehind' /\ IdsOK'
    BY <1>1, <2>1, Frames
  <2> QED  BY <1>2, <2>6, <2>7, <2>8
<1>6. CASE ApplyCommit
  <2>1. /\ UNCHANGED <<meta, file, up, last_applied, snapshot_meta, gen, restore>>
        /\ UNCHANGED <<faults, panics, running, stopped, entry_terms>>
        /\ apply.pc = "loop" /\ apply.next > apply.last
        /\ kv_db' = apply.image
        /\ apply' = [apply EXCEPT !.pc = "committed"]
    BY <1>6 DEF ApplyCommit, bounds, serving, cache
  <2>2. /\ up /\ restore.pc = "idle" /\ apply.last \in 1 .. Len(log)
        /\ apply.next \in last_applied.index + 1 .. apply.last + 1
        /\ Good(apply.image, apply.next - 1)
    BY <2>1 DEF ApplyOK
  <2>3. apply.next - 1 = apply.last /\ last_applied.index <= apply.last
    <3>1. /\ apply.next \in Nat /\ apply.last \in Nat /\ last_applied.index \in Nat
          /\ apply.next > apply.last /\ apply.next \in last_applied.index + 1 .. apply.last + 1
      BY <2>1, <2>2, Types
    <3> QED  BY <3>1
  <2>4. meta.index <= last_applied.index
    BY <2>2 DEF MetaBehind
  <2>5. /\ Good(apply.image, apply.last)
        /\ Good(apply.image, last_applied.index)
        /\ Good(apply.image, meta.index)
    <3>1. Good(apply.image, apply.last)
      BY <2>2, <2>3
    <3>2. meta.index <= apply.last
      BY <2>3, <2>4, Types
    <3> QED  BY <2>3, <3>1, <3>2, ReplayableEarlier, Types
  <2>6. TypeOK'
    BY <1>3, <2>1, Types DEF TypeOK
  <2>7. StoreOK'
    BY <1>3, <2>1, <2>5 DEF StoreOK, Good, Replayable
  <2>8. ApplyOK'
    <3>1. apply'.pc = "committed" /\ apply'.last = apply.last
      BY <2>1 DEF TypeOK
    <3>2. Good(kv_db, apply.last)'
      BY <1>3, <2>1, <2>5, <3>1 DEF Good, Replayable
    <3> QED  BY <1>3, <2>1, <2>2, <2>3, <3>1, <3>2 DEF ApplyOK
  <2>9. GenOK' /\ RestoreOK' /\ MetaBehind' /\ IdsOK'
    BY <1>3, <2>1, <2>2 DEF GenOK, RestoreOK, MetaBehind, IdsOK, IsLogId, IdOf, Good, Replayable
  <2> QED  BY <1>2, <2>6, <2>7, <2>8, <2>9
<1>7. CASE ApplyPublish
  <2>1. /\ UNCHANGED <<kv_db, meta, file, up, snapshot_meta, gen, restore>>
        /\ UNCHANGED <<faults, panics, running, stopped, entry_terms>>
        /\ apply.pc = "committed"
        /\ last_applied' = IdOf(apply.last)
        /\ apply' = NoApply
    BY <1>7 DEF ApplyPublish, bounds, durable, serving
  <2>2. /\ up /\ restore.pc = "idle" /\ apply.last \in 1 .. Len(log)
        /\ last_applied.index <= apply.last
        /\ Good(kv_db, apply.last)
    BY <2>1 DEF ApplyOK
  <2>3. /\ last_applied' \in LogId /\ last_applied'.index = apply.last
        /\ IsLogId(last_applied)'
    <3>1. apply.last \in 0 .. Len(log)
      BY <2>2, Types
    <3>2. /\ IdOf(apply.last) \in LogId /\ IdOf(apply.last).index = apply.last
          /\ IdOf(IdOf(apply.last).index) = IdOf(apply.last)
      BY <3>1, IdOfType
    <3> QED  BY <1>3, <2>1, <2>2, <3>2 DEF IsLogId, IdOf
  <2>4. TypeOK'
    BY <1>3, <2>1, <2>3, IdleTypes DEF TypeOK
  <2>5. StoreOK'
    BY <1>3, <2>1, <2>2, <2>3 DEF StoreOK, Good, Replayable
  <2>6. ApplyOK'
    BY <2>1 DEF ApplyOK, NoApply
  <2>7. GenOK'
    BY <1>3, <2>1, <2>2, <2>3, Types DEF GenOK, Good, Replayable
  <2>8. RestoreOK' /\ MetaBehind'
    BY <1>3, <2>1, <2>2, <2>3, Types DEF RestoreOK, MetaBehind
  <2>9. IdsOK'
    BY <1>3, <2>1, <2>3 DEF IdsOK, IsLogId, IdOf
  <2> QED  BY <1>2, <2>4, <2>5, <2>6, <2>7, <2>8, <2>9
<1>8. CASE ApplyError
  <2>1. /\ UNCHANGED <<kv_db, meta, file, up, last_applied, snapshot_meta, gen, restore>>
        /\ UNCHANGED <<panics, running, stopped, entry_terms>>
        /\ faults' = faults + 1
        /\ apply' = NoApply
    BY <1>8 DEF ApplyError, Fault, durable, serving, cache
  <2>2. TypeOK'
    BY <1>3, <2>1, IdleTypes DEF TypeOK
  <2>3. ApplyOK'
    BY <2>1 DEF ApplyOK, NoApply
  <2>4. StoreOK' /\ GenOK' /\ RestoreOK' /\ MetaBehind' /\ IdsOK'
    BY <1>1, <2>1, Frames
  <2> QED  BY <1>2, <2>2, <2>3, <2>4
<1> QED  BY <1>4, <1>5, <1>6, <1>7, <1>8

LEMMA GenInv ==
    ASSUME IInv,
           (\E i \in 1 .. MaxLog : GenBegin(i)) \/ GenCopy \/ GenFinish \/ GenError
    PROVE  IInv'
<1> USE DEF IInv
<1>1. UNCHANGED external
  BY DEF GenBegin, GenCopy, GenFinish, GenError
<1>2. HistoryOK'
  BY <1>1, LogKept
<1>3. log' = log /\ hist' = hist
  BY <1>1 DEF external
<1>4. CASE \E i \in 1 .. MaxLog : GenBegin(i)
  <2>1. PICK i : GenBegin(i)
    BY <1>4
  <2>2. /\ UNCHANGED <<kv_db, meta, file, up, last_applied, snapshot_meta, apply, restore>>
        /\ UNCHANGED <<faults, panics, running, stopped, entry_terms>>
        /\ up /\ i \in 1 .. last_applied.index
        /\ gen' = [pc |-> "dir", snap |-> [id |-> IdOf(i), image |-> Blank]]
    BY <2>1 DEF GenBegin, bounds, durable, serving, cache
  <2>3. /\ IdOf(i) \in LogId /\ IdOf(i).index = i /\ i <= last_applied.index
        /\ IsLogId(IdOf(i))
    <3>1. last_applied.index <= Len(log)
      BY DEF IdsOK, IsLogId
    <3>2. i \in 0 .. Len(log) /\ i <= last_applied.index /\ i <= Len(log)
      BY <2>2, <3>1, Types
    <3> QED  BY <3>2, IdOfType DEF IsLogId
  <2>4. TypeOK'
    BY <1>3, <2>2, <2>3, IdleTypes DEF TypeOK, Snapshot
  <2>5. GenOK'
    BY <2>2, <2>3 DEF GenOK
  <2>6. IdsOK'
    BY <1>3, <2>2, <2>3 DEF IdsOK, IsLogId, IdOf
  <2>7. StoreOK' /\ ApplyOK' /\ RestoreOK' /\ MetaBehind'
    BY <1>1, <2>2, Frames
  <2> QED  BY <1>2, <2>4, <2>5, <2>6, <2>7
<1>5. CASE GenCopy
  <2>1. /\ UNCHANGED <<kv_db, meta, file, up, last_applied, snapshot_meta, apply, restore>>
        /\ UNCHANGED <<faults, panics, running, stopped, entry_terms>>
        /\ gen.pc = "dir"
    BY <1>5 DEF GenCopy, bounds, durable, serving, cache
  <2>2. gen' = [pc |-> "copied", snap |-> [id |-> gen.snap.id, image |-> kv_db]]
    <3>1. gen \in [pc : {"idle", "dir", "copied"}, snap : Snapshot]
      BY DEF TypeOK
    <3>2. gen' = [gen EXCEPT !.pc = "copied", !.snap.image = kv_db]
      BY <1>5 DEF GenCopy
    <3> QED  BY <3>1, <3>2 DEF Snapshot
  <2>3. up /\ Good(kv_db, gen.snap.id.index)
    <3>1. up /\ gen.snap.id.index <= last_applied.index
      BY <2>1 DEF GenOK
    <3>2. Good(kv_db, last_applied.index)
      BY <3>1 DEF StoreOK
    <3> QED  BY <3>1, <3>2, ReplayableEarlier, Types
  <2>4. TypeOK'
    BY <1>3, <2>1, <2>2, Types DEF TypeOK, Snapshot
  <2>5. GenOK'
    BY <1>3, <2>1, <2>2, <2>3 DEF GenOK, Good, Replayable
  <2>6. IdsOK'
    BY <1>3, <2>1, <2>2 DEF IdsOK, IsLogId, IdOf
  <2>7. StoreOK' /\ ApplyOK' /\ RestoreOK' /\ MetaBehind'
    BY <1>1, <2>1, Frames
  <2> QED  BY <1>2, <2>4, <2>5, <2>6, <2>7
<1>6. CASE GenFinish
  <2>1. /\ UNCHANGED <<kv_db, meta, up, last_applied, apply, restore>>
        /\ UNCHANGED <<faults, panics, running, stopped, entry_terms>>
        /\ gen.pc = "copied"
        /\ file' = gen.snap /\ snapshot_meta' = gen.snap.id
        /\ gen' = NoGen
    BY <1>6 DEF GenFinish, bounds, serving
  <2>2. Good(gen.snap.image, gen.snap.id.index)
    BY <2>1 DEF GenOK
  <2>3. TypeOK'
    BY <1>3, <2>1, Types, IdleTypes DEF TypeOK
  <2>4. StoreOK'
    BY <1>3, <2>1, <2>2 DEF StoreOK, Good, Replayable
  <2>5. GenOK'
    BY <2>1 DEF GenOK, NoGen
  <2>6. IdsOK'
    BY <1>1, <2>1, IdsFrame DEF NoGen, NoSnapshot
  <2>7. ApplyOK' /\ RestoreOK' /\ MetaBehind'
    BY <1>1, <2>1, Frames
  <2> QED  BY <1>2, <2>3, <2>4, <2>5, <2>6, <2>7
<1>7. CASE GenError
  <2>1. /\ UNCHANGED <<kv_db, meta, file, up, last_applied, snapshot_meta, apply, restore>>
        /\ UNCHANGED <<panics, running, stopped, entry_terms>>
        /\ faults' = faults + 1
        /\ gen' = NoGen
    BY <1>7 DEF GenError, Fault, durable, serving, cache
  <2>2. TypeOK'
    BY <1>3, <2>1, IdleTypes DEF TypeOK
  <2>3. GenOK'
    BY <2>1 DEF GenOK, NoGen
  <2>4. IdsOK'
    BY <1>1, <2>1, IdsFrame DEF NoGen, NoSnapshot
  <2>5. StoreOK' /\ ApplyOK' /\ RestoreOK' /\ MetaBehind'
    BY <1>1, <2>1, Frames
  <2> QED  BY <1>2, <2>2, <2>3, <2>4, <2>5
<1> QED  BY <1>4, <1>5, <1>6, <1>7

LEMMA RestoreInv ==
    ASSUME IInv,
           \/ \E snap \in PeerSnapshots : RestoreBegin(snap)
           \/ RestoreCommit \/ RestoreFinish \/ RestoreError \/ RestorePanic
    PROVE  IInv'
<1> USE DEF IInv
<1>1. UNCHANGED external
  BY DEF RestoreBegin, RestoreCommit, RestoreFinish, RestoreError, RestorePanic
<1>2. HistoryOK'
  BY <1>1, LogKept
<1>3. log' = log /\ hist' = hist
  BY <1>1 DEF external
<1>4. CASE \E snap \in PeerSnapshots : RestoreBegin(snap)
  <2>1. PICK snap \in PeerSnapshots : RestoreBegin(snap)
    BY <1>4
  <2>2. /\ UNCHANGED <<kv_db, meta, file, up, last_applied, snapshot_meta, apply, gen>>
        /\ UNCHANGED <<faults, panics, stopped, entry_terms>>
        /\ running' = FALSE
        /\ up /\ apply.pc = "idle" /\ restore.pc = "idle"
        /\ last_applied.index < snap.id.index
        /\ restore' = [pc |-> "blocking", snap |-> snap]
    BY <2>1, Types DEF RestoreBegin, Idle, bounds, durable, cache, LogId
  <2>3. snap \in Snapshot /\ Good(snap.image, snap.id.index) /\ IsLogId(snap.id)
    <3>1. CASE snap = file
      BY <3>1, Types DEF StoreOK, IdsOK
    <3>2. CASE \E i \in 1 .. Len(log) : \E m \in i .. Len(log) : snap = SnapshotAt(i, m)
      <4>0. PICK i \in 1 .. Len(log) : \E m \in i .. Len(log) : snap = SnapshotAt(i, m)
        BY <3>2
      <4>1. PICK m \in i .. Len(log) : snap = SnapshotAt(i, m)
        BY <4>0
      <4>2. i \in Nat /\ m \in Nat /\ i <= m /\ m <= Len(log) /\ i \in 0 .. Len(log) /\ i <= Len(log)
        BY Types
      <4>3. /\ IdOf(i) \in LogId /\ IdOf(i).index = i /\ IsLogId(IdOf(i))
        BY <4>2, IdOfType DEF IsLogId
      <4>4. /\ [kv |-> hist[m], upto |-> m, recas |-> FALSE] \in Image
            /\ Good([kv |-> hist[m], upto |-> m, recas |-> FALSE], i)
        BY <4>2, HistoryReplayable
      <4>5. /\ snap.id = IdOf(i)
            /\ snap.image = [kv |-> hist[m], upto |-> m, recas |-> FALSE]
            /\ snap = [id |-> IdOf(i), image |-> [kv |-> hist[m], upto |-> m, recas |-> FALSE]]
        BY <4>1 DEF SnapshotAt
      <4>6. snap \in Snapshot
        BY <4>3, <4>4, <4>5 DEF Snapshot
      <4> QED  BY <4>3, <4>4, <4>5, <4>6
    <3> QED  BY <2>1, <3>1, <3>2 DEF PeerSnapshots
  <2>4. TypeOK'
    BY <1>3, <2>2, <2>3 DEF TypeOK
  <2>5. RestoreOK'
    BY <1>3, <2>2, <2>3 DEF RestoreOK, Good, Replayable
  <2>6. IdsOK'
    BY <1>3, <2>2, <2>3 DEF IdsOK, IsLogId, IdOf
  <2>7. MetaBehind'
    BY <2>2 DEF MetaBehind
  <2>8. StoreOK' /\ ApplyOK' /\ GenOK'
    BY <1>3, <2>2 DEF StoreOK, ApplyOK, GenOK, Good, Replayable
  <2> QED  BY <1>2, <2>4, <2>5, <2>6, <2>7, <2>8
<1>5. CASE RestoreCommit
  <2>1. /\ UNCHANGED <<file, up, last_applied, snapshot_meta, apply, gen>>
        /\ UNCHANGED <<faults, panics, running, stopped, entry_terms>>
        /\ restore.pc = "blocking"
        /\ kv_db' = restore.snap.image /\ meta' = restore.snap.id
        /\ restore' = [restore EXCEPT !.pc = "committed"]
    BY <1>5 DEF RestoreCommit, bounds, serving, cache
  <2>2. /\ up /\ apply.pc = "idle"
        /\ last_applied.index < restore.snap.id.index
        /\ Good(restore.snap.image, restore.snap.id.index)
    BY <2>1 DEF RestoreOK, ApplyOK
  <2>3. Good(restore.snap.image, last_applied.index)
    <3>1. last_applied.index <= restore.snap.id.index
      BY <2>2, Types
    <3> QED  BY <2>2, <3>1, ReplayableEarlier, Types
  <2>4. restore' = [pc |-> "committed", snap |-> restore.snap]
    BY <2>1 DEF TypeOK
  <2>5. TypeOK'
    BY <1>3, <2>1, <2>4, Types DEF TypeOK
  <2>6. StoreOK'
    BY <1>3, <2>1, <2>2, <2>3 DEF StoreOK, Good, Replayable
  <2>7. ApplyOK' /\ GenOK'
    BY <1>3, <2>1, <2>2 DEF ApplyOK, GenOK, Good, Replayable
  <2>8. RestoreOK' /\ MetaBehind'
    BY <1>3, <2>1, <2>2, <2>4 DEF RestoreOK, MetaBehind, Good, Replayable
  <2>9. IdsOK'
    BY <1>3, <2>1, <2>4 DEF IdsOK, IsLogId, IdOf
  <2> QED  BY <1>2, <2>5, <2>6, <2>7, <2>8, <2>9
<1>6. CASE RestoreFinish
  <2>1. /\ UNCHANGED <<kv_db, meta, file, up, apply, gen>>
        /\ UNCHANGED <<faults, panics, stopped>>
        /\ restore.pc = "committed"
        /\ last_applied' = restore.snap.id /\ snapshot_meta' = restore.snap.id
        /\ entry_terms' = {} /\ running' = TRUE
        /\ restore' = NoRestore
    BY <1>6 DEF RestoreFinish, bounds, durable
  <2>2. /\ up /\ apply.pc = "idle"
        /\ last_applied.index < restore.snap.id.index
        /\ Good(restore.snap.image, restore.snap.id.index)
        /\ kv_db = restore.snap.image /\ meta = restore.snap.id
    BY <2>1 DEF RestoreOK, ApplyOK
  <2>3. TypeOK'
    BY <1>3, <2>1, Types, IdleTypes DEF TypeOK
  <2>4. StoreOK'
    BY <1>3, <2>1, <2>2 DEF StoreOK, Good, Replayable
  <2>5. ApplyOK'
    BY <1>3, <2>1, <2>2 DEF ApplyOK
  <2>6. GenOK'
    BY <1>3, <2>1, <2>2, Types DEF GenOK, Good, Replayable
  <2>7. RestoreOK' /\ MetaBehind'
    BY <2>1, <2>2, Types DEF RestoreOK, MetaBehind, NoRestore
  <2>8. IdsOK'
    BY <1>1, <2>1, IdsFrame DEF NoRestore, NoSnapshot
  <2> QED  BY <1>2, <2>3, <2>4, <2>5, <2>6, <2>7, <2>8
<1>7. CASE RestoreError \/ RestorePanic
  <2>1. /\ UNCHANGED <<kv_db, meta, file, up, last_applied, snapshot_meta, apply, gen>>
        /\ UNCHANGED <<stopped, entry_terms>>
        /\ restore.pc = "blocking"
        /\ running' \in BOOLEAN /\ faults' \in Nat /\ panics' \in Nat
        /\ restore' = NoRestore
    <3>1. CASE RestoreError
      BY <3>1 DEF RestoreError, Fault, durable, serving, cache, TypeOK
    <3>2. CASE RestorePanic
      BY <3>2 DEF RestorePanic, durable, serving, cache, TypeOK
    <3> QED  BY <1>7, <3>1, <3>2
  <2>2. TypeOK'
    BY <1>3, <2>1, IdleTypes DEF TypeOK
  <2>3. RestoreOK' /\ MetaBehind'
    BY <2>1 DEF RestoreOK, MetaBehind, NoRestore
  <2>4. IdsOK'
    BY <1>1, <2>1, IdsFrame DEF NoRestore, NoSnapshot
  <2>5. ApplyOK'
    BY <1>3, <2>1 DEF ApplyOK
  <2>6. StoreOK' /\ GenOK'
    BY <1>1, <2>1, Frames
  <2> QED  BY <1>2, <2>2, <2>3, <2>4, <2>5, <2>6
<1> QED  BY <1>4, <1>5, <1>6, <1>7

(* Whatever was in progress, the durable state alone carries the invariant *)
LEMMA GoneInv ==
    ASSUME IInv, UNCHANGED <<external, kv_db, file>>, Gone,
           faults' \in Nat, panics' \in Nat,
           meta' \in LogId, IsLogId(meta'), Good(kv_db, meta'.index)
    PROVE  IInv'
<1> USE DEF IInv
<1>1. HistoryOK'
  BY LogKept
<1>2. log' = log /\ hist' = hist /\ kv_db' = kv_db /\ file' = file
  BY DEF external
<1>3. TypeOK'
  BY <1>2, IdleTypes DEF Gone, TypeOK
<1>4. StoreOK'
  BY <1>2 DEF Gone, StoreOK, Good, Replayable
<1>5. ApplyOK' /\ GenOK' /\ RestoreOK' /\ MetaBehind'
  BY DEF Gone, ApplyOK, GenOK, RestoreOK, MetaBehind, NoApply, NoGen, NoRestore
<1>6. IdsOK'
  BY <1>2, Types DEF Gone, IdsOK, IsLogId, IdOf, NoGen, NoRestore, NoSnapshot, NoId
<1> QED  BY <1>1, <1>3, <1>4, <1>5, <1>6

LEMMA LifecycleInv ==
    ASSUME IInv,
           New \/ (\E i \in 0 .. MaxLog : PersistLastApplied(i)) \/ Start \/ Stop \/ Reset \/ Drop \/ Crash
    PROVE  IInv'
<1> USE DEF IInv
<1>1. UNCHANGED external
  BY DEF New, PersistLastApplied, Start, Stop, Reset, Drop, Crash
<1>2. HistoryOK'
  BY <1>1, LogKept
<1>3. log' = log /\ hist' = hist
  BY <1>1 DEF external
<1>4. CASE New
  <2>1. /\ UNCHANGED <<kv_db, meta, file, apply, gen, restore, faults, panics>>
        /\ ~ up /\ up' = TRUE /\ running' = TRUE /\ stopped' = FALSE
        /\ last_applied' = meta /\ entry_terms' = {} /\ snapshot_meta' = NoId
    BY <1>4 DEF New, bounds, durable
  <2>2. apply.pc = "idle" /\ gen.pc = "idle" /\ restore.pc = "idle"
    BY <2>1 DEF ApplyOK, GenOK, RestoreOK, TypeOK
  <2>3. TypeOK'
    BY <1>3, <2>1, IdleTypes DEF TypeOK
  <2>4. StoreOK'
    BY <1>3, <2>1 DEF StoreOK, Good, Replayable
  <2>5. ApplyOK' /\ GenOK' /\ RestoreOK' /\ MetaBehind'
    BY <2>1, <2>2, Types DEF ApplyOK, GenOK, RestoreOK, MetaBehind
  <2>6. IdsOK'
    BY <1>1, <2>1, IdsFrame
  <2> QED  BY <1>2, <2>3, <2>4, <2>5, <2>6
<1>5. CASE \E i \in 0 .. MaxLog : PersistLastApplied(i)
  <2>1. PICK i \in 0 .. MaxLog : PersistLastApplied(i)
    BY <1>5
  <2>2. /\ UNCHANGED <<kv_db, file, up, snapshot_meta, apply, gen, restore>>
        /\ UNCHANGED <<faults, panics, running, stopped, entry_terms>>
        /\ up /\ apply.pc = "idle" /\ restore.pc = "idle"
        /\ i \in 0 .. last_applied.index
        /\ gen.pc # "idle" => gen.snap.id.index <= i
        /\ meta' = IdOf(i) /\ last_applied' = IdOf(i)
    BY <2>1 DEF PersistLastApplied, MayPersist, Idle, bounds, serving
  <2>3. i \in Nat /\ i <= last_applied.index /\ i <= Len(log)
    BY <2>2, Types DEF IdsOK, IsLogId
  <2>4. IdOf(i) \in LogId /\ IdOf(i).index = i
    BY <2>3, Types, IdOfType
  <2>5. Good(kv_db, i)
    BY <2>2, <2>3, Types, ReplayableEarlier DEF StoreOK
  <2>6. TypeOK'
    BY <1>3, <2>2, <2>4 DEF TypeOK
  <2>7. StoreOK'
    BY <1>3, <2>2, <2>4, <2>5 DEF StoreOK, Good, Replayable
  <2>8. ApplyOK' /\ GenOK' /\ RestoreOK'
    BY <1>3, <2>2, <2>4 DEF ApplyOK, GenOK, RestoreOK, Good, Replayable
  <2>9. MetaBehind'
    BY <2>2, <2>3, <2>4 DEF MetaBehind
  <2>10. IdsOK'
    BY <1>3, <2>2, <2>3, <2>4 DEF IdsOK, IsLogId, IdOf
  <2> QED  BY <1>2, <2>6, <2>7, <2>8, <2>9, <2>10
<1>6. CASE Start \/ Stop
  <2>1. /\ UNCHANGED <<kv_db, meta, file, up, last_applied, snapshot_meta, apply, gen, restore>>
        /\ UNCHANGED <<panics, entry_terms>>
        /\ faults' \in Nat /\ running' \in BOOLEAN /\ stopped' \in BOOLEAN
    <3>1. CASE Start
      BY <3>1 DEF Start, bounds, durable, cache, TypeOK
    <3>2. CASE Stop
      <4>1. /\ UNCHANGED <<kv_db, meta, file, up, last_applied, snapshot_meta, apply, gen, restore>>
            /\ UNCHANGED <<panics, entry_terms>>
            /\ faults' = faults + 1 /\ running' = FALSE /\ stopped' = TRUE
        BY <3>2 DEF Stop, Fault, durable, cache
      <4>2. faults \in Nat
        BY DEF TypeOK
      <4>3. faults' \in Nat
        BY <4>1, <4>2
      <4> QED  BY <4>1, <4>3, Zenon
    <3> QED  BY <1>6, <3>1, <3>2
  <2>2. TypeOK'
    BY <1>3, <2>1 DEF TypeOK
  <2>3. StoreOK' /\ ApplyOK' /\ GenOK' /\ RestoreOK' /\ MetaBehind' /\ IdsOK'
    BY <1>1, <2>1, Frames
  <2> QED  BY <1>2, <2>2, <2>3
<1>7. CASE Reset
  <2>1. /\ UNCHANGED <<file, up, running, stopped, apply, gen, restore, panics>>
        /\ faults' = faults + 1
        /\ up /\ apply.pc = "idle" /\ restore.pc = "idle" /\ gen.pc = "idle"
        /\ kv_db' = Blank /\ meta' = NoId
        /\ last_applied' = NoId /\ snapshot_meta' = NoId /\ entry_terms' = {}
    BY <1>7 DEF Reset, Idle, Fault, serving
  <2>2. Good(Blank, 0)
    BY Types DEF Good, Replayable, Blank, HistoryOK
  <2>3. TypeOK'
    BY <1>3, <2>1, IdleTypes DEF TypeOK
  <2>4. StoreOK'
    BY <1>3, <2>1, <2>2 DEF StoreOK, Good, Replayable, NoId
  <2>5. ApplyOK' /\ GenOK' /\ RestoreOK' /\ MetaBehind'
    BY <2>1 DEF ApplyOK, GenOK, RestoreOK, MetaBehind, NoId
  <2>6. IdsOK'
    BY <1>1, <2>1, IdsFrame
  <2> QED  BY <1>2, <2>3, <2>4, <2>5, <2>6
<1>8. CASE Drop
  <2>1. /\ UNCHANGED <<external, kv_db, file, panics>> /\ Gone
        /\ faults' = faults + 1
        /\ up /\ meta' \in {last_applied, meta}
    BY <1>8 DEF Drop, Idle, Fault
  <2>2. faults' \in Nat /\ panics' \in Nat
    BY <2>1 DEF TypeOK
  <2>3. meta' \in LogId /\ IsLogId(meta') /\ Good(kv_db, meta'.index)
    BY <2>1, Types DEF IdsOK, StoreOK
  <2> QED  BY <2>1, <2>2, <2>3, GoneInv
<1>9. CASE Crash
  <2>1. /\ UNCHANGED <<external, kv_db, file, panics>> /\ Gone
        /\ faults' = faults + 1 /\ meta' = meta
    BY <1>9 DEF Crash, Fault, durable
  <2>2. faults' \in Nat /\ panics' \in Nat
    BY <2>1 DEF TypeOK
  <2>3. meta' \in LogId /\ IsLogId(meta') /\ Good(kv_db, meta'.index)
    BY <2>1, Types DEF IdsOK, StoreOK
  <2> QED  BY <2>1, <2>2, <2>3, GoneInv
<1> QED  BY <1>4, <1>5, <1>6, <1>7, <1>8, <1>9

LEMMA NextInv == IInv /\ [Next]_vars => IInv'
<1> SUFFICES ASSUME IInv, [Next]_vars PROVE IInv'
  OBVIOUS
<1>1. CASE \E cmd \in Cmds, term \in 1 .. MaxTerm : Commit(cmd, term)
  <2>1. \A term \in 1 .. MaxTerm : term \in Nat
    BY BoundsAssumption
  <2> QED  BY <1>1, <2>1, CommitInv
<1>2. CASE Apply \/ ApplyError
  BY <1>2, ApplyInv DEF Apply
<1>3. CASE (\E i \in 1 .. MaxLog : GenBegin(i)) \/ Generate \/ GenError
  BY <1>3, GenInv DEF Generate
<1>4. CASE (\E snap \in PeerSnapshots : RestoreBegin(snap)) \/ Restore \/ RestoreError \/ RestorePanic
  BY <1>4, RestoreInv DEF Restore
<1>5. CASE \/ New \/ (\E i \in 0 .. MaxLog : PersistLastApplied(i))
           \/ Start \/ Stop \/ Reset \/ Drop \/ Crash
  BY <1>5, LifecycleInv
<1>6. CASE UNCHANGED vars
  <2>1. TypeOK'
    BY <1>6 DEF vars, IInv, TypeOK
  <2>2. HistoryOK'
    BY <1>6 DEF vars, IInv, HistoryOK
  <2>3. StoreOK'
    BY <1>6 DEF vars, IInv, StoreOK, Good, Replayable
  <2>4. ApplyOK' /\ MetaBehind'
    BY <1>6 DEF vars, IInv, ApplyOK, MetaBehind, Good, Replayable
  <2>5. GenOK' /\ RestoreOK'
    BY <1>6 DEF vars, IInv, GenOK, RestoreOK, Good, Replayable
  <2>6. IdsOK'
    BY <1>6 DEF vars, IInv, IdsOK, IsLogId, IdOf
  <2> QED  BY <2>1, <2>2, <2>3, <2>4, <2>5, <2>6 DEF IInv
<1> QED  BY <1>1, <1>2, <1>3, <1>4, <1>5, <1>6 DEF Next

-----------------------------------------------------------------------------
(* The inductive invariant holds in every reachable state *)
THEOREM Invariance == Spec => []IInv
<1>1. Init => IInv
  BY InitInv
<1>2. IInv /\ [Next]_vars => IInv'
  BY NextInv
<1> QED  BY <1>1, <1>2, PTL DEF Spec

(* Type correctness: among others, the term cache of apply_chunk only ever *)
(* holds indexes of the log, and no log id outgrows its type.              *)
THEOREM TypeCorrect == Spec => []TypeOK
<1>1. IInv => TypeOK
  BY DEF IInv
<1> QED  BY <1>1, Invariance, PTL

(* Crash recovery: at every instant, replaying the log after the persisted *)
(* last_applied repairs the kv database, although apply_chunk commits its  *)
(* entries without persisting last_applied.                                *)
THEOREM RecoveryCorrect == Spec => []RecoverySound
<1>1. IInv => RecoverySound
  BY DEF IInv, StoreOK, Good, RecoverySound
<1> QED  BY <1>1, Invariance, PTL

(* A snapshot can be installed and replayed from its last_included although *)
(* generate_snapshot_data copies a later state of the database.            *)
THEOREM SnapshotCorrect == Spec => []SnapshotSound
<1>1. IInv => SnapshotSound
  BY DEF IInv, StoreOK, Good, SnapshotSound
<1> QED  BY <1>1, Invariance, PTL

(* A replica that caught up with its store and never executed a            *)
(* compare-and-swap twice holds exactly the state of its log prefix.       *)
THEOREM ReplicaConverges == Spec => []Converged
<1>1. IInv => Converged
  <2> SUFFICES ASSUME IInv, Idle, last_applied.index = kv_db.upto, ~ kv_db.recas
               PROVE  kv_db.kv = hist[last_applied.index]
    BY DEF Converged
  <2>1. /\ TypeOK /\ Good(kv_db, last_applied.index)
        /\ kv_db \in Image /\ last_applied.index \in Nat /\ Len(log) \in Nat
    BY Types DEF IInv, StoreOK, Idle
  <2>2. last_applied.index \in 0 .. Len(log)
    BY <2>1 DEF Good
  <2>3. kv_db.kv \in Contents /\ hist[last_applied.index] \in Contents
    BY <2>1, <2>2, LogFacts DEF Image
  <2>4. \A i \in last_applied.index + 1 .. kv_db.upto : FALSE
    BY <2>1
  <2>5. \A k \in Keys : kv_db.kv[k] = hist[last_applied.index][k]
    BY <2>1, <2>4 DEF Good, Replayable
  <2> QED  BY <2>3, <2>5 DEF Contents
<1> QED  BY <1>1, Invariance, PTL

(* The applied position goes back in memory and on disk at once or not at  *)
(* all: by reset, which empties the store, or by persist_last_applied with *)
(* a log id read earlier, which leaves the store as it is.                 *)
THEOREM GoesBackTogether == Spec => BackOnlyTogether
<1> DEFINE Back == \/ up /\ up' /\ last_applied'.index < last_applied.index
                   \/ meta'.index < meta.index
           Together == /\ last_applied' = meta'
                       /\ kv_db' = kv_db \/ (meta' = NoId /\ kv_db' = Blank)
<1>1. IInv /\ [Next]_vars => [Back => Together]_vars
  <2> SUFFICES ASSUME IInv, Next, Back PROVE Together
    OBVIOUS
  <2>1. TypeOK /\ last_applied.index \in Nat /\ meta.index \in Nat
    BY Types DEF IInv
  <2>2. ~ UNCHANGED <<last_applied, meta>>
    BY <2>1
  <2>3. CASE New \/ Crash
    BY <2>1, <2>3 DEF New, Crash, Gone, durable
  <2>4. CASE Drop
    <3>1. up /\ restore.pc = "idle" /\ meta' \in {last_applied, meta} /\ ~ up'
      BY <2>4 DEF Drop, Idle, Gone
    <3>2. meta.index <= last_applied.index
      BY <3>1 DEF IInv, MetaBehind
    <3> QED  BY <2>1, <3>1, <3>2
  <2>5. CASE ApplyPublish
    <3>1. /\ last_applied' = IdOf(apply.last) /\ last_applied.index <= apply.last
          /\ apply.last \in 1 .. Len(log) /\ meta' = meta
      BY <2>5 DEF ApplyPublish, IInv, ApplyOK, durable
    <3>2. last_applied'.index = apply.last /\ apply.last \in Nat
      BY <3>1, <2>1, Types, IdOfType
    <3> QED  BY <2>1, <3>1, <3>2
  <2>6. CASE RestoreCommit
    <3>1. /\ up /\ restore.pc = "blocking" /\ meta' = restore.snap.id /\ last_applied' = last_applied
          /\ last_applied.index < restore.snap.id.index
      BY <2>6 DEF RestoreCommit, cache, IInv, RestoreOK
    <3>2. meta.index <= last_applied.index /\ restore.snap.id.index \in Nat
      BY <2>1, <3>1, Types DEF IInv, MetaBehind
    <3> QED  BY <2>1, <3>1, <3>2
  <2>7. CASE RestoreFinish
    BY <2>1, <2>7, Types DEF RestoreFinish, IInv, RestoreOK, durable
  <2>8. CASE Reset \/ \E i \in 0 .. MaxLog : PersistLastApplied(i)
    BY <2>8 DEF Reset, PersistLastApplied
  <2> QED
    BY <2>2, <2>3, <2>4, <2>5, <2>6, <2>7, <2>8
       DEF Next, Apply, Generate, Restore, Commit, ApplyBegin, ApplyEntry, ApplyCommit, ApplyError,
           GenBegin, GenCopy, GenFinish, GenError, RestoreBegin, RestoreError, RestorePanic, Start, Stop,
           cache, durable
<1>2. Spec => [][Back => Together]_vars
  BY <1>1, Invariance, PTL DEF Spec
<1> QED  BY <1>2 DEF BackOnlyTogether

(* Every log id in memory or on disk is the id of an entry of the log *)
THEOREM LogIdsCorrect == Spec => []IdsAreLogIds
<1>1. IInv => IdsAreLogIds
  BY DEF IInv, IdsOK, IdsAreLogIds
<1> QED  BY <1>1, Invariance, PTL

(* "Always resume serving": a machine that nobody stopped serves, unless a *)
(* restore is in progress, whatever restores failed before, as long as no  *)
(* blocking restore task panicked (the JoinError of                        *)
(* apply_snapshot_from_file leaves it stopped: see sm_join_error).         *)
THEOREM AlwaysResumes == Spec => []ServesUnlessPanic
<1>1. Init => ServesUnlessPanic
  BY DEF Init, ServesUnlessPanic, ResumesServing
<1>2. IInv /\ ServesUnlessPanic /\ [Next]_vars => ServesUnlessPanic'
  <2> SUFFICES ASSUME IInv, panics = 0 => ResumesServing, [Next]_vars, panics' = 0
               PROVE  ResumesServing'
    BY DEF ServesUnlessPanic
  <2>1. panics \in Nat
    BY DEF IInv, TypeOK
  <2>2. CASE \E cmd \in Cmds, term \in 1 .. MaxTerm : Commit(cmd, term)
    BY <2>2 DEF Commit, bounds, serving, ResumesServing
  <2>3. CASE New \/ Start \/ Stop \/ Drop \/ Crash
    BY <2>3 DEF New, Start, Stop, Drop, Crash, Gone, ResumesServing
  <2>4. CASE Apply
    BY <2>4 DEF Apply, ApplyBegin, ApplyEntry, ApplyCommit, ApplyPublish, bounds, serving, ResumesServing
  <2>5. CASE ApplyError \/ (\E i \in 0 .. MaxLog : PersistLastApplied(i)) \/ Reset
    BY <2>5 DEF ApplyError, PersistLastApplied, Reset, Fault, bounds, serving, ResumesServing
  <2>6. CASE (\E i \in 1 .. MaxLog : GenBegin(i)) \/ Generate \/ GenError
    BY <2>6 DEF GenBegin, Generate, GenCopy, GenFinish, GenError, Fault, bounds, serving, ResumesServing
  <2>7. CASE \E snap \in PeerSnapshots : RestoreBegin(snap)
    BY <2>7 DEF RestoreBegin, ResumesServing
  <2>8. CASE RestoreCommit
    <3>1. restore'.pc = "committed"
      BY <2>8 DEF RestoreCommit, IInv, TypeOK
    <3> QED  BY <3>1 DEF ResumesServing
  <2>9. CASE RestoreFinish \/ RestoreError
    BY <2>9 DEF RestoreFinish, RestoreError, ResumesServing
  <2>10. CASE RestorePanic
    BY <2>1, <2>10 DEF RestorePanic
  <2>11. CASE UNCHANGED vars
    BY <2>11 DEF vars, ResumesServing
  <2> QED
    BY <2>2, <2>3, <2>4, <2>5, <2>6, <2>7, <2>8, <2>9, <2>10, <2>11 DEF Next, Restore
<1> QED  BY <1>1, <1>2, Invariance, PTL DEF Spec
=============================================================================
