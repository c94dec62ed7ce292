--------------------------- MODULE SemanticCache ---------------------------
(***************************************************************************)
(* The in-memory semantic cache of internal/cache/semantic.go, for one     *)
(* model: the models share only the lock.                                  *)
(*                                                                         *)
(* c.entries[model] is a Go slice: a header (backing array and length)     *)
(* over cells that other headers may share.  Lookup copies the header      *)
(* under the read lock, then scans the cells without any lock and keeps a  *)
(* pointer to the best one; Store and removeExpired move cells inside the  *)
(* same array under the write lock.  So the heap is part of the state:     *)
(* mem is the sequence of backing arrays allocated so far, a header is     *)
(* [arr, len], a pointer is [arr, idx].  A Lookup reads one field of one   *)
(* cell per step; the copy of a cell is one step, a torn one not modelled. *)
(***************************************************************************)
EXTENDS Integers, Sequences, FiniteSets, SequencesExt

CONSTANTS Readers,      \* concurrent calls of Lookup
          Writers,      \* concurrent calls of Store
          Prompt,       \* user messages; their embeddings are compared by Score
          Score,        \* CosineSimilarity, in steps: <<query, stored>> |-> Nat
          Threshold,    \* similarity_threshold, on the scale of Score
          TTL,          \* ttl, in ticks
          MaxEntries,   \* max_entries, after New replaced a value <= 0
          Setups,       \* serial: calls start only when none is running; prompts: those
                        \* asked and stored; persisted: those LoadAll returns, in order
          MaxTime       \* bound: the clock stops here

NoPrompt == "zero"

ASSUME CacheAssumption ==
  /\ Score \in [Prompt \X Prompt -> Nat]
  /\ NoPrompt \notin Prompt
  /\ Threshold \in Nat /\ TTL \in Nat /\ MaxTime \in Nat
  /\ MaxEntries \in Nat \ {0}
  /\ \A s \in Setups : /\ s.serial \in BOOLEAN
                       /\ s.prompts \subseteq Prompt
                       /\ s.persisted \in Seq(Prompt)

VARIABLES setup,      \* the member of Setups this behavior has, fixed by Init
          mem,        \* the backing arrays, oldest first
          hdr,        \* the slice header in c.entries
          now,        \* the clock
          rd,         \* the local variables of each Lookup
          wr,         \* the local variables of each Store
          recovered   \* LoadFromStore has run

vars == <<setup, mem, hdr, now, rd, wr, recovered>>

\* A CacheEntry: the prompt stands for its Key, Vector and ResponseJSON.
Entry(p, stored, access) == [of |-> p, storedAt |-> stored, lastAccess |-> access]
Empty == [of |-> NoPrompt, storedAt |-> 0, lastAccess |-> 0]
Entries == [of : Prompt, storedAt : 0..MaxTime, lastAccess : 0..MaxTime]
Heaps == Seq(Seq(Entries \cup {Empty}))

Nil == [arr |-> 0, len |-> 0]
NoBest == [arr |-> 0, idx |-> 0]

Live == IF hdr.arr = 0 THEN <<>> ELSE SubSeq(mem[hdr.arr], 1, hdr.len)

Expired(e, t) == t - e.storedAt > TTL

IdleRead == [pc |-> "idle", q |-> NoPrompt, h |-> Nil, t |-> 0, i |-> 0,
             best |-> NoBest, score |-> 0, expired |-> <<>>]
IdleWrite == [pc |-> "idle", entry |-> Empty]

\* h is a slice of the heap m.
SliceOf(m, h) ==
  /\ h \in [arr : 0..Len(m), len : Nat]
  /\ IF h.arr = 0 THEN h.len = 0 ELSE h.len <= Len(m[h.arr])

ReadType ==
  [pc : {"idle", "clock", "scan", "score", "respond"}, q : Prompt \cup {NoPrompt},
   h : [arr : Nat, len : Nat], t : 0..MaxTime, i : Nat,
   best : [arr : Nat, idx : Nat], score : Nat, expired : Seq(Nat \ {0})]

TypeOK ==
  /\ setup \in Setups
  /\ mem \in Heaps
  /\ SliceOf(mem, hdr)
  /\ now \in 0..MaxTime
  /\ rd \in [Readers -> ReadType]
  /\ \A r \in Readers :
       /\ SliceOf(mem, rd[r].h)
       /\ rd[r].pc # "idle" => rd[r].q \in Prompt
       /\ rd[r].best # NoBest => /\ rd[r].best.arr \in DOMAIN mem
                                /\ rd[r].best.idx \in DOMAIN mem[rd[r].best.arr]
  /\ wr \in [Writers -> [pc : {"idle", "store"}, entry : Entries \cup {Empty}]]
  /\ \A w \in Writers : wr[w].pc = "store" => wr[w].entry \in Entries
  /\ recovered \in BOOLEAN

Init ==
  /\ setup \in Setups
  /\ mem = <<>>
  /\ hdr = Nil
  /\ now = 0
  /\ rd = [r \in Readers |-> IdleRead]
  /\ wr = [w \in Writers |-> IdleWrite]
  /\ recovered = FALSE

MayStart ==
  setup.serial => /\ \A r \in Readers : rd[r].pc = "idle"
                  /\ \A w \in Writers : wr[w].pc = "idle"

-----------------------------------------------------------------------------
(***************************************************************************)
(* Slices                                                                  *)
(***************************************************************************)

\* The heap and the header after append(h, e): in place while the array has
\* room, else into a new array of twice the capacity.
AppendTo(m, h, e) ==
  LET full == h.arr = 0 \/ h.len = Len(m[h.arr])
      size == IF h.len = 0 THEN 1 ELSE 2 * h.len
      old  == IF h.arr = 0 THEN <<>> ELSE m[h.arr]
      new  == [i \in 1..size |-> IF i <= h.len THEN old[i]
                                 ELSE IF i = h.len + 1 THEN e ELSE Empty]
  IN  IF full THEN [mem |-> Append(m, new), hdr |-> [arr |-> Len(m) + 1, len |-> h.len + 1]]
              ELSE [mem |-> [m EXCEPT ![h.arr][h.len + 1] = e],
                    hdr |-> [h EXCEPT !.len = @ + 1]]

\* mutant: the vacated cell is cleared for the garbage collector.
SwapClear(m, h, i) ==
  [mem |-> [m EXCEPT ![h.arr] = [@ EXCEPT ![i] = m[h.arr][h.len], ![h.len] = Empty]],
   hdr |-> [h EXCEPT !.len = @ - 1]]

\* entries[i] = entries[len-1]; entries = entries[:len-1]
SwapRemove(m, h, i) ==
  [mem |-> [m EXCEPT ![h.arr][i] = m[h.arr][h.len]],
   hdr |-> [h EXCEPT !.len = @ - 1]]

Oldest(m, h) ==
  CHOOSE i \in 1..h.len :
    \A j \in 1..h.len :
      \/ m[h.arr][i].lastAccess < m[h.arr][j].lastAccess
      \/ m[h.arr][i].lastAccess = m[h.arr][j].lastAccess /\ i <= j

\* mutant: eviction starts one entry late.
EvictLate(s) ==
  IF s.hdr.len > MaxEntries + 1 THEN SwapRemove(s.mem, s.hdr, Oldest(s.mem, s.hdr)) ELSE s

EvictOne(s) ==
  IF s.hdr.len > MaxEntries THEN SwapRemove(s.mem, s.hdr, Oldest(s.mem, s.hdr)) ELSE s

\* The places of the cells of h that have not expired, in order.
FreshIn(m, h) ==
  LET fresh == {i \in 1..h.len : ~Expired(m[h.arr][i], now)}
  IN  CHOOSE f \in [1..Cardinality(fresh) -> fresh] :
        \A j, k \in DOMAIN f : j < k => f[j] < f[k]

\* The fresh cells of h moved to its front.
Compacted(m, h) ==
  LET a == m[h.arr]
      f == FreshIn(m, h)
  IN  [m EXCEPT ![h.arr] = [i \in 1..Len(a) |-> IF i \in DOMAIN f THEN a[f[i]] ELSE a[i]]]

\* mutant: the array is cut to its fresh cells and the length is kept.
CompactKeepsLength(s) ==
  IF s.hdr.len > (MaxEntries * 3) \div 2
  THEN [s EXCEPT !.mem[s.hdr.arr] =
          [i \in DOMAIN FreshIn(s.mem, s.hdr) |-> @[FreshIn(s.mem, s.hdr)[i]]]]
  ELSE s

CompactExpired(s) ==
  IF s.hdr.len > (MaxEntries * 3) \div 2
  THEN [mem |-> Compacted(s.mem, s.hdr),
        hdr |-> [s.hdr EXCEPT !.len = Cardinality(DOMAIN FreshIn(s.mem, s.hdr))]]
  ELSE s

\* mutant: the lowest index first.
RemoveAscending(m, h, indices) ==
  FoldLeft(LAMBDA s, i : IF i > s.hdr.len THEN s ELSE SwapRemove(s.mem, s.hdr, i),
           [mem |-> m, hdr |-> h], indices)

\* The indices were collected in an earlier snapshot: they are applied to the
\* current slice, the highest first, those beyond its end ignored.
RemoveIndices(m, h, indices) ==
  FoldRight(LAMBDA i, s : IF i > s.hdr.len THEN s ELSE SwapRemove(s.mem, s.hdr, i),
            indices, [mem |-> m, hdr |-> h])

-----------------------------------------------------------------------------
(***************************************************************************)
(* Lookup                                                                  *)
(***************************************************************************)

\* The prompt is embedded and the slice header copied under the read lock.
LookupStart(r) ==
  /\ rd[r].pc = "idle"
  /\ MayStart
  /\ \E q \in setup.prompts :
       rd' = [rd EXCEPT ![r] = [IdleRead EXCEPT !.pc = "clock", !.q = q, !.h = hdr,
                                                !.i = 1, !.score = Threshold]]
  /\ UNCHANGED <<setup, mem, hdr, now, wr, recovered>>

ReadClock(r) ==
  /\ rd[r].pc = "clock"
  /\ rd' = [rd EXCEPT ![r].pc = "scan", ![r].t = now]
  /\ UNCHANGED <<setup, mem, hdr, now, wr, recovered>>

\* mutant: any score above the threshold replaces the best.
AboveThreshold(s, l) == s >= Threshold

Better(s, l) == s >= l.score

Cell(r) == mem[rd[r].h.arr][rd[r].i]

\* The scan reads the next cell's StoredAt, and its Vector later, without a lock.
Scan(r) ==
  /\ rd[r].pc = "scan"
  /\ rd[r].i <= rd[r].h.len
  /\ \/ /\ Expired(Cell(r), rd[r].t)
        /\ rd' = [rd EXCEPT ![r].expired = Append(@, rd[r].i), ![r].i = @ + 1]
     \/ /\ ~Expired(Cell(r), rd[r].t)
        /\ rd' = [rd EXCEPT ![r].pc = "score"]
  /\ UNCHANGED <<setup, mem, hdr, now, wr, recovered>>

Compare(r) ==
  /\ rd[r].pc = "score"
  /\ LET s == Score[<<rd[r].q, Cell(r).of>>]
     IN \/ /\ Better(s, rd[r])
           /\ rd' = [rd EXCEPT ![r].pc = "scan", ![r].i = @ + 1, ![r].score = s,
                               ![r].best = [arr |-> rd[r].h.arr, idx |-> rd[r].i]]
        \/ /\ ~Better(s, rd[r])
           /\ rd' = [rd EXCEPT ![r].pc = "scan", ![r].i = @ + 1]
  /\ UNCHANGED <<setup, mem, hdr, now, wr, recovered>>

Scanned(r) == rd[r].pc = "scan" /\ rd[r].i > rd[r].h.len

RemoveExpired(r) ==
  /\ Scanned(r)
  /\ rd[r].expired # <<>>
  /\ LET s == RemoveIndices(mem, hdr, rd[r].expired)
     IN mem' = s.mem /\ hdr' = s.hdr
  /\ rd' = [rd EXCEPT ![r].expired = <<>>]
  /\ UNCHANGED <<setup, now, wr, recovered>>

LookupMiss(r) ==
  /\ Scanned(r)
  /\ rd[r].expired = <<>>
  /\ rd[r].best = NoBest
  /\ rd' = [rd EXCEPT ![r] = IdleRead]
  /\ UNCHANGED <<setup, mem, hdr, now, wr, recovered>>

\* best.LastAccess = now, under the write lock, wherever best points by now.
Touch(r) ==
  /\ Scanned(r)
  /\ rd[r].expired = <<>>
  /\ rd[r].best # NoBest
  /\ mem' = [mem EXCEPT ![rd[r].best.arr][rd[r].best.idx].lastAccess = rd[r].t]
  /\ rd' = [rd EXCEPT ![r].pc = "respond"]
  /\ UNCHANGED <<setup, hdr, now, wr, recovered>>

\* The entry whose response LookupHit returns: what best points to by then.
Answer(r) == mem[rd[r].best.arr][rd[r].best.idx]

\* The response is read through best after the lock was given back.
LookupHit(r) ==
  /\ rd[r].pc = "respond"
  /\ rd' = [rd EXCEPT ![r] = IdleRead]
  /\ UNCHANGED <<setup, mem, hdr, now, wr, recovered>>

-----------------------------------------------------------------------------
(***************************************************************************)
(* Store and LoadFromStore                                                 *)
(***************************************************************************)

\* The prompt is embedded and the entry built before the lock is taken.
StoreStart(w) ==
  /\ wr[w].pc = "idle"
  /\ MayStart
  /\ \E p \in setup.prompts :
       wr' = [wr EXCEPT ![w] = [pc |-> "store", entry |-> Entry(p, now, now)]]
  /\ UNCHANGED <<setup, mem, hdr, now, rd, recovered>>

StoreCommit(w) ==
  /\ wr[w].pc = "store"
  /\ LET s == CompactExpired(EvictOne(AppendTo(mem, hdr, wr[w].entry)))
     IN mem' = s.mem /\ hdr' = s.hdr
  /\ wr' = [wr EXCEPT ![w] = IdleWrite]
  /\ UNCHANGED <<setup, now, rd, recovered>>

\* Every recovered entry is appended as if stored now.
AppendAll(m, h, prompts) ==
  FoldLeft(LAMBDA s, p : AppendTo(s.mem, s.hdr, Entry(p, now, now)),
           [mem |-> m, hdr |-> h], prompts)

LoadFromStore ==
  /\ ~recovered
  /\ setup.persisted # <<>>
  /\ MayStart
  /\ LET s == AppendAll(mem, hdr, setup.persisted)
     IN mem' = s.mem /\ hdr' = s.hdr
  /\ recovered' = TRUE
  /\ UNCHANGED <<setup, now, rd, wr>>

Tick ==
  /\ now < MaxTime
  /\ now' = now + 1
  /\ UNCHANGED <<setup, mem, hdr, rd, wr, recovered>>

Next ==
  \/ Tick
  \/ LoadFromStore
  \/ \E r \in Readers : \/ LookupStart(r) \/ ReadClock(r) \/ Scan(r) \/ Compare(r)
                        \/ RemoveExpired(r) \/ LookupMiss(r) \/ Touch(r) \/ LookupHit(r)
  \/ \E w \in Writers : StoreStart(w) \/ StoreCommit(w)

Spec == Init /\ [][Next]_vars

-----------------------------------------------------------------------------
(***************************************************************************)
(* Properties                                                              *)
(***************************************************************************)

Age(e, t) == t - e.storedAt

Similar(r) == Score[<<rd[r].q, Answer(r).of>>] >= Threshold

\* A hit answers a prompt that is similar to the one asked: the response that is
\* about to be returned belongs to an entry whose vector reached the threshold.
HitIsSimilar == \A r \in Readers : rd[r].pc = "respond" => Similar(r)

\* Of calls that do not overlap, a hit is similar, not older than the TTL, and the
\* best of the entries that are fresh: the removal of expired entries before it
\* does not move another entry under the pointer to the best.
SerialHitIsBest ==
  setup.serial => \A r \in Readers : rd[r].pc = "respond" =>
    /\ Similar(r)
    /\ Age(Answer(r), rd[r].t) <= TTL
    /\ \A i \in DOMAIN Live :
         \/ Age(Live[i], rd[r].t) > TTL
         \/ Score[<<rd[r].q, Live[i].of>>] <= Score[<<rd[r].q, Answer(r).of>>]

Removing(r) == rd[r].expired # <<>> /\ rd'[r].expired = <<>>

Count(e, s) == Cardinality({i \in DOMAIN s : s[i] = e})

\* Of calls that do not overlap, removeExpired takes away all entries that had
\* expired when the lookup began and nothing else, as often as the same entry is
\* stored: moving the last cell onto a removed one neither saves nor loses one.
SerialRemovalIsExact ==
  [][setup.serial =>
       \A r \in Readers : Removing(r) =>
         \A e \in Entries :
           Count(e, Live') = IF Age(e, rd[r].t) > TTL THEN 0 ELSE Count(e, Live)]_vars

\* A full cache does not grow, whatever overlaps and even when recovery has
\* overfilled it, so max_entries holds without recovery.
FullCacheDoesNotGrow ==
  [][hdr.len >= MaxEntries /\ recovered' = recovered => hdr'.len <= hdr.len]_vars

\* No header, current or copied by a running lookup, covers a cell that was
\* never written: a scan reads stored entries only, whichever array it is in.
WindowsHoldEntries ==
  /\ \A i \in 1..hdr.len : mem[hdr.arr][i] # Empty
  /\ \A r \in Readers : \A i \in 1..rd[r].h.len : mem[rd[r].h.arr][i] # Empty
=============================================================================
