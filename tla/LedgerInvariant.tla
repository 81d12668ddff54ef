-------------------------- MODULE LedgerInvariant --------------------------
(***************************************************************************)
(* The inductive invariants behind the safety properties of Ledger.        *)
(*                                                                         *)
(*   TypeInv    types, and what a reserved number comes with;              *)
(*   AppendInv  TypeInv, and how the uncommitted partition rows relate to  *)
(*              the committed ones, for every payload;                     *)
(*   CodesInv   AppendInv, and no code twice in what any one session sees  *)
(*              or in what any two have written, for every payload;        *)
(*   SoundInv   AppendInv, and the shape of the chain in every version of  *)
(*              a partition row, for payloads that cannot fail half way.   *)
(*   RecordInv  AppendInv, and how request rows, events and idempotency    *)
(*              records speak of the movements, for every payload;         *)
(*   WholeInv   AppendInv, and that a movement comes with its event and    *)
(*              the result of its request, if source references parse.     *)
(***************************************************************************)
EXTENDS Ledger

\* A posting that is about to write its movement holds the partition row, and
\* the number it has reserved is within the bound.
Reserved ==
  \A w \in Workers :
    tx[w].pc = "persist" =>
      /\ tx[w].snap.seq < MaxSeq
      /\ tx[w].parts[PartitionOf[tx[w].cur]] # None

TypeInv == TypeOK /\ Reserved

-----------------------------------------------------------------------------
\* One version of a partition row keeps every movement of another.
Keeps(new, old) ==
  \A n \in Seqs : old.moves[n] # None => new.moves[n] = old.moves[n]

\* At most one session has an uncommitted version of a partition row.
Exclusive ==
  \A v, w \in Workers, p \in Partitions :
    tx[v].parts[p] # None /\ tx[w].parts[p] # None => v = w

\* An uncommitted version was made from the committed one.
BuildsOnBook ==
  \A w \in Workers, p \in Partitions :
    tx[w].parts[p] # None => Keeps(tx[w].parts[p], part[p])

AppendInv == TypeInv /\ Exclusive /\ BuildsOnBook

-----------------------------------------------------------------------------
\* Rows of p and q give no code twice.
CodesApart(p, row, q, other) ==
  p # q =>
    \A n \in Seqs : row.moves[n] # None => ~HasCode(other, row.moves[n].req, n)

\* In what session w sees.
SeenApart(w) ==
  \A p, q \in Partitions : CodesApart(p, View(w, p), q, View(w, q))

\* In what sessions v and w have written.
WrittenApart(v, w) ==
  \A p, q \in Partitions :
    tx[v].parts[p] # None /\ tx[w].parts[q] # None =>
      CodesApart(p, tx[v].parts[p], q, tx[w].parts[q])

CodesInv ==
  /\ AppendInv
  /\ CodesUnique
  /\ \A w \in Workers : SeenApart(w)
  /\ \A v, w \in Workers : WrittenApart(v, w)

-----------------------------------------------------------------------------
\* A session without a transaction holds nothing.
IdleHoldsNothing == \A w \in Workers : tx[w].pc = "idle" => tx[w] = Idle

-----------------------------------------------------------------------------
\* A payload that passes validation is complete, and a MOV code's site tells
\* its partition: then a posting that fails has written nothing but its status.
CleanPayloads ==
  /\ \A r \in Requests : DefectOf[r] = "none"
  /\ \A r, s \in Requests :
       SiteOf[r] = SiteOf[s] => PartitionOf[r] = PartitionOf[s]

Gapless(row) ==
  \A n, m \in Seqs : row.moves[n] # None /\ m < n => row.moves[m] # None

\* The last hash is that of the highest movement.
Headed(row) ==
  \/ row.last = None /\ \A n \in Seqs : row.moves[n] = None
  \/ \E n \in Seqs :
       /\ row.moves[n] # None
       /\ row.last = <<n, row.moves[n].req>>
       /\ \A m \in Seqs : m > n => row.moves[m] = None

Linked(row) == Gapless(row) /\ Chained(row) /\ Headed(row)

Owned(p, row) ==
  \A n \in Seqs : row.moves[n] # None => PartitionOf[row.moves[n].req] = p

\* The counter stands at a movement.  (Not always at the highest: a stale
\* session may have written it back.)
Counted(row) == row.seq = 0 \/ row.moves[row.seq] # None

\* A snapshot, however old, is harmless: the number after it is taken by now,
\* or the row's last hash is still the one it has.
Harmless(snap, row) ==
  /\ snap.seq = 0 \/ row.moves[snap.seq] # None
  /\ snap.seq < MaxSeq /\ row.moves[snap.seq + 1] = None => snap.last = row.last

SoundTx(w) ==
  LET t == tx[w]
  IN  /\ \A p \in Partitions :
           t.parts[p] # None =>
             /\ Linked(t.parts[p])
             /\ Owned(p, t.parts[p])
             /\ IF t.pc = "persist" /\ p = PartitionOf[t.cur]
                THEN t.parts[p].seq = t.snap.seq + 1
                ELSE Counted(t.parts[p])
      /\ t.pc \in {"reserve", "persist"} =>
           Harmless(t.snap, View(w, PartitionOf[t.cur]))

SoundPart(p) == Linked(part[p]) /\ Owned(p, part[p]) /\ Counted(part[p])

SoundInv ==
  /\ AppendInv
  /\ \A p \in Partitions : SoundPart(p)
  /\ \A w \in Workers : SoundTx(w)

-----------------------------------------------------------------------------
\* The result of a request names a movement made for it, in the book as
\* session w sees it.
Answers(w, r, result) ==
  \E p \in Partitions, n \in Seqs :
    /\ result = <<p, n>>
    /\ View(w, p).moves[n] # None
    /\ View(w, p).moves[n].req = r

PostedTx(w) ==
  \A r \in Requests :
    tx[w].rows[r] # None /\ tx[w].rows[r].status = "POSTED" =>
      Answers(w, r, tx[w].rows[r].result)

\* A session has events of the movements that it has written itself.
EventsTx(w) ==
  \A p \in Partitions, n \in Seqs :
    <<p, n>> \in tx[w].events =>
      /\ tx[w].parts[p] # None
      /\ tx[w].parts[p].moves[n] # None
      /\ part[p].moves[n] = None

\* A movement has at most one event.
OutboxOfBook ==
  /\ \A e \in outbox : \E p \in Partitions, n \in Seqs :
       e.movement = <<p, n>> /\ part[p].moves[n] # None
  /\ \A e, f \in outbox : e.movement = f.movement => e = f

\* The request that has registered key k, as session w sees it.
Registrant(w, k) == IF tx[w].keys[k] # None THEN tx[w].keys[k] ELSE idem[k]

Matches(known, r) == known # None /\ HashOf[known] = HashOf[r]

Registered(w, r) == Matches(Registrant(w, KeyOf[r]), r)

KeysTx(w) ==
  /\ tx[w].pc \in {"validate", "read", "reserve", "persist"} => Registered(w, tx[w].cur)
  /\ \A p \in Partitions, n \in Seqs :
       tx[w].parts[p] # None /\ tx[w].parts[p].moves[n] # None =>
         Registered(w, tx[w].parts[p].moves[n].req)
  /\ \A k \in Keys : tx[w].keys[k] # None => idem[k] = None

KeysApart ==
  \A v, w \in Workers, k \in Keys :
    tx[v].keys[k] # None /\ tx[w].keys[k] # None => v = w

KeysOfBook ==
  \A p \in Partitions, n \in Seqs :
    part[p].moves[n] # None =>
      Matches(idem[KeyOf[part[p].moves[n].req]], part[p].moves[n].req)

RecordTx(w) == PostedTx(w) /\ EventsTx(w) /\ KeysTx(w)

RecordInv ==
  /\ AppendInv
  /\ PostedIsBooked /\ OutboxOfBook /\ KeysOfBook /\ KeysApart
  /\ \A w \in Workers : RecordTx(w)

-----------------------------------------------------------------------------
\* What the code does not test before it writes the movement: that its source
\* references parse.
SourcesParse == \A r \in Requests : DefectOf[r] # "badSource"

\* Row r of session w has a result.
Resulted(w, r) == tx[w].rows[r] # None /\ tx[w].rows[r].result # None

\* A session's own movements have their events and results, and it does not
\* post a request again that has its result.
WholeTx(w) ==
  /\ \A p \in Partitions, n \in Seqs :
       /\ tx[w].parts[p] # None
       /\ tx[w].parts[p].moves[n] # None
       /\ part[p].moves[n] = None
       => <<p, n>> \in tx[w].events /\ Resulted(w, tx[w].parts[p].moves[n].req)
  /\ \A r \in Requests :
       Resulted(w, r) => r \notin tx[w].todo /\ (tx[w].pc # "pick" => tx[w].cur # r)
  /\ tx[w].pc # "pick" => tx[w].cur \notin tx[w].todo

WholeInv ==
  /\ AppendInv
  /\ AllOrNothing
  /\ \A w \in Workers : WholeTx(w)
=============================================================================
