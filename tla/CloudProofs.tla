---------------------------- MODULE CloudProofs ----------------------------
(***************************************************************************)
(* The columnar table and its leases, for every number of rows, threads    *)
(* and databases: the inductive invariant of Cloud, what the writers make  *)
(* of the segments of a table, what a step leaves alone, that every action *)
(* keeps the invariant, and the theorems that follow.                      *)
(***************************************************************************)
EXTENDS Cloud, Extrema, FiniteSetTheorems

(* A leaf that names no prover is Zenon's. *)
USE Zenon


-----------------------------------------------------------------------------
(* The inductive invariant.                                                *)

Fields == DOMAIN Idle

(* Segments fill ids from 0 on, hold rows, and share none. *)
Whole(s) ==
    /\ DOMAIN s = Ids
    /\ \A i \in Ids : s[i] \in Segments \cup {None}
    /\ \A i \in Used(s), j \in Ids : j <= i => j \in Used(s)
    /\ \A i, j \in Used(s) : i # j => Content(s[i]) \cap Content(s[j]) = {}

Covers(z, s) ==
    \A i \in Used(s) :
        z[i] # None => \A r \in Content(s[i]) : z[i].min <= r /\ r <= z[i].max

(* A pointer in a table was installed there. *)
Tiered(s) == \A i \in Used(s) : s[i].at = "remote" => <<i, s[i]>> \in installed

IsMeta(m) == m # None => m = Meta(m.state, m.path, m.checksum)
RemoteIsInstalled(m, i) ==
    m # None /\ m.state = "Remote" => <<i, Pointer(m.path, m.checksum)>> \in installed

StoreInv ==
    /\ \A p \in DOMAIN objects : p \in Paths /\ objects[p] = p[2]
    /\ \A p \in installed : p[2] \in Segments /\ Resolves(p[2])

TableInv(d) ==
    /\ lsn[d] \in Nat
    /\ Whole(seg[d])
    /\ RowsOf(seg[d]) = table[d]
    /\ Tiered(seg[d])
    /\ Covers(zone[d], seg[d])
    /\ DOMAIN tier[d] = Ids
    /\ \A i \in Ids : IsMeta(tier[d][i]) /\ RemoteIsInstalled(tier[d][i], i)

DataInv ==
    /\ DOMAIN lsn = Dbs /\ DOMAIN seg = Dbs /\ DOMAIN zone = Dbs
    /\ DOMAIN tier = Dbs /\ DOMAIN table = Dbs
    /\ \A d \in Dbs : TableInv(d)

BackupInv(b) ==
    /\ b.lsn \in Nat
    /\ Whole(b.seg)
    /\ \A i \in Used(b.seg) : b.seg[i].at = "local"
    /\ RowsOf(b.seg) = b.table
    /\ Covers(b.zone, b.seg)
    /\ DOMAIN b.tier = Ids
    /\ \A i \in Ids : IsMeta(b.tier[i]) /\ RemoteIsInstalled(b.tier[i], i)

BackupsInv ==
    /\ \E T : backups \in Seq(T)
    /\ \A k \in DOMAIN backups : BackupInv(backups[k])
    /\ marker # None => marker \in DOMAIN backups

(* A writer and a tiering run hold a table that was once there; a scan whose *)
(* LSN is still the database's has paired the zone maps with their segments. *)
WriterInv(t) ==
    /\ th[t].pc \in {"read", "write", "lsn", "segments", "zones", "check", "done"} => th[t].row \in Rows
    /\ th[t].pc \in {"write", "zones", "check"} => Whole(th[t].snap)
    /\ th[t].pc = "write" => th[t].call \in {"insert", "update", "delete"}
    /\ th[t].pc = "read" => th[t].call \in {"insert", "update", "delete"}

ScanInv(t) ==
    /\ th[t].pc \in {"segments", "zones", "check"} => th[t].lsn \in Nat /\ th[t].lsn <= lsn[Db(t)]
    /\ th[t].pc \in {"zones", "check"} => RowsOf(th[t].snap) = th[t].rows
    /\ th[t].pc = "zones" /\ Paired(t) => \A i \in Ids : seg[Db(t)][i] = th[t].snap[i]
    /\ th[t].pc = "check" /\ Paired(t) => Covers(th[t].zones, th[t].snap)
    /\ th[t].pc = "done" => th[t].res = th[t].rows \cap {th[t].row}

TierInv(t) ==
    /\ th[t].pc = "recover" => th[t].id \in Nat
    /\ Uploading(t) => th[t].next \in {"recover", "tier"} /\ th[t].id \in Ids
    /\ th[t].pc = "recover" \/ (Uploading(t) /\ th[t].next = "recover")
           => \A i \in Ids : IsMeta(th[t].meta[i])
    /\ th[t].pc = "tier" \/ (Uploading(t) /\ th[t].next = "tier")
           => Whole(th[t].snap) /\ th[t].id \in Nat

(* The record, the pointer and the object of the segment that t tiers agree. *)
RecordInv(t) ==
    LET m == th[t].record
        p == th[t].ptr
    IN  /\ Uploading(t) => m = Meta(m.state, m.path, m.checksum)
        /\ th[t].pc \in {"upload", "install", "reread", "finish"} =>
              /\ m.path \in Paths
              /\ m.path[2] = m.checksum
              /\ p = Pointer(m.path, m.checksum)
        /\ th[t].pc \in {"install", "reread", "finish"} => m.path \in DOMAIN objects
        /\ th[t].pc = "finish" => <<th[t].id, p>> \in installed
        /\ th[t].pc = "save" =>
              /\ m.state # "Uploading"
              /\ m.state = "Remote" => <<th[t].id, Pointer(m.path, m.checksum)>> \in installed

(* A resumption has a backup to restore and a database to itself. *)
ResumeInv(t) ==
    /\ (th[t].pc = "acquire" /\ th[t].call \in {"resume", "restore"}) \/ th[t].pc = "restore" =>
          th[t].backup \in DOMAIN backups /\ OwnDatabase(start, t)
    /\ th[t].pc = "mark" => th[t].backup \in DOMAIN backups

TodoInv(t) ==
    /\ todo[t] \in Seq(Calls)
    /\ (\E k \in DOMAIN todo[t] : todo[t][k] \in {"resume", "restore"}) => OwnDatabase(start, t)

ThreadInv(t) ==
    /\ DOMAIN th[t] = Fields
    /\ WriterInv(t) /\ ScanInv(t) /\ TierInv(t) /\ RecordInv(t) /\ ResumeInv(t)

(* An Uploading record is somebody's, or was left behind. *)
UploadInv ==
    \A d \in Dbs, i \in Ids :
        tier[d][i] # None /\ tier[d][i].state = "Uploading" =>
            \/ <<d, i>> \in interrupted
            \/ \E t \in Threads : Db(t) = d /\ th[t].id = i /\ Uploading(t)

CloudInv ==
    /\ start \in Starts
    /\ StoreInv
    /\ DataInv
    /\ BackupsInv
    /\ DOMAIN th = Threads /\ DOMAIN todo = Threads
    /\ \A t \in Threads : ThreadInv(t) /\ TodoInv(t)
    /\ UploadInv

-----------------------------------------------------------------------------
(* The inductive invariant of the leases.                                  *)

LeaseFile == [id : Nat, expires : Int]

(* t acquired the lease in this call. *)
HoldPcs == {"backup", "mark", "release", "restore", "unmark", "session"}
Holds(t) == th[t].pc \in HoldPcs

LeaseInv ==
    /\ start \in Starts
    /\ now \in Nat /\ leases \in Nat
    /\ lease \in LeaseFile \cup {None}
    /\ DOMAIN th = Threads
    /\ \A t \in Threads :
          /\ DOMAIN th[t] = Fields /\ th[t].next \notin HoldPcs
          /\ IF Holds(t) THEN th[t].lease \in LeaseFile /\ th[t].lease.id <= leases
             ELSE th[t].lease = None
    /\ \A t, u \in Threads : t # u /\ Holds(t) /\ Holds(u) => th[t].lease.id # th[u].lease.id
    /\ LiveLeaseHolds

(* A commit takes the number after the last one.                           *)
LEMMA LsnFacts == 0 \in Nat /\ \A n \in Nat : n + 1 \in Nat /\ n <= n /\ n <= n + 1 /\ n + 1 # n
  BY SMTT(30)

-----------------------------------------------------------------------------
(* Segments.                                                               *)

(* A segment is rows or a pointer to rows; either way it holds some.       *)
LEMMA SegmentFacts ==
    ASSUME NEW v \in Segments
    PROVE  /\ v # None
           /\ Content(v) \in SUBSET Rows /\ Content(v) # {}
           /\ v.at \in {"local", "remote"}
           /\ v.at = "local" => v = Local(v.rows) /\ v.rows = Content(v)
           /\ v.at = "remote" => /\ v = Pointer(v.path, v.checksum) /\ v.checksum = Content(v)
                                 /\ v.path \in Paths /\ v.path[2] = v.checksum
<1>1. v # None
  BY NoneAssumption
<1>2. CASE v \in {Local(rows) : rows \in RowSets}
  <2>1. PICK rows \in RowSets : v = Local(rows)
    BY <1>2
  <2>2. v.at = "local" /\ v.rows = rows /\ Content(v) = rows
    BY <2>1 DEF Local, Content
  <2> QED
    BY <1>1, <2>1, <2>2 DEF RowSets
<1>3. CASE v \in {Pointer(p, p[2]) : p \in Paths}
  <2>1. PICK p \in Paths : v = Pointer(p, p[2])
    BY <1>3
  <2>2. p[2] \in RowSets
    BY <2>1, SMTT(30) DEF Paths, Path
  <2>3. v.at = "remote" /\ v.path = p /\ v.checksum = p[2] /\ Content(v) = p[2]
    BY <2>1 DEF Pointer, Content
  <2> QED
    BY <1>1, <2>1, <2>2, <2>3 DEF RowSets
<1> QED
  BY <1>2, <1>3 DEF Segments

(* Nonempty rows make a segment.                                           *)
LEMMA LocalFacts ==
    ASSUME NEW rows \in SUBSET Rows, rows # {}
    PROVE  /\ Local(rows) \in Segments /\ Local(rows) # None /\ Content(Local(rows)) = rows
           /\ Local(rows).at = "local" /\ Local(rows).rows = rows
<1>1. Local(rows) \in Segments
  <2>1. rows \in RowSets
    BY DEF RowSets
  <2> QED
    BY <2>1 DEF Segments
<1> QED
  BY <1>1, NoneAssumption DEF Local, Content

(* The object of some rows names them, and a pointer names both.           *)
LEMMA PathFacts ==
    ASSUME NEW i \in Ids, NEW rows \in RowSets
    PROVE  Path(i, rows) \in Paths /\ Path(i, rows)[2] = rows
  BY SMTT(30) DEF Paths, Path

LEMMA PointerFields ==
    ASSUME NEW path, NEW rows
    PROVE  Pointer(path, rows).path = path /\ Pointer(path, rows).checksum = rows
  BY SMTT(30) DEF Pointer

(* The pointer to an uploaded object is a segment with the object's rows.  *)
LEMMA PointerFacts ==
    ASSUME NEW path \in Paths
    PROVE  /\ Pointer(path, path[2]) \in Segments /\ Pointer(path, path[2]) # None
           /\ Content(Pointer(path, path[2])) = path[2]
<1>1. Pointer(path, path[2]) \in Segments
  BY DEF Segments
<1> QED
  BY <1>1, NoneAssumption DEF Pointer, Content

LEMMA IdsFacts ==
    /\ Cardinality(Rows) \in Nat
    /\ IsFiniteSet(Ids) /\ Cardinality(Ids) = Cardinality(Rows) + 1
    /\ Ids \subseteq Nat /\ \A i \in Ids : i <= Cardinality(Rows)
<1>1. Cardinality(Rows) \in Nat
  BY RowsAssumption, FS_CardinalityType
<1>2. IsFiniteSet(0..Cardinality(Rows)) /\ Cardinality(0..Cardinality(Rows)) = Cardinality(Rows) + 1
  BY <1>1, FS_Interval, SMTT(30)
<1> QED
  BY <1>1, <1>2, SMTT(30) DEF Ids

(* There are never more segments than rows, so an id is free behind them.  *)
LEMMA LastIdIsFree ==
    ASSUME NEW s, Whole(s)
    PROVE  Cardinality(Rows) \notin Used(s)
<1> SUFFICES ASSUME Cardinality(Rows) \in Used(s) PROVE FALSE
  OBVIOUS
<1>1. \A i \in Ids : i \in Used(s)
  BY IdsFacts DEF Whole
<1> DEFINE f == [i \in Ids |-> CHOOSE r : r \in Content(s[i])]
<1>2. \A i \in Ids : f[i] \in Content(s[i]) /\ Content(s[i]) \subseteq Rows
  <2> SUFFICES ASSUME NEW i \in Ids PROVE f[i] \in Content(s[i]) /\ Content(s[i]) \subseteq Rows
    OBVIOUS
  <2>1. s[i] \in Segments
    BY <1>1 DEF Whole, Used
  <2>2. Content(s[i]) \in SUBSET Rows /\ Content(s[i]) # {}
    BY <2>1, SegmentFacts
  <2> QED
    BY <2>2
<1>3. f \in [Ids -> Rows]
  BY <1>2
<1>4. Cardinality(Rows) < Cardinality(Ids)
  BY IdsFacts, SMTT(30)
<1>5. PICK i, j \in Ids : i # j /\ f[i] = f[j]
  <2> HIDE DEF f
  <2> QED
    BY <1>3, <1>4, IdsFacts, RowsAssumption, FS_PigeonHole
<1>6. Content(s[i]) \cap Content(s[j]) = {}
  BY <1>1, <1>5 DEF Whole
<1> QED
  BY <1>2, <1>5, <1>6

(* NextId is the first free id, and all ids from there on are free.        *)
LEMMA NextIdFacts ==
    ASSUME NEW s, Whole(s)
    PROVE  /\ NextId(s) \in Ids
           /\ \A i \in Ids : i \in Used(s) <=> i < NextId(s)
<1> DEFINE S == {-1} \cup Used(s)
<1>1. Used(s) \subseteq Ids /\ -1 \in S /\ S \subseteq Int /\ S # {}
  <2>1. Used(s) \subseteq Ids /\ -1 \in Int
    BY SMTT(30) DEF Used
  <2>2. \A x \in Ids : x \in Int
    BY IdsFacts, SMTT(30)
  <2>3. S \subseteq Int
    BY <2>1, <2>2
  <2> QED
    BY <2>1, <2>3
<1>2. \A x \in S : x <= Cardinality(Rows)
  BY IdsFacts, SMTT(30) DEF Used
<1>3. Cardinality(Rows) \in Int
  BY IdsFacts, SMTT(30)
<1>4. Max(S) \in S /\ \A x \in S : x <= Max(S)
  <2> HIDE DEF S
  <2> QED
    BY <1>1, <1>2, <1>3, MaxOfIntegers
<1>5. NextId(s) = Max(S) + 1
  BY DEF NextId
<1> DEFINE m == Max(S)
<1>6. m \in Int /\ m >= -1 /\ m < Cardinality(Rows)
  <2>1. m # Cardinality(Rows)
    BY <1>4, LastIdIsFree, IdsFacts, SMTT(30)
  <2> QED
    BY <2>1, <1>1, <1>2, <1>4, IdsFacts, SMTT(30)
<1>7. ASSUME NEW i \in Ids PROVE i \in Used(s) <=> i < m + 1
  <2>1. i \in Used(s) => i <= m
    BY <1>4
  <2>2. ASSUME i <= m PROVE i \in Used(s)
    <3>1. m \in Used(s)
      BY <2>2, <1>4, <1>6, IdsFacts, SMTT(30)
    <3> QED
      BY <3>1, <2>2 DEF Whole
  <2> HIDE DEF m
  <2> QED
    BY <2>1, <2>2, <1>6, IdsFacts, SMTT(30)
<1>8. m + 1 \in Ids
  <2> HIDE DEF m
  <2> QED
    BY <1>6, IdsFacts, SMTT(30) DEF Ids
<1>9. NextId(s) = m + 1
  BY <1>5
<1> HIDE DEF m
<1> QED
  BY <1>7, <1>8, <1>9

(* The conditions of a batch compare what was read and the first id behind *)
(* it; they pin the whole table.                                           *)
LEMMA UnchangedIsSame ==
    ASSUME NEW d \in Dbs, NEW s, NEW written, Whole(s), Whole(seg[d]), Unchanged(d, s, written)
    PROVE  \A i \in Ids : seg[d][i] = s[i]
<1> SUFFICES ASSUME NEW i \in Ids PROVE seg[d][i] = s[i]
  OBVIOUS
<1>1. NextId(s) \in Ids /\ \A k \in Ids : k \in Used(s) <=> k < NextId(s)
  BY NextIdFacts
<1>2. CASE i \in Used(s)
  BY <1>2 DEF Unchanged
<1>3. CASE i \notin Used(s)
  <2>1. NextId(s) <= i /\ NextId(s) \notin Used(s)
    <3>1. NextId(s) \in Nat /\ i \in Nat
      BY <1>1, IdsFacts
    <3>2. ~(i < NextId(s)) /\ ~(NextId(s) < NextId(s))
      BY <1>1, <1>3, <3>1, SMTT(30)
    <3> QED
      BY <1>1, <3>1, <3>2, SMTT(30)
  <2>2. seg[d][NextId(s)] = None
    BY <2>1, <1>1 DEF Unchanged, Used
  <2>3. i \notin Used(seg[d])
    BY <2>1, <2>2, <1>1 DEF Whole, Used
  <2> QED
    BY <1>3, <2>3 DEF Used
<1> QED
  BY <1>2, <1>3

(* Tables that agree segment by segment agree in all that is said of them. *)
LEMMA SameFacts ==
    ASSUME NEW s, NEW c, \A i \in Ids : s[i] = c[i]
    PROVE  Used(s) = Used(c) /\ RowsOf(s) = RowsOf(c)
<1>1. Used(s) = Used(c)
  BY DEF Used
<1> QED
  BY <1>1 DEF RowsOf, Used

(* A row that is in no segment, put into the last or the next one.         *)
LEMMA PutFacts ==
    ASSUME NEW s, Whole(s), NEW r \in Rows, r \notin RowsOf(s),
           NEW k \in Ids, \A j \in Ids : j < k => j \in Used(s),
           NEW rows, rows = (IF k \in Used(s) THEN Content(s[k]) ELSE {}) \cup {r},
           NEW new, DOMAIN new = Ids, new[k] = Local(rows), \A i \in Ids \ {k} : new[i] = s[i]
    PROVE  Whole(new) /\ RowsOf(new) = RowsOf(s) \cup {r}
<1>1. \A i \in Used(s) : s[i] \in Segments /\ Content(s[i]) \in SUBSET Rows /\ i \in Ids
  BY SegmentFacts DEF Whole, Used
<1>2. rows \in SUBSET Rows /\ rows # {} /\ r \in rows
  BY <1>1
<1>3. Local(rows) \in Segments /\ Local(rows) # None /\ Content(Local(rows)) = rows
  BY <1>2, LocalFacts
<1>4. Used(new) = Used(s) \cup {k}
  BY <1>3 DEF Used
<1>5. \A i \in Ids : new[i] \in Segments \cup {None}
  BY <1>3 DEF Whole
<1>6. ASSUME NEW i \in Used(new), NEW j \in Ids, j <= i PROVE j \in Used(new)
  <2>1. CASE i = k
    <3>1. j < k \/ j = k
      BY <2>1, <1>6, IdsFacts, SMTT(30)
    <3> QED
      BY <3>1, <1>4
  <2>2. CASE i # k
    BY <2>2, <1>4, <1>6 DEF Whole
  <2> QED
    BY <2>1, <2>2
<1>7. \A i \in Used(s) : r \notin Content(s[i])
  BY DEF RowsOf
<1>8. ASSUME NEW i \in Used(s), i # k PROVE Content(new[i]) = Content(s[i]) /\ Content(s[i]) \cap rows = {}
  <2>1. k \in Used(s) => Content(s[i]) \cap Content(s[k]) = {}
    BY <1>8 DEF Whole
  <2>2. new[i] = s[i]
    BY <1>1, <1>8
  <2> QED
    BY <2>1, <2>2, <1>7
<1>9. Content(new[k]) = rows
  BY <1>3
<1>10. ASSUME NEW i \in Used(new), NEW j \in Used(new), i # j
       PROVE  Content(new[i]) \cap Content(new[j]) = {}
  <2>1. CASE i # k /\ j # k
    BY <2>1, <1>4, <1>8, <1>10 DEF Whole
  <2>2. CASE i = k \/ j = k
    BY <2>2, <1>4, <1>8, <1>9, <1>10
  <2> QED
    BY <2>1, <2>2
<1>11. Whole(new)
  BY <1>5, <1>6, <1>10 DEF Whole
<1>12. ASSUME NEW x PROVE x \in RowsOf(new) <=> x \in RowsOf(s) \cup {r}
  <2>1. x \in RowsOf(new) <=> \E i \in Used(new) : x \in Content(new[i])
    BY DEF RowsOf
  <2>2. x \in RowsOf(s) <=> \E i \in Used(s) : x \in Content(s[i])
    BY DEF RowsOf
  <2>3. (\E i \in Used(new) : x \in Content(new[i]))
           <=> x \in rows \/ \E i \in Used(s) : i # k /\ x \in Content(s[i])
    BY <1>4, <1>8, <1>9
  <2> QED
    BY <2>1, <2>2, <2>3
<1> QED
  BY <1>11, <1>12

(* What an insert leaves when nothing has changed since it read.           *)
LEMMA AppendFacts ==
    ASSUME NEW s, Whole(s), NEW r \in Rows, r \notin RowsOf(s),
           NEW ops, ops = columnar_append_ops(s, r),
           NEW new, new = [i \in Ids |-> IF i \in DOMAIN ops THEN ops[i] ELSE s[i]]
    PROVE  /\ Whole(new) /\ RowsOf(new) = RowsOf(s) \cup {r}
           /\ \A i \in Ids : i \in DOMAIN ops /\ ops[i] # s[i] => ops[i].at = "local"
<1> DEFINE next == NextId(s)
           last == next - 1
<1>1. next \in Ids /\ \A i \in Ids : i \in Used(s) <=> i < next
  BY NextIdFacts
<1>2. next \in Nat /\ Ids \subseteq Nat
  BY <1>1, IdsFacts
<1> HIDE DEF next
<1>8. last # -1 => last \in Ids /\ last < next /\ last + 1 = next
  <2>1. last + 1 = next /\ last < next /\ (last # -1 => last \in Nat)
    BY <1>2, SMTT(30)
  <2>2. next <= Cardinality(Rows) /\ Cardinality(Rows) \in Nat
    BY <1>1, IdsFacts, SMTT(15)
  <2> QED
    BY <1>2, <2>1, <2>2, SMTT(30) DEF Ids
<1>3. {r} \in SUBSET Rows /\ {r} # {}
  OBVIOUS
<1>4. Local({r}).at = "local"
  BY <1>3, LocalFacts
<1>5. CASE last = -1
  <2>1. next = 0
    BY <1>2, <1>5, SMTT(30)
  <2>2. ops = [i \in {0} |-> Local({r})]
    BY <1>5 DEF columnar_append_ops, next
  <2>3. DOMAIN new = Ids /\ new[0] = Local({r}) /\ \A i \in Ids \ {0} : new[i] = s[i]
    BY <2>1, <2>2, <1>1
  <2>4. 0 \in Ids /\ 0 \notin Used(s) /\ \A j \in Ids : j < 0 => j \in Used(s)
    BY <2>1, <1>1, <1>2, SMTT(30)
  <2>5. Whole(new) /\ RowsOf(new) = RowsOf(s) \cup {r}
    <3>1. {r} = (IF 0 \in Used(s) THEN Content(s[0]) ELSE {}) \cup {r}
      BY <2>4
    <3> QED
      BY <2>3, <2>4, <3>1, PutFacts, SMTT(30)
  <2> QED
    BY <2>2, <2>5, <1>4
<1>6. CASE last # -1 /\ Cardinality(Content(s[last])) < SegmentRows
  <2> DEFINE rows == Content(s[last]) \cup {r}
  <2>1. last \in Ids /\ last < next
    <3> HIDE DEF last
    <3> QED
      BY <1>6, <1>8
  <2>2. ops = [i \in {last} |-> Local(rows)]
    BY <1>6 DEF columnar_append_ops, next
  <2>3. DOMAIN new = Ids /\ new[last] = Local(rows) /\ \A i \in Ids \ {last} : new[i] = s[i]
    BY <2>1, <2>2
  <2>4. last \in Used(s) /\ \A j \in Ids : j < last => j \in Used(s)
    BY <2>1, <1>1, <1>2, SMTT(30)
  <2>5. Whole(new) /\ RowsOf(new) = RowsOf(s) \cup {r}
    <3>1. rows = (IF last \in Used(s) THEN Content(s[last]) ELSE {}) \cup {r}
      BY <2>4
    <3> HIDE DEF last, rows
    <3> QED
      BY <2>1, <2>3, <2>4, <3>1, PutFacts, SMTT(30)
  <2>6. Local(rows).at = "local"
    BY DEF Local
  <2> QED
    BY <2>2, <2>5, <2>6
<1>7. CASE last # -1 /\ ~(Cardinality(Content(s[last])) < SegmentRows)
  <2>1. last \in Ids /\ last < next /\ last + 1 = next
    <3> HIDE DEF last
    <3> QED
      BY <1>7, <1>8
  <2>2. ops = [i \in {last, last + 1} |-> IF i = last THEN s[last] ELSE Local({r})]
    BY <1>7 DEF columnar_append_ops, next
  <2>6. ops = [i \in {last, next} |-> IF i = last THEN s[last] ELSE Local({r})] /\ next # last
    <3>1. next # last
      BY <1>2, SMTT(30)
    <3> HIDE DEF last
    <3> QED
      BY <2>1, <2>2, <3>1
  <2>3. DOMAIN new = Ids /\ new[next] = Local({r}) /\ \A i \in Ids \ {next} : new[i] = s[i]
    <3> HIDE DEF last
    <3> QED
      BY ZenonT(40), <2>1, <2>6, <1>1
  <2>4. next \notin Used(s) /\ \A j \in Ids : j < next => j \in Used(s)
    BY <1>1, <1>2, SMTT(30)
  <2>5. Whole(new) /\ RowsOf(new) = RowsOf(s) \cup {r}
    <3>1. {r} = (IF next \in Used(s) THEN Content(s[next]) ELSE {}) \cup {r}
      BY <2>4
    <3> QED
      BY <1>1, <2>3, <2>4, <3>1, PutFacts, SMTT(30)
  <2> QED
    BY SMTT(30), <2>1, <2>2, <2>5, <1>4
<1> QED
  BY <1>5, <1>6, <1>7

(* Division puts a number into the interval of its quotient.               *)
LEMMA Quotient ==
    ASSUME NEW a \in Nat, NEW q \in Nat
    PROVE  /\ a \div SegmentRows \in Nat
           /\ a \div SegmentRows <= a
           /\ a >= q * SegmentRows <=> a \div SegmentRows >= q
           /\ a = q * SegmentRows => a \div SegmentRows = q
<1> DEFINE n == SegmentRows
<1>1. n \in Nat /\ n > 0
  BY SegmentRowsAssumption, SMTT(30)
<1> HIDE DEF n
<1> DEFINE k == a \div n
<1>2. k \in Int /\ n * k <= a /\ a < n * (k + 1)
  BY <1>1, SMTT(30)
<1> HIDE DEF k
<1>3. k \in Nat
  BY <1>1, <1>2, SMTT(30)
<1>4. k <= a
  BY <1>1, <1>2, <1>3, SMTT(30)
<1>5. a >= q * n <=> k >= q
  <2>1. ASSUME k >= q PROVE a >= q * n
    BY <2>1, <1>1, <1>2, <1>3, SMTT(30)
  <2>2. ASSUME ~(k >= q) PROVE a < q * n
    <3>1. k + 1 <= q
      BY <2>2, <1>3, SMTT(30)
    <3>2. n * (k + 1) <= n * q
      BY <3>1, <1>1, <1>3, SMTT(30)
    <3> QED
      BY <3>2, <1>1, <1>2, <1>3, SMTT(30)
  <2>3. q * n \in Nat
    BY <1>1, SMTT(30)
  <2> QED
    BY <2>1, <2>2, <2>3, SMTT(30)
<1>6. a = q * n => k = q
  <2>1. ASSUME a = q * n PROVE k = q
    <3>1. k >= q
      BY <2>1, <1>1, <1>5, SMTT(30)
    <3>2. ~(k >= q + 1)
      <4> SUFFICES ASSUME k >= q + 1 PROVE FALSE
        OBVIOUS
      <4>1. n * k >= n * (q + 1)
        BY <1>1, <1>3, SMTT(30)
      <4> QED
        BY <4>1, <2>1, <1>1, <1>2, <1>3, SMTT(30)
    <3> QED
      BY <3>1, <3>2, <1>3, SMTT(30)
  <2> QED
    BY <2>1
<1> QED
  BY <1>3, <1>4, <1>5, <1>6 DEF k, n

(* How many of the rows come before r.                                     *)
Rank(rows, r) == Cardinality({x \in rows : x < r})

LEMMA RankFacts ==
    ASSUME NEW rows \in SUBSET Rows, NEW r
    PROVE  /\ IsFiniteSet({x \in rows : x < r})
           /\ Rank(rows, r) \in Nat /\ Rank(rows, r) <= Cardinality(Rows)
<1> DEFINE B == {x \in rows : x < r}
<1>1. B \in SUBSET Rows
  OBVIOUS
<1> HIDE DEF B
<1>2. IsFiniteSet(B) /\ Cardinality(B) <= Cardinality(Rows)
  BY <1>1, RowsAssumption, FS_Subset
<1>3. Cardinality(B) \in Nat
  BY <1>2, FS_CardinalityType
<1> QED
  BY <1>2, <1>3 DEF B, Rank

(* No rank is left out below that of a row: the first row with at least n  *)
(* before it has n, as its predecessor has fewer.                          *)
LEMMA RanksAreDense ==
    ASSUME NEW rows \in SUBSET Rows, NEW r \in rows, NEW n \in Nat, n <= Rank(rows, r)
    PROVE  \E m \in rows : Rank(rows, m) = n
<1>1. rows \subseteq Nat
  BY RowsAssumption
<1>2. \A x \in rows : Rank(rows, x) \in Nat
  BY RankFacts
<1> DEFINE D == {x \in rows : Rank(rows, x) >= n}
<1>3. r \in D
  BY <1>2
<1>4. PICK m \in D : \A x \in D : m <= x
  <2>1. D \subseteq Nat /\ D # {}
    BY <1>1, <1>3
  <2> HIDE DEF D
  <2> QED
    BY <2>1, LeastNatural
<1> DEFINE B == {x \in rows : x < m}
<1>5. IsFiniteSet(B) /\ Rank(rows, m) = Cardinality(B)
  BY RankFacts DEF Rank
<1>6. CASE Rank(rows, m) = n
  BY <1>4, <1>6
<1>7. CASE Rank(rows, m) > n
  <2>1. B # {}
    <3>1. Cardinality(B) # 0
      BY <1>2, <1>4, <1>5, <1>7, SMTT(30)
    <3> HIDE DEF B
    <3> QED
      BY <3>1, FS_EmptySet
  <2>2. B \subseteq Nat
    BY <1>1
  <2> DEFINE p == Max(B)
  <2>3. p \in B /\ \A x \in B : x <= p
    <3> HIDE DEF B
    <3> QED
      BY <1>5, <2>1, <2>2, MaxOfFinite
  <2> HIDE DEF p
  <2>4. p \in rows /\ p < m /\ p \in Nat /\ m \in Nat
    BY <2>2, <2>3, <1>1, <1>4
  <2> DEFINE C == {x \in rows : x < p}
  <2>5. B = C \cup {p} /\ p \notin C
    <3>1. ASSUME NEW x \in rows PROVE x < m <=> x < p \/ x = p
      <4>1. x \in Nat
        BY <1>1
      <4>2. x < m => x <= p
        BY <2>3
      <4> QED
        BY <4>1, <4>2, <2>4, SMTT(30)
    <3>2. ~(p < p)
      BY <2>4, SMTT(30)
    <3> QED
      BY <3>1, <3>2, <2>4
  <2>6. IsFiniteSet(C) /\ Rank(rows, p) = Cardinality(C)
    BY RankFacts DEF Rank
  <2>7. Cardinality(B) = Cardinality(C) + 1
    <3> HIDE DEF B, C
    <3> QED
      BY SMTT(30), <2>5, <2>6, FS_AddElement
  <2>8. Rank(rows, p) >= n
    BY <2>4, <2>6, <2>7, <1>2, <1>4, <1>5, <1>7, SMTT(30)
  <2> QED
    BY <2>4, <2>8, <1>4, SMTT(30)
<1> QED
  BY <1>2, <1>4, <1>6, <1>7, SMTT(30)

(* Chunking the rows anew makes a table of exactly these rows.             *)
LEMMA ChunksFacts ==
    ASSUME NEW rows \in SUBSET Rows
    PROVE  /\ Whole(Chunks(rows)) /\ RowsOf(Chunks(rows)) = rows
           /\ \A i \in Used(Chunks(rows)) : Chunks(rows)[i].at = "local"
<1> DEFINE s == Chunks(rows)
<1>1. \A r \in rows : Rank(rows, r) \in Nat /\ Rank(rows, r) <= Cardinality(Rows)
  BY RankFacts
<1>2. \A i : Chunk(rows, i) = {r \in rows : Rank(rows, r) \div SegmentRows = i}
  BY DEF Chunk, Rank
<1>3. \A r \in rows : Rank(rows, r) \div SegmentRows \in Ids
  <2> SUFFICES ASSUME NEW r \in rows PROVE Rank(rows, r) \div SegmentRows \in Ids
    OBVIOUS
  <2> DEFINE a == Rank(rows, r)
             b == a \div SegmentRows
  <2>1. a \in Nat /\ a <= Cardinality(Rows)
    BY <1>1
  <2>2. b \in Nat /\ b <= a
    <3> HIDE DEF a
    <3> QED
      BY <2>1, Quotient
  <2> HIDE DEF a, b
  <2>3. b \in Ids
    BY <2>1, <2>2, IdsFacts, SMTT(30) DEF Ids
  <2> QED
    BY <2>3 DEF a, b
<1>4. DOMAIN s = Ids /\ \A i \in Ids : s[i] = IF Chunk(rows, i) = {} THEN None ELSE Local(Chunk(rows, i))
  BY DEF Chunks
<1>5. \A i \in Ids : Chunk(rows, i) \in SUBSET Rows
  BY <1>2
<1>6. \A i \in Ids : Chunk(rows, i) # {} => /\ Local(Chunk(rows, i)) \in Segments
                                           /\ Local(Chunk(rows, i)) # None
                                           /\ Content(Local(Chunk(rows, i))) = Chunk(rows, i)
                                           /\ Local(Chunk(rows, i)).at = "local"
  BY <1>5, LocalFacts
<1> HIDE DEF s
<1>7. \A i \in Ids : i \in Used(s) <=> Chunk(rows, i) # {}
  BY <1>4, <1>6 DEF Used
<1>8. \A i \in Used(s) : i \in Ids /\ Content(s[i]) = Chunk(rows, i) /\ s[i].at = "local"
  BY <1>4, <1>6, <1>7 DEF Used
<1>9. \A i \in Ids : s[i] \in Segments \cup {None}
  BY <1>4, <1>6
<1>10. ASSUME NEW i \in Used(s), NEW j \in Ids, j <= i PROVE j \in Used(s)
  <2>1. PICK r \in rows : Rank(rows, r) \div SegmentRows = i
    BY <1>2, <1>7, <1>8, SMTT(30)
  <2>2. i \in Nat /\ j \in Nat /\ SegmentRows \in Nat
    BY <1>8, IdsFacts, SegmentRowsAssumption
  <2> DEFINE n == j * SegmentRows
  <2>3. n \in Nat
    BY <2>2, SMTT(30)
  <2>4. n <= Rank(rows, r)
    <3> DEFINE a == Rank(rows, r)
    <3>1. a \in Nat
      BY <1>1
    <3>2. a \div SegmentRows >= j
      BY <2>1, <2>2, <1>10
    <3> HIDE DEF a
    <3>3. a >= j * SegmentRows
      BY <3>1, <3>2, <2>2, Quotient
    <3>4. n <= a
      BY <3>1, <3>3, <2>3
    <3> QED
      BY <3>4 DEF a
  <2>5. PICK m \in rows : Rank(rows, m) = n
    <3> HIDE DEF n
    <3> QED
      BY <2>3, <2>4, RanksAreDense
  <2>6. Rank(rows, m) \div SegmentRows = j
    BY <2>2, <2>3, <2>5, Quotient
  <2>7. m \in Chunk(rows, j)
    BY <2>6, <1>2
  <2> QED
    BY <2>7, <1>7
<1>11. ASSUME NEW i \in Used(s), NEW j \in Used(s), i # j PROVE Content(s[i]) \cap Content(s[j]) = {}
  BY <1>2, <1>8, <1>11, SMTT(30)
<1>12. RowsOf(s) = rows
  <2>1. ASSUME NEW x \in RowsOf(s) PROVE x \in rows
    BY <1>2, <1>8, SMTT(30) DEF RowsOf
  <2>2. ASSUME NEW x \in rows PROVE x \in RowsOf(s)
    <3>1. PICK i \in Ids : Rank(rows, x) \div SegmentRows = i
      BY <1>3
    <3>2. x \in Chunk(rows, i)
      BY <3>1, <1>2
    <3> QED
      BY <3>2, <1>7, <1>8 DEF RowsOf
  <2> QED
    BY <2>1, <2>2
<1>13. Whole(s)
  BY <1>4, <1>9, <1>10, <1>11 DEF Whole
<1> QED
  BY <1>8, <1>12, <1>13 DEF s

(* What an update or a delete leaves when nothing has changed since it     *)
(* read: the chunks of its rows, and no segment of before.                 *)
LEMMA RewriteFacts ==
    ASSUME NEW s, Whole(s), NEW rows \in SUBSET Rows,
           NEW ops, ops = columnar_rewrite_ops(s, rows),
           NEW new, new = [i \in Ids |-> IF i \in DOMAIN ops THEN ops[i] ELSE s[i]]
    PROVE  /\ Whole(new) /\ RowsOf(new) = rows
           /\ \A i \in Ids : i \in DOMAIN ops /\ ops[i] # None => ops[i].at = "local"
<1> DEFINE c == Chunks(rows)
<1>1. Whole(c) /\ RowsOf(c) = rows /\ \A i \in Used(c) : c[i].at = "local"
  BY ChunksFacts
<1>2. DOMAIN ops = Used(s) \cup Used(c) /\ \A i \in Used(s) \cup Used(c) : ops[i] = c[i]
  BY DEF columnar_rewrite_ops
<1>3. c = [i \in Ids |-> c[i]]
  BY DEF Chunks
<1> HIDE DEF c
<1>4. ASSUME NEW i \in Ids PROVE new[i] = c[i]
  <2>1. CASE i \in DOMAIN ops
    BY <2>1, <1>2
  <2>2. CASE i \notin DOMAIN ops
    BY <2>2, <1>2 DEF Used
  <2> QED
    BY <2>1, <2>2
<1>5. new = c
  BY <1>3, <1>4
<1>6. \A i \in Ids : i \in DOMAIN ops /\ ops[i] # None => ops[i].at = "local"
  BY <1>1, <1>2 DEF Used
<1> QED
  BY <1>1, <1>5, <1>6

(* The batch of a statement turns the rows it has read into those it       *)
(* leaves, and the segments it changes are local.                          *)
LEMMA BatchFacts ==
    ASSUME NEW s, Whole(s), NEW r \in Rows, NEW call, call = "insert" => r \notin RowsOf(s),
           NEW ops, ops = IF call = "insert" THEN columnar_append_ops(s, r)
                          ELSE columnar_rewrite_ops(s, Changed(call, RowsOf(s), r)),
           NEW new, new = [i \in Ids |-> IF i \in DOMAIN ops THEN ops[i] ELSE s[i]]
    PROVE  /\ Whole(new) /\ RowsOf(new) = Changed(call, RowsOf(s), r)
           /\ \A i \in Used(new) :
                 IF i \in DOMAIN ops /\ ops[i] # s[i] THEN new[i] = ops[i] /\ new[i].at = "local"
                 ELSE new[i] = s[i] /\ i \in Used(s)
<1>1. \A i \in Used(new) : i \in Ids /\ new[i] # None /\ new[i] = IF i \in DOMAIN ops THEN ops[i] ELSE s[i]
  BY DEF Used
<1>2. CASE call = "insert"
  <2>1. ops = columnar_append_ops(s, r) /\ Changed(call, RowsOf(s), r) = RowsOf(s) \cup {r}
    BY <1>2 DEF Changed
  <2>2. /\ Whole(new) /\ RowsOf(new) = RowsOf(s) \cup {r}
        /\ \A i \in Ids : i \in DOMAIN ops /\ ops[i] # s[i] => ops[i].at = "local"
    BY <1>2, <2>1, AppendFacts, SMTT(30)
  <2> QED
    BY <1>1, <2>1, <2>2, SMTT(30) DEF Used
<1>3. CASE call # "insert"
  <2> DEFINE rows == Changed(call, RowsOf(s), r)
  <2>1. ops = columnar_rewrite_ops(s, rows)
    BY <1>3
  <2>2. rows \in SUBSET Rows
    <3>1. \A i \in Used(s) : Content(s[i]) \in SUBSET Rows
      BY SegmentFacts DEF Whole, Used
    <3>2. RowsOf(s) \in SUBSET Rows
      BY <3>1 DEF RowsOf
    <3> QED
      BY <3>2 DEF Changed
  <2> HIDE DEF rows
  <2>3. /\ Whole(new) /\ RowsOf(new) = rows
        /\ \A i \in Ids : i \in DOMAIN ops /\ ops[i] # None => ops[i].at = "local"
    BY <2>1, <2>2, RewriteFacts, SMTT(30)
  <2> QED
    BY <1>1, <2>3 DEF Used, rows
<1> QED
  BY <1>2, <1>3

(* The zone map of a segment spans its rows.                               *)
LEMMA ZoneFacts ==
    ASSUME NEW v \in Segments, v.at = "local"
    PROVE  \A r \in Content(v) : ZoneOf(v).min <= r /\ r <= ZoneOf(v).max
<1> DEFINE rows == v.rows
<1>1. rows = Content(v) /\ rows \in SUBSET Rows /\ rows # {} /\ v # None
  BY SegmentFacts
<1>2. rows \subseteq Nat /\ IsFiniteSet(rows)
  BY <1>1, RowsAssumption, FS_Subset
<1>3. ZoneOf(v).min = Min(rows) /\ ZoneOf(v).max = Max(rows)
  BY <1>1 DEF ZoneOf
<1> HIDE DEF rows
<1>4. \A r \in rows : Min(rows) <= r
  BY <1>1, <1>2, MinOfNaturals
<1>5. \A r \in rows : r <= Max(rows)
  BY <1>1, <1>2, MaxOfFinite
<1> QED
  BY <1>1, <1>3, <1>4, <1>5

(* A backup has the contents of the table, without pointers.               *)
LEMMA InlinedFacts ==
    ASSUME NEW s, Whole(s)
    PROVE  /\ Whole(Inlined(s)) /\ RowsOf(Inlined(s)) = RowsOf(s) /\ Used(Inlined(s)) = Used(s)
           /\ \A i \in Used(s) : Inlined(s)[i].at = "local" /\ Content(Inlined(s)[i]) = Content(s[i])
<1> DEFINE c == Inlined(s)
<1>1. DOMAIN c = Ids /\ \A i \in Ids : c[i] = IF s[i] = None THEN None ELSE Local(Content(s[i]))
  BY DEF Inlined
<1> HIDE DEF c
<1>2. ASSUME NEW i \in Used(s)
      PROVE  /\ i \in Ids /\ c[i] \in Segments /\ c[i] # None
             /\ c[i].at = "local" /\ Content(c[i]) = Content(s[i])
  <2>1. i \in Ids /\ s[i] # None /\ s[i] \in Segments
    BY DEF Whole, Used
  <2>2. Content(s[i]) \in SUBSET Rows /\ Content(s[i]) # {}
    BY <2>1, SegmentFacts
  <2>3. c[i] = Local(Content(s[i]))
    BY <2>1, <1>1
  <2> QED
    BY <2>1, <2>2, <2>3, LocalFacts
<1>3. Used(c) = Used(s)
  BY <1>1, <1>2 DEF Used
<1>4. RowsOf(c) = RowsOf(s)
  BY <1>2, <1>3 DEF RowsOf
<1>5. Whole(c)
  <2>1. \A i \in Ids : c[i] \in Segments \cup {None}
    BY <1>1, <1>2 DEF Used
  <2> QED
    BY <2>1, <1>1, <1>2, <1>3 DEF Whole
<1> QED
  BY <1>2, <1>3, <1>4, <1>5 DEF c

-----------------------------------------------------------------------------
(* Leases.                                                                 *)

LEMMA IdleFacts ==
    /\ DOMAIN Idle = Fields /\ Idle.pc = "idle" /\ Idle.lease = None /\ Idle.id = 0
    /\ Idle.pc \notin HoldPcs /\ Idle.next \notin HoldPcs
  BY DEF Idle, Fields, HoldPcs

LEMMA FieldsFacts ==
    Fields = {"call", "pc", "row", "snap", "zones", "lsn", "tries", "rows", "res", "meta", "id",
              "ptr", "record", "next", "lease", "backup"}
  BY DEF Idle, Fields

(* The local state with which t ends a step that does not acquire a lease. *)
Quiet(t, v) ==
    /\ DOMAIN v = Fields /\ v.next \notin HoldPcs
    /\ \/ v.pc \notin HoldPcs /\ v.lease = None
       \/ v.pc \in HoldPcs /\ Holds(t) /\ v.lease = th[t].lease

Live(u) == th[u].lease # None /\ th[u].lease.expires > now /\ th[u].lease.id \notin broken

(* A step of t that leaves alone the file of every other live lease.       *)
LEMMA QuietKeepsLeases ==
    ASSUME LeaseInv, NEW t \in Threads, NEW v, Goes(t, v), Quiet(t, v),
           start' = start, now' = now, leases' = leases, broken' = broken,
           lease' \in LeaseFile \cup {None},
           \A u \in Threads : (u # t \/ v.pc \in HoldPcs) /\ Live(u) => lease' = lease
    PROVE  LeaseInv'
<1>1. DOMAIN th = Threads /\ DOMAIN th' = Threads /\ th'[t] = v
      /\ \A u \in Threads : u # t => th'[u] = th[u]
  BY DEF LeaseInv, Goes
<1>2. ASSUME NEW u \in Threads
      PROVE  /\ DOMAIN th'[u] = Fields /\ th'[u].next \notin HoldPcs
             /\ Holds(u)' => Holds(u) /\ th'[u].lease = th[u].lease
             /\ ~Holds(u)' => th'[u].lease = None
  BY <1>1 DEF LeaseInv, Quiet, Holds
<1>3. ASSUME NEW u \in Threads
      PROVE  /\ DOMAIN th'[u] = Fields /\ th'[u].next \notin HoldPcs
             /\ IF Holds(u)' THEN th'[u].lease \in LeaseFile /\ th'[u].lease.id <= leases'
                ELSE th'[u].lease = None
  BY <1>2 DEF LeaseInv
<1>4. ASSUME NEW u \in Threads, NEW w \in Threads, u # w, Holds(u)', Holds(w)'
      PROVE  th'[u].lease.id # th'[w].lease.id
  BY <1>2, <1>4, SMTT(30) DEF LeaseInv
<1>5. LiveLeaseHolds'
  <2> SUFFICES ASSUME NEW u \in Threads, th'[u].lease # None, th'[u].lease.expires > now,
                      th'[u].lease.id \notin broken
               PROVE  lease' = th'[u].lease
    BY DEF LiveLeaseHolds
  <2>1. Holds(u)' /\ th'[u].lease = th[u].lease
    BY <1>2
  <2>2. Live(u) /\ lease = th[u].lease
    BY <2>1 DEF Live, LeaseInv, LiveLeaseHolds
  <2>3. u # t \/ v.pc \in HoldPcs
    BY <2>1, <1>1 DEF Holds
  <2> QED
    BY <2>1, <2>2, <2>3
<1>6. start' \in Starts /\ now' \in Nat /\ leases' \in Nat /\ lease' \in LeaseFile \cup {None}
  BY DEF LeaseInv
<1> QED
  BY <1>1, <1>3, <1>4, <1>5, <1>6 DEF LeaseInv

(* No step of a writer, a scan or a tiering run touches leases.            *)
LEMMA TableStepIsQuiet ==
    ASSUME LeaseInv, NEW t \in Threads, TableStep(t)
    PROVE  \E v : Goes(t, v) /\ Quiet(t, v) /\ start' = start
<1> USE IdleFacts, FieldsFacts
<1>1. DOMAIN th[t] = Fields /\ th[t].next \notin HoldPcs /\ (~Holds(t) => th[t].lease = None)
  BY DEF LeaseInv
<1> DEFINE Fits(v) == Goes(t, v) /\ Quiet(t, v)
<1>2. ASSUME NEW call, WriteStart(t, call) PROVE \E v : Fits(v) /\ start' = start
  <2>1. PICK r : Goes(t, [Idle EXCEPT !.call = call, !.pc = "read", !.row = r])
    BY <1>2 DEF WriteStart
  <2>2. Quiet(t, [Idle EXCEPT !.call = call, !.pc = "read", !.row = r])
    BY DEF Quiet, HoldPcs
  <2> QED
    BY <1>2, <2>1, <2>2 DEF WriteStart
<1>3. CASE ReadSegments(t)
  <2>1. Quiet(t, [th[t] EXCEPT !.pc = "write", !.snap = seg[Db(t)]])
    BY <1>1, <1>3 DEF Quiet, HoldPcs, Holds, ReadSegments, At
  <2> QED
    BY <1>3, <2>1 DEF ReadSegments
<1>4. Quiet(t, Idle)
  BY DEF Quiet
<1>5. CASE WriteEnds(t) \/ TierEnd(t) \/ Fail(t)
  BY <1>4, <1>5 DEF WriteEnds, TierEnd, Fail, Stops
<1>6. CASE WriteBatch(t)
  <2>1. Quiet(t, [th[t] EXCEPT !.pc = "read"])
    BY <1>1, <1>6 DEF Quiet, HoldPcs, Holds, WriteBatch, At
  <2> QED
    BY <1>4, <1>6, <2>1 DEF WriteBatch, Stops
<1>7. CASE ScanStart(t)
  <2>1. PICK r : Goes(t, [Idle EXCEPT !.call = "scan", !.pc = "lsn", !.row = r])
    BY <1>7 DEF ScanStart
  <2>2. Quiet(t, [Idle EXCEPT !.call = "scan", !.pc = "lsn", !.row = r])
    BY DEF Quiet, HoldPcs
  <2> QED
    BY <1>7, <2>1, <2>2 DEF ScanStart
<1>8. CASE ScanLsn(t)
  <2>1. Quiet(t, [th[t] EXCEPT !.pc = "segments", !.lsn = lsn[Db(t)], !.tries = @ + 1])
    BY <1>1, <1>8 DEF Quiet, HoldPcs, Holds, ScanLsn, At
  <2> QED
    BY <1>8, <2>1 DEF ScanLsn
<1>9. CASE ScanSegments(t)
  <2>1. Quiet(t, [th[t] EXCEPT !.pc = "zones", !.snap = seg[Db(t)], !.rows = table[Db(t)]])
    BY <1>1, <1>9 DEF Quiet, HoldPcs, Holds, ScanSegments, At
  <2> QED
    BY <1>9, <2>1 DEF ScanSegments
<1>10. CASE ScanZones(t)
  <2>1. Quiet(t, [th[t] EXCEPT !.pc = "check", !.zones = zone[Db(t)]])
    BY <1>1, <1>10 DEF Quiet, HoldPcs, Holds, ScanZones, At
  <2> QED
    BY <1>10, <2>1 DEF ScanZones
<1>11. ASSUME NEW zones, Scanned(t, zones) PROVE \E v : Fits(v)
  <2> DEFINE res == Found(t, zones)
             v == [Idle EXCEPT !.call = "scan", !.pc = "done", !.row = th[t].row,
                               !.rows = th[t].rows, !.res = res]
  <2>1. Goes(t, v)
    BY <1>11 DEF Scanned
  <2> HIDE DEF res
  <2>2. Quiet(t, v)
    BY DEF Quiet, HoldPcs
  <2> QED
    BY <2>1, <2>2
<1>12. CASE ScanCheck(t)
  <2>1. Quiet(t, [th[t] EXCEPT !.pc = "lsn"])
    BY <1>1, <1>12 DEF Quiet, HoldPcs, Holds, ScanCheck, At
  <2> QED
    BY <1>11, <1>12, <2>1 DEF ScanCheck
<1>13. CASE TierStart(t)
  <2>1. Quiet(t, [Idle EXCEPT !.call = "tier", !.pc = "recover", !.meta = tier[Db(t)]])
    BY DEF Quiet, HoldPcs
  <2> QED
    BY <1>13, <2>1 DEF TierStart
<1>14. CASE RecoverNext(t)
  <2>1. th[t].pc = "recover"
    BY <1>14 DEF RecoverNext, At
  <2> DEFINE i == Min(Unfinished(t))
             m == th[t].meta[i]
             value == seg[Db(t)][i]
             self == [th[t] EXCEPT !.id = i, !.record = m, !.next = "recover"]
             there == m.path \in DOMAIN objects /\ objects[m.path] = m.checksum
             v == IF m.state = "Uploading"
                  THEN IF there THEN [self EXCEPT !.pc = "install", !.ptr = Pointer(m.path, m.checksum)]
                       ELSE [self EXCEPT !.pc = "reconcile"]
                  ELSE IF value # None /\ value.at = "local"
                       THEN [self EXCEPT !.pc = "save", !.record = Meta("Local", None, m.checksum)]
                       ELSE [th[t] EXCEPT !.id = i + 1]
  <2>2. Goes(t, v) /\ start' = start
    BY <1>14 DEF RecoverNext
  <2>3. DOMAIN v = Fields /\ v.lease = th[t].lease /\ v.next \in {"recover", th[t].next}
        /\ v.pc \in {"install", "reconcile", "save", "recover"}
    <3> HIDE DEF i, m, value, there
    <3> QED
      BY <1>1, <2>1
  <2> HIDE DEF v
  <2>4. Quiet(t, v)
    BY <1>1, <2>1, <2>3 DEF Quiet, HoldPcs, Holds
  <2> QED
    BY <2>2, <2>4
<1>15. CASE TierList(t)
  <2>1. PICK i : Goes(t, [th[t] EXCEPT !.pc = "tier", !.meta = None, !.snap = seg[Db(t)], !.id = i])
    BY <1>15 DEF TierList
  <2>2. Quiet(t, [th[t] EXCEPT !.pc = "tier", !.meta = None, !.snap = seg[Db(t)], !.id = i])
    BY <1>1, <1>15 DEF Quiet, HoldPcs, Holds, TierList, At
  <2> QED
    BY <1>15, <2>1, <2>2 DEF TierList
<1>16. CASE TierSegment(t)
  <2> DEFINE i == Min(LocalSegments(t))
             rows == th[t].snap[i].rows
             m == Meta("Uploading", Path(i, rows), rows)
             p == Pointer(Path(i, rows), rows)
             v == [th[t] EXCEPT !.pc = "upload", !.id = i, !.record = m, !.next = "tier", !.ptr = p]
  <2>1. Goes(t, v) /\ start' = start
    BY <1>16 DEF TierSegment
  <2> HIDE DEF i, m, p
  <2>2. Quiet(t, v)
    BY <1>1, <1>16 DEF Quiet, HoldPcs, Holds, TierSegment, At
  <2> QED
    BY <2>1, <2>2
<1>17. CASE Upload(t)
  <2>1. Quiet(t, [th[t] EXCEPT !.pc = "install"])
    BY <1>1, <1>17 DEF Quiet, HoldPcs, Holds, Upload, At
  <2> QED
    BY <1>17, <2>1 DEF Upload
<1>18. CASE Install(t)
  <2>1. Quiet(t, [th[t] EXCEPT !.pc = "finish"]) /\ Quiet(t, [th[t] EXCEPT !.pc = "reread"])
    BY <1>1, <1>18 DEF Quiet, HoldPcs, Holds, Install, At
  <2> QED
    BY <1>18, <2>1 DEF Install
<1>19. CASE Reread(t)
  <2> DEFINE pc == IF seg[Db(t)][th[t].id] = th[t].ptr THEN "finish" ELSE "reconcile"
  <2>1. Goes(t, [th[t] EXCEPT !.pc = pc]) /\ start' = start
    BY <1>19 DEF Reread
  <2>2. pc \in {"finish", "reconcile"}
    OBVIOUS
  <2> HIDE DEF pc
  <2>3. Quiet(t, [th[t] EXCEPT !.pc = pc])
    BY <1>1, <1>19, <2>2 DEF Quiet, HoldPcs, Holds, Reread, At
  <2> QED
    BY <2>1, <2>3
<1>20. CASE Reconcile(t)
  <2> DEFINE m == Reconciled(seg[Db(t)][th[t].id], th[t].record)
  <2>1. Goes(t, [th[t] EXCEPT !.pc = "save", !.record = m]) /\ start' = start
    BY <1>1, <1>20 DEF Reconcile
  <2> HIDE DEF m
  <2>2. Quiet(t, [th[t] EXCEPT !.pc = "save", !.record = m])
    BY <1>1, <1>20 DEF Quiet, HoldPcs, Holds, Reconcile, At
  <2> QED
    BY <2>1, <2>2
<1>21. CASE Finish(t) \/ Save(t)
  <2> DEFINE v == [th[t] EXCEPT !.pc = th[t].next, !.id = @ + 1, !.ptr = None, !.record = None]
  <2>1. Goes(t, v) /\ start' = start
    BY <1>21 DEF Finish, Save, Saved
  <2>2. Quiet(t, v)
    BY <1>1, <1>21 DEF Quiet, HoldPcs, Holds, Finish, Save, At
  <2> QED
    BY <2>1, <2>2
<1> QED
  BY SMTT(30), <1>2, <1>3, <1>5, <1>6, <1>7, <1>8, <1>9, <1>10, <1>12, <1>13, <1>14, <1>15, <1>16, <1>17,
     <1>18, <1>19, <1>20, <1>21 DEF TableStep

(* An acquisition meets no live lease: the file of one would hold it off.  *)
LEMMA AcquireKeepsLeases ==
    ASSUME LeaseInv, NEW t \in Threads, NEW pc \in {"backup", "restore"}, ~Holds(t), Acquire(t, pc),
           start' = start, now' = now, broken' = broken
    PROVE  LeaseInv'
<1>1. DOMAIN th = Threads /\ DOMAIN th[t] = Fields
  BY DEF LeaseInv
<1>2. CASE LeaseHeld
  <2>1. Goes(t, Idle) /\ Quiet(t, Idle)
    BY <1>2, IdleFacts DEF Acquire, Stops, Quiet
  <2>2. lease' = lease /\ leases' = leases /\ lease' \in LeaseFile \cup {None}
    BY <1>2 DEF Acquire, LeaseInv
  <2> QED
    BY <2>1, <2>2, QuietKeepsLeases
<1>3. CASE ~LeaseHeld
  <2> DEFINE mine == [id |-> leases + 1, expires |-> now + Ttl]
             v == [th[t] EXCEPT !.pc = pc, !.lease = mine]
  <2>1. lease' = mine /\ leases' = leases + 1 /\ Goes(t, v)
    BY <1>3 DEF Acquire
  <2>2. mine \in LeaseFile /\ mine.id = leases + 1
    BY TtlAssumption, SMTT(30) DEF LeaseInv, LeaseFile
  <2> HIDE DEF mine
  <2>3. DOMAIN v = Fields /\ v.pc = pc /\ v.lease = mine /\ v.next = th[t].next
    BY <1>1, FieldsFacts
  <2> HIDE DEF v
  <2>4. DOMAIN th' = Threads /\ th'[t] = v /\ \A u \in Threads : u # t => th'[u] = th[u]
    BY <1>1, <2>1 DEF Goes
  <2>5. Holds(t)' /\ \A u \in Threads : u # t => (Holds(u)' <=> Holds(u))
    BY <2>3, <2>4 DEF Holds, HoldPcs
  <2>6. \A u \in Threads : ~Live(u)
    <3> SUFFICES ASSUME NEW u \in Threads, Live(u) PROVE FALSE
      OBVIOUS
    <3>1. lease = th[u].lease
      BY DEF Live, LeaseInv, LiveLeaseHolds
    <3> QED
      BY <3>1, <1>3 DEF Live, LeaseHeld
  <2>7. LiveLeaseHolds'
    <3> SUFFICES ASSUME NEW u \in Threads, th'[u].lease # None, th'[u].lease.expires > now,
                        th'[u].lease.id \notin broken
                 PROVE  lease' = th'[u].lease
      BY DEF LiveLeaseHolds
    <3>1. CASE u = t
      BY <3>1, <2>1, <2>3, <2>4
    <3>2. CASE u # t
      BY <3>2, <2>4, <2>6 DEF Live
    <3> QED
      BY <3>1, <3>2
  <2>8. leases \in Nat /\ \A u \in Threads : Holds(u) => th[u].lease \in LeaseFile /\ th[u].lease.id <= leases
                                                          /\ th[u].lease.id \in Nat
    BY DEF LeaseInv, LeaseFile
  <2>9. ASSUME NEW u \in Threads
        PROVE  /\ DOMAIN th'[u] = Fields /\ th'[u].next \notin HoldPcs
               /\ IF Holds(u)' THEN th'[u].lease \in LeaseFile /\ th'[u].lease.id <= leases'
                  ELSE th'[u].lease = None
    <3>1. CASE u = t
      BY <3>1, <2>1, <2>2, <2>3, <2>4, <2>5, <2>8, SMTT(30) DEF LeaseInv
    <3>2. CASE u # t
      BY <3>2, <2>1, <2>4, <2>5, <2>8, SMTT(30) DEF LeaseInv
    <3> QED
      BY <3>1, <3>2
  <2>10. ASSUME NEW u \in Threads, NEW w \in Threads, u # w, Holds(u)', Holds(w)'
         PROVE  th'[u].lease.id # th'[w].lease.id
    <3>1. CASE u # t /\ w # t
      BY <3>1, <2>4, <2>5, <2>10 DEF LeaseInv
    <3>2. CASE u = t \/ w = t
      BY <3>2, <2>2, <2>3, <2>4, <2>5, <2>8, <2>10, SMTT(30)
    <3> QED
      BY <3>1, <3>2
  <2> QED
    BY <2>1, <2>2, <2>4, <2>7, <2>8, <2>9, <2>10, SMTT(30) DEF LeaseInv
<1> QED
  BY <1>2, <1>3

(* The owner of the file renews it; a live lease of another thread would   *)
(* have the same id.                                                       *)
LEMMA HeartbeatKeepsLeases ==
    ASSUME LeaseInv, NEW t \in Threads, Heartbeat(t)
    PROVE  LeaseInv'
<1>1. DOMAIN th = Threads /\ DOMAIN th[t] = Fields /\ Holds(t) /\ now \in Nat
  BY DEF LeaseInv, Heartbeat, At, Holds, HoldPcs
<1>2. lease \in LeaseFile /\ lease.id = th[t].lease.id
  BY DEF LeaseInv, Heartbeat, LeaseHeld
<1>3. PICK ttl \in Nat : lease' = [lease EXCEPT !.expires = now + ttl]
  BY TtlAssumption DEF Heartbeat
<1>4. lease' \in LeaseFile /\ lease'.id = th[t].lease.id
  BY <1>1, <1>2, <1>3, SMTT(30) DEF LeaseFile
<1> DEFINE v == [th[t] EXCEPT !.lease = lease']
<1>5. Goes(t, v) /\ start' = start /\ now' = now /\ leases' = leases /\ broken' = broken
  BY DEF Heartbeat
<1>6. DOMAIN v = Fields /\ v.pc = th[t].pc /\ v.lease = lease' /\ v.next = th[t].next
  BY <1>1, FieldsFacts
<1> HIDE DEF v
<1>7. DOMAIN th' = Threads /\ th'[t] = v /\ \A u \in Threads : u # t => th'[u] = th[u]
  BY <1>1, <1>5 DEF Goes
<1>8. \A u \in Threads : Holds(u)' <=> Holds(u)
  BY <1>6, <1>7 DEF Holds
<1>9. \A u \in Threads : Holds(u)' => th'[u].lease \in LeaseFile /\ th'[u].lease.id = th[u].lease.id
  BY <1>4, <1>6, <1>7, <1>8 DEF LeaseInv
<1>10. LiveLeaseHolds'
  <2> SUFFICES ASSUME NEW u \in Threads, th'[u].lease # None, th'[u].lease.expires > now,
                      th'[u].lease.id \notin broken
               PROVE  lease' = th'[u].lease
    BY <1>5 DEF LiveLeaseHolds
  <2>1. CASE u = t
    BY <2>1, <1>6, <1>7
  <2>2. CASE u # t
    <3>1. th'[u] = th[u] /\ Holds(u)
      BY <2>2, <1>7 DEF LeaseInv
    <3>2. lease = th[u].lease
      BY <3>1 DEF LeaseInv, LiveLeaseHolds
    <3>3. th[u].lease.id # th[t].lease.id
      BY <2>2, <3>1, <1>1 DEF LeaseInv
    <3> QED
      BY <3>2, <3>3, <1>2
  <2> QED
    BY <2>1, <2>2
<1>11. ASSUME NEW u \in Threads
       PROVE  /\ DOMAIN th'[u] = Fields /\ th'[u].next \notin HoldPcs
              /\ IF Holds(u)' THEN th'[u].lease \in LeaseFile /\ th'[u].lease.id <= leases'
                 ELSE th'[u].lease = None
  <2>1. DOMAIN th'[u] = Fields /\ th'[u].next = th[u].next
    BY <1>6, <1>7 DEF LeaseInv
  <2>2. Holds(u)' => th'[u].lease \in LeaseFile /\ th'[u].lease.id <= leases'
    BY <1>5, <1>8, <1>9 DEF LeaseInv
  <2>3. ~Holds(u)' => th'[u].lease = None
    BY <1>1, <1>7, <1>8 DEF LeaseInv
  <2> QED
    BY <2>1, <2>2, <2>3 DEF LeaseInv
<1>12. \A u, w \in Threads : u # w /\ Holds(u)' /\ Holds(w)' => th'[u].lease.id # th'[w].lease.id
  BY <1>8, <1>9, SMTT(30) DEF LeaseInv
<1> QED
  BY <1>4, <1>5, <1>7, <1>10, <1>11, <1>12 DEF LeaseInv

(* release removes the file of t alone.                                    *)
LEMMA ReleaseKeepsLeases ==
    ASSUME LeaseInv, NEW t \in Threads, Holds(t), Stops(t), Release(t),
           start' = start, now' = now, leases' = leases, broken' = broken
    PROVE  LeaseInv'
<1>1. Goes(t, Idle) /\ Quiet(t, Idle)
  BY IdleFacts DEF Stops, Quiet
<1>2. lease' \in LeaseFile \cup {None}
  BY DEF Release, LeaseInv
<1>3. ASSUME NEW u \in Threads, u # t, Live(u) PROVE lease' = lease
  <2>1. lease = th[u].lease /\ Holds(u)
    BY <1>3 DEF Live, LeaseInv, LiveLeaseHolds
  <2>2. lease.id # th[t].lease.id
    BY <1>3, <2>1 DEF LeaseInv
  <2> QED
    BY <2>2 DEF Release
<1> QED
  BY <1>1, <1>2, <1>3, IdleFacts, QuietKeepsLeases

LEMMA LeaseInit == Init => LeaseInv
<1> SUFFICES ASSUME Init PROVE LeaseInv
  OBVIOUS
<1>1. start \in Starts /\ start.end \in Nat /\ now = 0 /\ leases = 0
  BY StartsAssumption DEF Init
<1>2. Never \in Int
  BY <1>1, TtlAssumption, SMTT(30) DEF Never
<1>3. lease \in LeaseFile \cup {None}
  BY <1>2 DEF Init, Legacy, LeaseFile
<1>4. DOMAIN th = Threads /\ \A t \in Threads : th[t] = Idle
  BY DEF Init
<1>5. \A t \in Threads : ~Holds(t) /\ th[t].lease = None /\ th[t].next \notin HoldPcs /\ DOMAIN th[t] = Fields
  BY <1>4, IdleFacts DEF Holds
<1>6. LiveLeaseHolds
  BY <1>5 DEF LiveLeaseHolds
<1> QED
  BY <1>1, <1>3, <1>4, <1>5, <1>6 DEF LeaseInv

LEMMA LeaseNext == LeaseInv /\ [Next]_vars => LeaseInv'
<1> SUFFICES ASSUME LeaseInv, [Next]_vars PROVE LeaseInv'
  OBVIOUS
<1> USE DEF store
<1>1. lease \in LeaseFile \cup {None} /\ now \in Nat
  BY DEF LeaseInv
<1>2. ASSUME NEW t \in Threads, NEW v, Goes(t, v), Quiet(t, v), start' = start, now' = now,
             lease' = lease, leases' = leases, broken' = broken
      PROVE  LeaseInv'
  BY <1>1, <1>2, QuietKeepsLeases
<1>3. ASSUME NEW t \in Threads, TableStep(t), UNCHANGED store PROVE LeaseInv'
  BY <1>2, <1>3, TableStepIsQuiet
<1>4. ASSUME NEW t \in Threads, DieWriting(t) PROVE LeaseInv'
  <2>1. Goes(t, Idle) /\ Quiet(t, Idle) /\ lease' = None
    BY <1>4, IdleFacts DEF DieWriting, Stops, Quiet
  <2>2. ASSUME NEW u \in Threads, u # t, Live(u) PROVE lease' = lease
    <3>1. lease = th[u].lease /\ Holds(u)
      BY <2>2 DEF Live, LeaseInv, LiveLeaseHolds
    <3>2. LeaseHeld
      BY <2>2, <3>1 DEF Live, LeaseHeld
    <3>3. Holds(t) /\ lease.id = th[t].lease.id
      BY <1>4, <3>2 DEF DieWriting, At, Holds, HoldPcs
    <3> QED
      BY <2>2, <3>1, <3>3 DEF LeaseInv
  <2> QED
    BY <1>4, <2>1, <2>2, IdleFacts, QuietKeepsLeases DEF DieWriting
<1>5. ASSUME NEW t \in Threads, HibernateStart(t) PROVE LeaseInv'
  <2> DEFINE v == [Idle EXCEPT !.call = "hibernate", !.pc = "acquire"]
  <2>1. Quiet(t, v)
    BY IdleFacts, FieldsFacts DEF Quiet, HoldPcs
  <2>2. Goes(t, v)
    BY <1>5 DEF HibernateStart
  <2> HIDE DEF v
  <2> QED
    BY <1>2, <1>5, <2>1, <2>2 DEF HibernateStart
<1>6. ASSUME NEW t \in Threads, HibernateAcquire(t) PROVE LeaseInv'
  <2>1. ~Holds(t)
    BY <1>6 DEF HibernateAcquire, At, Holds, HoldPcs
  <2> QED
    BY <1>6, <2>1, AcquireKeepsLeases DEF HibernateAcquire
<1>7. ASSUME NEW t \in Threads, NEW pc \in HoldPcs, NEW b, Holds(t),
             Goes(t, [th[t] EXCEPT !.pc = pc, !.backup = b]) \/ Goes(t, [th[t] EXCEPT !.pc = pc]),
             start' = start, now' = now, lease' = lease, leases' = leases, broken' = broken
      PROVE  LeaseInv'
  <2>1. DOMAIN th[t] = Fields /\ th[t].next \notin HoldPcs
    BY DEF LeaseInv
  <2>2. Quiet(t, [th[t] EXCEPT !.pc = pc, !.backup = b]) /\ Quiet(t, [th[t] EXCEPT !.pc = pc])
    BY <2>1, <1>7, FieldsFacts DEF Quiet
  <2> QED
    BY <1>2, <1>7, <2>2
<1>8. ASSUME NEW t \in Threads, HibernateBackup(t) PROVE LeaseInv'
  <2>1. Holds(t) /\ "mark" \in HoldPcs
    BY <1>8 DEF HibernateBackup, At, Holds, HoldPcs
  <2> QED
    BY <1>7, <1>8, <2>1 DEF HibernateBackup
<1>9. ASSUME NEW t \in Threads, HibernateMark(t) PROVE LeaseInv'
  <2>1. Holds(t) /\ "release" \in HoldPcs
    BY <1>9 DEF HibernateMark, At, Holds, HoldPcs
  <2> QED
    BY <1>7, <1>9, <2>1 DEF HibernateMark
<1>10. ASSUME NEW t \in Threads, CallRelease(t) \/ SessionEnd(t) PROVE LeaseInv'
  <2>1. Holds(t)
    BY <1>10 DEF CallRelease, SessionEnd, At, Holds, HoldPcs
  <2> QED
    BY <1>10, <2>1, ReleaseKeepsLeases DEF CallRelease, SessionEnd
<1>11. ASSUME NEW t \in Threads, ResumeStart(t) PROVE LeaseInv'
  <2>1. Quiet(t, Idle) /\ Quiet(t, [Idle EXCEPT !.call = "resume", !.pc = "acquire", !.backup = marker])
    BY IdleFacts, FieldsFacts DEF Quiet, HoldPcs
  <2> QED
    BY <1>2, <1>11, <2>1 DEF ResumeStart
<1>12. ASSUME NEW t \in Threads, RestoreStart(t) PROVE LeaseInv'
  <2>1. PICK b : Goes(t, [Idle EXCEPT !.call = "restore", !.pc = "acquire", !.backup = b])
    BY <1>12 DEF RestoreStart
  <2> DEFINE v == [Idle EXCEPT !.call = "restore", !.pc = "acquire", !.backup = b]
  <2>2. Quiet(t, v)
    BY IdleFacts, FieldsFacts DEF Quiet, HoldPcs
  <2>3. start' = start /\ UNCHANGED store
    BY <1>12 DEF RestoreStart
  <2> HIDE DEF v
  <2> QED
    BY <1>2, <2>1, <2>2, <2>3 DEF v
<1>13. ASSUME NEW t \in Threads, ResumeAcquire(t) PROVE LeaseInv'
  <2>1. ~Holds(t)
    BY <1>13 DEF ResumeAcquire, At, Holds, HoldPcs
  <2> QED
    BY <1>13, <2>1, AcquireKeepsLeases DEF ResumeAcquire
<1>14. ASSUME NEW t \in Threads, Restore(t) PROVE LeaseInv'
  <2> DEFINE pc == IF th[t].call = "resume" THEN "unmark" ELSE "release"
  <2>1. Holds(t) /\ pc \in HoldPcs /\ Goes(t, [th[t] EXCEPT !.pc = pc])
    BY <1>14 DEF Restore, At, Holds, HoldPcs
  <2>2. start' = start /\ UNCHANGED store
    BY <1>14 DEF Restore
  <2> HIDE DEF pc
  <2> QED
    BY <1>7, <2>1, <2>2
<1>15. ASSUME NEW t \in Threads, ResumeUnmark(t) PROVE LeaseInv'
  <2>1. Holds(t) /\ "session" \in HoldPcs
    BY <1>15 DEF ResumeUnmark, At, Holds, HoldPcs
  <2> QED
    BY <1>7, <1>15, <2>1 DEF ResumeUnmark
<1>16. CASE break_lease
  <2>1. lease # None /\ lease' = None /\ broken' = broken \cup {lease.id}
        /\ start' = start /\ now' = now /\ leases' = leases /\ th' = th
    BY <1>16 DEF break_lease
  <2>2. LiveLeaseHolds'
    BY <2>1 DEF LeaseInv, LiveLeaseHolds
  <2> QED
    BY <2>1, <2>2, SMTT(30) DEF LeaseInv, Holds
<1>17. CASE Tick
  <2>1. now' = now + 1 /\ UNCHANGED <<start, th, lease, leases, broken>>
    BY <1>17 DEF Tick
  <2>2. \A u \in Threads : th[u].lease # None => th[u].lease.expires \in Int
    BY DEF LeaseInv, LeaseFile
  <2>3. LiveLeaseHolds'
    BY <1>1, <2>1, <2>2, SMTT(30) DEF LeaseInv, LiveLeaseHolds
  <2> QED
    BY <1>1, <2>1, <2>3, SMTT(30) DEF LeaseInv, Holds
<1>18. CASE UNCHANGED vars
  BY <1>18, SMTT(30) DEF vars, LeaseInv, LiveLeaseHolds, Holds
<1> QED
  BY SMTT(30), <1>3, <1>4, <1>5, <1>6, <1>8, <1>9, <1>10, <1>11, <1>12, <1>13, <1>14, <1>15, <1>16, <1>17, <1>18,
     HeartbeatKeepsLeases DEF Next

-----------------------------------------------------------------------------
(* What a step of t leaves to the others.                                  *)

(* The store and the backups only grow, and a database that another thread *)
(* uses keeps its segments unless its LSN moves.                           *)
Forward(t) ==
    /\ start' = start
    /\ installed \subseteq installed'
    /\ DOMAIN objects \subseteq DOMAIN objects'
    /\ DOMAIN backups \subseteq DOMAIN backups'
    /\ DOMAIN th' = Threads /\ DOMAIN todo' = Threads
    /\ \A u \in Threads \ {t} :
          /\ th'[u] = th[u] /\ todo'[u] = todo[u]
          /\ lsn'[Db(u)] \in Nat /\ lsn[Db(u)] \in Nat /\ lsn[Db(u)] <= lsn'[Db(u)]
          /\ lsn'[Db(u)] = lsn[Db(u)] => seg'[Db(u)] = seg[Db(u)]

LEMMA OthersKeep ==
    ASSUME CloudInv, NEW t \in Threads, Forward(t), NEW u \in Threads, u # t
    PROVE  ThreadInv(u)' /\ TodoInv(u)'
<1>1. ThreadInv(u) /\ TodoInv(u)
  BY DEF CloudInv
<1>2. /\ start' = start /\ th'[u] = th[u] /\ todo'[u] = todo[u] /\ Db(u)' = Db(u)
      /\ installed \subseteq installed' /\ DOMAIN objects \subseteq DOMAIN objects'
      /\ DOMAIN backups \subseteq DOMAIN backups'
  BY DEF Forward, Db
<1>3. /\ lsn'[Db(u)] \in Nat /\ lsn[Db(u)] \in Nat /\ lsn[Db(u)] <= lsn'[Db(u)]
      /\ lsn'[Db(u)] = lsn[Db(u)] => seg'[Db(u)] = seg[Db(u)]
  BY DEF Forward
<1>4. WriterInv(u)'
  BY <1>1, <1>2 DEF ThreadInv, WriterInv
<1>5. ScanInv(u)'
  <2>1. th[u].pc \in {"zones", "check"} /\ Paired(u)' => Paired(u) /\ seg'[Db(u)] = seg[Db(u)]
    BY <1>1, <1>2, <1>3, SMTT(30) DEF ThreadInv, ScanInv, Paired
  <2>2. th[u].pc \in {"segments", "zones", "check"} => th[u].lsn \in Nat /\ th[u].lsn <= lsn'[Db(u)]
    BY <1>1, <1>3, SMTT(30) DEF ThreadInv, ScanInv
  <2> QED
    BY ZenonT(40), <1>1, <1>2, <2>1, <2>2 DEF ThreadInv, ScanInv
<1>6. TierInv(u)'
  BY <1>1, <1>2 DEF ThreadInv, TierInv, Uploading
<1>7. RecordInv(u)'
  BY <1>1, <1>2 DEF ThreadInv, RecordInv, Uploading
<1>8. ResumeInv(u)'
  BY <1>1, <1>2 DEF ThreadInv, ResumeInv
<1>9. TodoInv(u)'
  BY <1>1, <1>2 DEF TodoInv
<1> QED
  BY <1>1, <1>2, <1>4, <1>5, <1>6, <1>7, <1>8, <1>9 DEF ThreadInv

(* The databases and the backups, when pointers are installed elsewhere.   *)
LEMMA DataKeeps ==
    ASSUME DataInv, UNCHANGED data, installed \subseteq installed'
    PROVE  DataInv'
<1>1. lsn' = lsn /\ seg' = seg /\ zone' = zone /\ tier' = tier /\ table' = table
  BY DEF data
<1> QED
  BY <1>1 DEF DataInv, TableInv, Tiered, RemoteIsInstalled

LEMMA BackupsKeep ==
    ASSUME BackupsInv, backups' = backups, installed \subseteq installed',
           marker' \in {marker, None} \cup DOMAIN backups
    PROVE  BackupsInv'
  BY DEF BackupsInv, BackupInv, RemoteIsInstalled

LEMMA StoreKeeps ==
    ASSUME StoreInv, UNCHANGED <<objects, installed>>
    PROVE  StoreInv'
  BY DEF StoreInv, Resolves

(* Whoever tiers a segment goes on with it or leaves it marked.            *)
Hands(t) ==
    Uploading(t) => \/ Uploading(t)' /\ th'[t].id = th[t].id
                    \/ <<Db(t), th[t].id>> \in interrupted'

LEMMA UploadKeeps ==
    ASSUME CloudInv, NEW t \in Threads, Forward(t), Hands(t), tier' = tier,
           interrupted \subseteq interrupted'
    PROVE  UploadInv'
<1> SUFFICES ASSUME NEW d \in Dbs, NEW i \in Ids, tier[d][i] # None, tier[d][i].state = "Uploading",
                    <<d, i>> \notin interrupted'
             PROVE  \E u \in Threads : Db(u)' = d /\ th'[u].id = i /\ Uploading(u)'
  BY DEF UploadInv
<1>1. PICK u \in Threads : Db(u) = d /\ th[u].id = i /\ Uploading(u)
  BY DEF CloudInv, UploadInv
<1>2. Db(u)' = Db(u)
  BY DEF Forward, Db
<1>3. CASE u = t
  BY <1>1, <1>2, <1>3 DEF Hands
<1>4. CASE u # t
  <2>1. th'[u] = th[u]
    BY <1>4 DEF Forward
  <2> QED
    BY <1>1, <1>2, <2>1 DEF Uploading
<1> QED
  BY <1>3, <1>4

(* A step that changes only the call t is in.                              *)
LEMMA LocalStep ==
    ASSUME CloudInv, NEW t \in Threads, NEW v, Goes(t, v),
           UNCHANGED <<start, data, objects, installed, backups>>,
           marker' \in {marker, None} \cup DOMAIN backups, interrupted \subseteq interrupted',
           DOMAIN todo' = Threads, \A u \in Threads \ {t} : todo'[u] = todo[u],
           Hands(t), th'[t] = v => ThreadInv(t)' /\ TodoInv(t)'
    PROVE  CloudInv'
<1>1. start' = start /\ objects' = objects /\ installed' = installed /\ backups' = backups
      /\ lsn' = lsn /\ seg' = seg /\ tier' = tier
  BY DEF data
<1>2. DOMAIN th' = Threads /\ th'[t] = v /\ \A u \in Threads \ {t} : th'[u] = th[u]
  BY DEF CloudInv, Goes
<1>3. \A d \in Dbs : lsn[d] \in Nat
  BY DEF CloudInv, DataInv, TableInv
<1>4. \A u \in Threads : Db(u) \in Dbs
  BY ZenonT(40), StartsAssumption DEF CloudInv, Db
<1>5. Forward(t)
  BY <1>1, <1>2, <1>3, <1>4, SMTT(30) DEF Forward
<1>6. \A u \in Threads : ThreadInv(u)' /\ TodoInv(u)'
  BY <1>2, <1>5, OthersKeep
<1>7. DataInv'
  BY <1>1, DataKeeps DEF CloudInv
<1>8. BackupsInv'
  BY <1>1, BackupsKeep DEF CloudInv
<1>9. StoreInv'
  BY <1>1, StoreKeeps DEF CloudInv
<1>10. UploadInv'
  BY <1>1, <1>5, UploadKeeps
<1>11. start' \in Starts
  BY <1>1 DEF CloudInv
<1> QED
  BY <1>2, <1>6, <1>7, <1>8, <1>9, <1>10, <1>11 DEF CloudInv

(* The rest of the invariant, as seen by t.                                *)
LEMMA ThreadFacts ==
    ASSUME CloudInv, NEW t \in Threads
    PROVE  /\ DOMAIN th = Threads /\ DOMAIN todo = Threads /\ DOMAIN th[t] = Fields
           /\ ThreadInv(t) /\ TodoInv(t)
           /\ start \in Starts /\ Db(t) \in Dbs
           /\ DataInv /\ TableInv(Db(t))
<1>1. Db(t) \in Dbs
  BY StartsAssumption DEF CloudInv, Db
<1> QED
  BY <1>1 DEF CloudInv, ThreadInv, DataInv

(* Beginning a call.                                                       *)
LEMMA BeginsFacts ==
    ASSUME CloudInv, NEW t \in Threads, NEW call, Begins(t, call), start' = start
    PROVE  /\ DOMAIN todo' = Threads /\ \A u \in Threads \ {t} : todo'[u] = todo[u]
           /\ TodoInv(t)' /\ ~Uploading(t) /\ Hands(t)
           /\ call \in {"resume", "restore"} => OwnDatabase(start, t)
<1>1. todo[t] \in Seq(Calls) /\ todo[t] # <<>> /\ DOMAIN todo = Threads
  BY ThreadFacts DEF TodoInv, Begins
<1>2. todo' = [todo EXCEPT ![t] = Tail(todo[t])]
  BY <1>1 DEF Begins
<1>3. todo'[t] = Tail(todo[t]) /\ DOMAIN todo' = Threads /\ \A u \in Threads \ {t} : todo'[u] = todo[u]
  BY <1>1, <1>2
<1>4. Tail(todo[t]) \in Seq(Calls)
  BY <1>1, SMTT(30)
<1>5. \A k \in DOMAIN Tail(todo[t]) : k + 1 \in DOMAIN todo[t] /\ Tail(todo[t])[k] = todo[t][k + 1]
  BY <1>1, SMTT(30)
<1>6. 1 \in DOMAIN todo[t] /\ todo[t][1] = Head(todo[t])
  BY <1>1, SMTT(30)
<1>7. (\E k \in DOMAIN todo[t] : todo[t][k] \in {"resume", "restore"}) => OwnDatabase(start, t)
  BY ThreadFacts DEF TodoInv
<1>8. TodoInv(t)'
  BY <1>3, <1>4, <1>5, <1>7 DEF TodoInv
<1>9. ~Uploading(t)
  BY DEF Begins, Resting, Uploading
<1> QED
  BY <1>3, <1>6, <1>7, <1>8, <1>9 DEF Begins, Hands

LEMMA TodoKeeps ==
    ASSUME CloudInv, NEW t \in Threads, UNCHANGED <<start, todo>>
    PROVE  DOMAIN todo' = Threads /\ TodoInv(t)' /\ \A u \in Threads \ {t} : todo'[u] = todo[u]
  BY ThreadFacts DEF TodoInv

(* Between calls, and where a hibernation or a resumption holds only its   *)
(* lease, nothing is said of the table.                                    *)
LEMMA FreeThread ==
    ASSUME NEW t \in Threads, NEW v, th'[t] = v, DOMAIN v = Fields,
           v.pc \in {"idle", "backup", "release", "unmark", "session"}
    PROVE  ThreadInv(t)'
  BY DEF ThreadInv, WriterInv, ScanInv, TierInv, RecordInv, ResumeInv, Uploading

(* A writer and a scan tier nothing.                                       *)
LEMMA TableThread ==
    ASSUME NEW t \in Threads, NEW v, th'[t] = v, DOMAIN v = Fields,
           v.pc \in {"read", "write", "lsn", "segments", "zones", "check", "done"}, WriterInv(t)', ScanInv(t)'
    PROVE  ThreadInv(t)'
  BY DEF ThreadInv, TierInv, RecordInv, ResumeInv, Uploading

(* A tiering run neither writes nor scans.                                 *)
LEMMA TieringThread ==
    ASSUME NEW t \in Threads, NEW v, th'[t] = v, DOMAIN v = Fields,
           v.pc \in {"recover", "tier", "upload", "install", "reread", "reconcile", "finish", "save"},
           TierInv(t)', RecordInv(t)'
    PROVE  ThreadInv(t)'
  BY DEF ThreadInv, WriterInv, ScanInv, ResumeInv

(* A call that ends between two steps, or fails.                           *)
LEMMA StopKeeps ==
    ASSUME CloudInv, NEW t \in Threads, Stops(t), Hands(t),
           UNCHANGED <<start, data, objects, installed, backups>>,
           marker' = marker, interrupted \subseteq interrupted', todo' = todo
    PROVE  CloudInv'
<1>1. Goes(t, Idle)
  BY DEF Stops
<1>2. th'[t] = Idle => ThreadInv(t)'
  BY IdleFacts, FreeThread
<1>3. DOMAIN todo' = Threads /\ TodoInv(t)' /\ \A u \in Threads \ {t} : todo'[u] = todo[u]
  BY TodoKeeps
<1> QED
  BY <1>1, <1>2, <1>3, LocalStep

(* The first step of a call, from the fields of the new local state.       *)
LEMMA StartKeeps ==
    ASSUME CloudInv, NEW t \in Threads, NEW call, Begins(t, call), NEW v, Goes(t, v),
           UNCHANGED <<start, data, cloud, store>>, th'[t] = v => ThreadInv(t)'
    PROVE  CloudInv'
<1>1. UNCHANGED <<start, data, objects, installed, backups>> /\ marker' = marker /\ interrupted' = interrupted
  BY DEF cloud, store
<1>2. /\ DOMAIN todo' = Threads /\ \A u \in Threads \ {t} : todo'[u] = todo[u]
      /\ TodoInv(t)' /\ Hands(t)
  BY <1>1, BeginsFacts
<1> QED
  BY <1>1, <1>2, LocalStep

LEMMA WriteStartKeeps ==
    ASSUME CloudInv, NEW t \in Threads, NEW call \in {"insert", "update", "delete"},
           WriteStart(t, call), UNCHANGED store
    PROVE  CloudInv'
<1>1. PICK r \in Rows : Goes(t, [Idle EXCEPT !.call = call, !.pc = "read", !.row = r])
  BY DEF WriteStart
<1> DEFINE v == [Idle EXCEPT !.call = call, !.pc = "read", !.row = r]
<1>2. DOMAIN v = Fields /\ v.pc = "read" /\ v.row = r /\ v.call = call
  BY IdleFacts, FieldsFacts
<1>3. Begins(t, call) /\ UNCHANGED <<start, data, cloud, store>> /\ Goes(t, v)
  BY <1>1 DEF WriteStart
<1> HIDE DEF v
<1>4. th'[t] = v => ThreadInv(t)'
  BY <1>2 DEF ThreadInv, WriterInv, ScanInv, TierInv, RecordInv, ResumeInv, Uploading
<1> QED
  BY <1>3, <1>4, StartKeeps

LEMMA ScanStartKeeps ==
    ASSUME CloudInv, NEW t \in Threads, ScanStart(t), UNCHANGED store
    PROVE  CloudInv'
<1>1. PICK r \in Rows : Goes(t, [Idle EXCEPT !.call = "scan", !.pc = "lsn", !.row = r])
  BY DEF ScanStart
<1> DEFINE v == [Idle EXCEPT !.call = "scan", !.pc = "lsn", !.row = r]
<1>2. DOMAIN v = Fields /\ v.pc = "lsn" /\ v.row = r
  BY IdleFacts, FieldsFacts
<1>3. Begins(t, "scan") /\ UNCHANGED <<start, data, cloud, store>> /\ Goes(t, v)
  BY <1>1 DEF ScanStart
<1> HIDE DEF v
<1>4. th'[t] = v => ThreadInv(t)'
  BY <1>2 DEF ThreadInv, WriterInv, ScanInv, TierInv, RecordInv, ResumeInv, Uploading
<1> QED
  BY <1>3, <1>4, StartKeeps

LEMMA TierStartKeeps ==
    ASSUME CloudInv, NEW t \in Threads, TierStart(t), UNCHANGED store
    PROVE  CloudInv'
<1> DEFINE v == [Idle EXCEPT !.call = "tier", !.pc = "recover", !.meta = tier[Db(t)]]
<1>1. DOMAIN v = Fields /\ v.pc = "recover" /\ v.meta = tier[Db(t)] /\ v.id = 0
  BY IdleFacts, FieldsFacts
<1>2. Begins(t, "tier") /\ UNCHANGED <<start, data, cloud, store>> /\ Goes(t, v)
  BY DEF TierStart
<1> HIDE DEF v
<1>3. \A i \in Ids : IsMeta(tier[Db(t)][i])
  BY ZenonT(40), ThreadFacts DEF TableInv
<1>4. v.id \in Nat
  BY <1>1, LsnFacts
<1>5. th'[t] = v => ThreadInv(t)'
  BY <1>1, <1>3, <1>4 DEF ThreadInv, WriterInv, ScanInv, TierInv, RecordInv, ResumeInv, Uploading
<1> QED
  BY <1>2, <1>5, StartKeeps

-----------------------------------------------------------------------------
(* Writers and scans.                                                      *)

(* A step within a call that changes only its local state.                 *)
LEMMA InnerKeeps ==
    ASSUME CloudInv, NEW t \in Threads, NEW v, Goes(t, v), Hands(t),
           UNCHANGED <<start, data, cloud, todo, store>>, th'[t] = v => ThreadInv(t)'
    PROVE  CloudInv'
<1>1. UNCHANGED <<start, data, objects, installed, backups>> /\ marker' = marker /\ interrupted' = interrupted
  BY DEF cloud, store
<1>2. DOMAIN todo' = Threads /\ TodoInv(t)' /\ \A u \in Threads \ {t} : todo'[u] = todo[u]
  BY TodoKeeps
<1> QED
  BY <1>1, <1>2, LocalStep

LEMMA ReadSegmentsKeeps ==
    ASSUME CloudInv, NEW t \in Threads, ReadSegments(t), UNCHANGED store
    PROVE  CloudInv'
<1> DEFINE v == [th[t] EXCEPT !.pc = "write", !.snap = seg[Db(t)]]
<1>1. DOMAIN th[t] = Fields /\ th[t].pc = "read" /\ ThreadInv(t) /\ Whole(seg[Db(t)])
  BY ThreadFacts DEF ReadSegments, At, TableInv
<1>2. DOMAIN v = Fields /\ v.pc = "write" /\ v.snap = seg[Db(t)] /\ v.row = th[t].row /\ v.call = th[t].call
  BY <1>1, FieldsFacts
<1>3. Goes(t, v) /\ UNCHANGED <<start, data, cloud, todo, store>>
  BY DEF ReadSegments
<1> HIDE DEF v
<1>4. th'[t] = v => ThreadInv(t)'
  BY <1>1, <1>2 DEF ThreadInv, WriterInv, ScanInv, TierInv, RecordInv, ResumeInv, Uploading
<1>5. Hands(t)
  BY <1>1 DEF Hands, Uploading
<1> QED
  BY <1>3, <1>4, <1>5, InnerKeeps

LEMMA ScanLsnKeeps ==
    ASSUME CloudInv, NEW t \in Threads, ScanLsn(t), UNCHANGED store
    PROVE  CloudInv'
<1> DEFINE v == [th[t] EXCEPT !.pc = "segments", !.lsn = lsn[Db(t)], !.tries = @ + 1]
<1>1. DOMAIN th[t] = Fields /\ th[t].pc = "lsn" /\ ThreadInv(t) /\ lsn[Db(t)] \in Nat
  BY ThreadFacts DEF ScanLsn, At, TableInv
<1>2. DOMAIN v = Fields /\ v.pc = "segments" /\ v.lsn = lsn[Db(t)] /\ v.row = th[t].row
  BY <1>1, FieldsFacts
<1>3. Goes(t, v) /\ UNCHANGED <<start, data, cloud, todo, store>>
  BY DEF ScanLsn
<1> HIDE DEF v
<1>4. lsn' = lsn /\ Db(t)' = Db(t)
  BY <1>3 DEF data, Db
<1>5. ASSUME th'[t] = v PROVE ThreadInv(t)'
  <2>1. WriterInv(t)'
    BY <1>1, <1>2, <1>5 DEF ThreadInv, WriterInv
  <2>2. lsn[Db(t)] <= lsn[Db(t)]
    BY <1>1, SMTT(30)
  <2>3. ScanInv(t)'
    BY <1>1, <1>2, <1>4, <1>5, <2>2 DEF ScanInv
  <2> QED
    BY <1>2, <1>5, <2>1, <2>3, TableThread
<1>6. Hands(t)
  BY <1>1 DEF Hands, Uploading
<1> QED
  BY <1>3, <1>5, <1>6, InnerKeeps

LEMMA ScanSegmentsKeeps ==
    ASSUME CloudInv, NEW t \in Threads, ScanSegments(t), UNCHANGED store
    PROVE  CloudInv'
<1> DEFINE v == [th[t] EXCEPT !.pc = "zones", !.snap = seg[Db(t)], !.rows = table[Db(t)]]
<1>1. DOMAIN th[t] = Fields /\ th[t].pc = "segments" /\ ThreadInv(t)
      /\ Whole(seg[Db(t)]) /\ RowsOf(seg[Db(t)]) = table[Db(t)]
  BY ThreadFacts DEF ScanSegments, At, TableInv
<1>2. DOMAIN v = Fields /\ v.pc = "zones" /\ v.lsn = th[t].lsn /\ v.row = th[t].row
      /\ v.snap = seg[Db(t)] /\ v.rows = table[Db(t)]
  BY <1>1, FieldsFacts
<1>3. Goes(t, v) /\ UNCHANGED <<start, data, cloud, todo, store>>
  BY DEF ScanSegments
<1> HIDE DEF v
<1>4. lsn' = lsn /\ seg' = seg /\ Db(t)' = Db(t)
  BY <1>3 DEF data, Db
<1>5. th'[t] = v => ThreadInv(t)'
  BY <1>1, <1>2, <1>4 DEF ThreadInv, WriterInv, ScanInv, TierInv, RecordInv, ResumeInv, Uploading
<1>6. Hands(t)
  BY <1>1 DEF Hands, Uploading
<1> QED
  BY <1>3, <1>5, <1>6, InnerKeeps

LEMMA ScanZonesKeeps ==
    ASSUME CloudInv, NEW t \in Threads, ScanZones(t), UNCHANGED store
    PROVE  CloudInv'
<1> DEFINE v == [th[t] EXCEPT !.pc = "check", !.zones = zone[Db(t)]]
<1>1. DOMAIN th[t] = Fields /\ th[t].pc = "zones" /\ ThreadInv(t) /\ Covers(zone[Db(t)], seg[Db(t)])
  BY ThreadFacts DEF ScanZones, At, TableInv
<1>2. DOMAIN v = Fields /\ v.pc = "check" /\ v.lsn = th[t].lsn /\ v.row = th[t].row
      /\ v.snap = th[t].snap /\ v.rows = th[t].rows /\ v.zones = zone[Db(t)]
  BY <1>1, FieldsFacts
<1>3. Goes(t, v) /\ UNCHANGED <<start, data, cloud, todo, store>>
  BY DEF ScanZones
<1> HIDE DEF v
<1>4. lsn' = lsn /\ seg' = seg /\ Db(t)' = Db(t)
  BY <1>3 DEF data, Db
<1>5. ASSUME Paired(t) PROVE Covers(zone[Db(t)], th[t].snap)
  <2>1. \A i \in Ids : seg[Db(t)][i] = th[t].snap[i]
    BY <1>1, <1>5 DEF ThreadInv, ScanInv
  <2> QED
    BY <2>1, <1>1 DEF Covers, Used
<1>6. th'[t] = v => (Paired(t)' <=> Paired(t))
  BY <1>2, <1>4 DEF Paired
<1>7. th'[t] = v => ThreadInv(t)'
  BY <1>1, <1>2, <1>4, <1>5, <1>6 DEF ThreadInv, WriterInv, ScanInv, TierInv, RecordInv, ResumeInv, Uploading
<1>8. Hands(t)
  BY <1>1 DEF Hands, Uploading
<1> QED
  BY <1>3, <1>7, <1>8, InnerKeeps

(* Zone maps that cover the segments, or none, prune no row that matches.  *)
LEMMA ScannedIsExact ==
    ASSUME NEW t \in Threads, NEW zones, Covers(zones, th[t].snap), RowsOf(th[t].snap) = th[t].rows
    PROVE  Found(t, zones) = th[t].rows \cap {th[t].row}
<1>1. PICK r, s : r = th[t].row /\ s = th[t].snap
  OBVIOUS
<1>2. \A x : x \in Found(t, zones) <=>
         x = r /\ \E i \in Used(s) : segment_may_match_filter(zones[i], r) /\ x \in Content(s[i])
  <2>1. \A x : x \in Found(t, zones) <=>
             x = th[t].row /\ \E i \in Kept(t, zones) : x \in Content(th[t].snap[i])
    BY DEF Found
  <2>2. \A i : i \in Kept(t, zones) <=>
             i \in Used(th[t].snap) /\ segment_may_match_filter(zones[i], th[t].row)
    BY DEF Kept
  <2> QED
    BY <1>1, <2>1, <2>2
<1>3. r \in th[t].rows <=> \E i \in Used(s) : r \in Content(s[i])
  BY <1>1 DEF RowsOf
<1>4. \A i \in Used(s) : r \in Content(s[i]) => segment_may_match_filter(zones[i], r)
  BY <1>1 DEF Covers, segment_may_match_filter
<1> QED
  BY <1>1, <1>2, <1>3, <1>4

LEMMA ScanCheckKeeps ==
    ASSUME CloudInv, NEW t \in Threads, ScanCheck(t), UNCHANGED store
    PROVE  CloudInv'
<1>1. DOMAIN th[t] = Fields /\ th[t].pc = "check" /\ ThreadInv(t) /\ th[t].row \in Rows
      /\ RowsOf(th[t].snap) = th[t].rows
  BY ThreadFacts DEF ScanCheck, At, ThreadInv, WriterInv, ScanInv
<1>2. UNCHANGED <<start, data, cloud, todo, store>>
  BY DEF ScanCheck
<1>3. Hands(t)
  BY <1>1 DEF Hands, Uploading
<1>4. ASSUME NEW zones, Covers(zones, th[t].snap), Scanned(t, zones) PROVE CloudInv'
  <2> DEFINE res == Found(t, zones)
             v == [Idle EXCEPT !.call = "scan", !.pc = "done", !.row = th[t].row,
                               !.rows = th[t].rows, !.res = res]
  <2>1. Goes(t, v)
    BY <1>4 DEF Scanned
  <2>2. res = th[t].rows \cap {th[t].row}
    BY <1>1, <1>4, ScannedIsExact
  <2> HIDE DEF res
  <2>3. DOMAIN v = Fields /\ v.pc = "done" /\ v.row = th[t].row /\ v.rows = th[t].rows /\ v.res = res
    BY IdleFacts, FieldsFacts
  <2> HIDE DEF v
  <2>4. ASSUME th'[t] = v PROVE ThreadInv(t)'
    <3>1. WriterInv(t)'
      BY <1>1, <2>3, <2>4 DEF WriterInv
    <3>2. ScanInv(t)'
      BY <2>2, <2>3, <2>4 DEF ScanInv
    <3> QED
      BY <2>3, <2>4, <3>1, <3>2, TableThread
  <2> QED
    BY <1>2, <1>3, <2>1, <2>4, InnerKeeps
<1>5. CASE Paired(t) /\ Scanned(t, th[t].zones)
  BY <1>1, <1>4, <1>5 DEF ThreadInv, ScanInv
<1>6. CASE Goes(t, [th[t] EXCEPT !.pc = "lsn"])
  <2> DEFINE v == [th[t] EXCEPT !.pc = "lsn"]
  <2>1. DOMAIN v = Fields /\ v.pc = "lsn" /\ v.row = th[t].row
    BY <1>1, FieldsFacts
  <2>2. Goes(t, v)
    BY <1>6
  <2> HIDE DEF v
  <2>3. th'[t] = v => ThreadInv(t)'
    BY <1>1, <2>1 DEF ThreadInv, WriterInv, ScanInv, TierInv, RecordInv, ResumeInv, Uploading
  <2> QED
    BY <1>2, <1>3, <2>2, <2>3, InnerKeeps
<1>7. CASE Scanned(t, [i \in Ids |-> None])
  <2>1. Covers([i \in Ids |-> None], th[t].snap)
    BY DEF Covers, Used
  <2> QED
    BY <1>4, <1>7, <2>1
<1> QED
  BY <1>5, <1>6, <1>7 DEF ScanCheck

LEMMA WriteEndsKeeps ==
    ASSUME CloudInv, NEW t \in Threads, WriteEnds(t), UNCHANGED store
    PROVE  CloudInv'
<1>1. Hands(t)
  BY DEF WriteEnds, At, Hands, Uploading
<1>2. Stops(t) /\ UNCHANGED <<start, data, objects, installed, interrupted, backups, marker, todo>>
  BY DEF WriteEnds, cloud, store
<1> QED
  BY <1>1, <1>2, StopKeeps

(* A commit of t to its database.                                          *)
LEMMA CommitKeeps ==
    ASSUME CloudInv, NEW t \in Threads, NEW d \in Dbs, d = Db(t), NEW v, Goes(t, v), Commits(d),
           UNCHANGED <<start, todo, backups, marker>>,
           DOMAIN seg' = Dbs, DOMAIN zone' = Dbs, DOMAIN tier' = Dbs, DOMAIN table' = Dbs,
           \A e \in Dbs \ {d} : /\ seg'[e] = seg[e] /\ zone'[e] = zone[e]
                                /\ tier'[e] = tier[e] /\ table'[e] = table[e],
           installed \subseteq installed', DOMAIN objects \subseteq DOMAIN objects',
           StoreInv', Forward(t) => UploadInv', lsn'[d] \in Nat => TableInv(d)',
           th'[t] = v => ThreadInv(t)'
    PROVE  CloudInv'
<1>1. DOMAIN th = Threads /\ DOMAIN todo = Threads /\ DataInv /\ start \in Starts
  BY ThreadFacts
<1>2. DOMAIN th' = Threads /\ th'[t] = v /\ \A u \in Threads \ {t} : th'[u] = th[u]
  BY <1>1 DEF Goes
<1>3. DOMAIN lsn = Dbs /\ \A e \in Dbs : lsn[e] \in Nat
  BY <1>1 DEF DataInv, TableInv
<1>4. DOMAIN lsn' = Dbs /\ lsn'[d] = lsn[d] + 1 /\ \A e \in Dbs \ {d} : lsn'[e] = lsn[e]
  BY <1>3 DEF Commits
<1>5. \A e \in Dbs : /\ lsn'[e] \in Nat /\ lsn[e] <= lsn'[e]
                     /\ lsn'[e] = lsn[e] => seg'[e] = seg[e]
  <2> SUFFICES ASSUME NEW e \in Dbs
               PROVE  lsn'[e] \in Nat /\ lsn[e] <= lsn'[e] /\ (lsn'[e] = lsn[e] => seg'[e] = seg[e])
    OBVIOUS
  <2>1. lsn[e] \in Nat
    BY ZenonT(40), <1>3
  <2>2. CASE e = d
    <3>1. lsn'[e] = lsn[e] + 1
      BY <2>2, <1>4
    <3> QED
      BY <2>1, <3>1, LsnFacts
  <2>3. CASE e # d
    <3>1. lsn'[e] = lsn[e] /\ seg'[e] = seg[e]
      BY <2>3, <1>4
    <3> QED
      BY <2>1, <3>1, LsnFacts
  <2> QED
    BY <2>2, <2>3
<1>6. \A u \in Threads : Db(u) \in Dbs
  BY ThreadFacts
<1>7. Forward(t)
  BY <1>1, <1>2, <1>3, <1>5, <1>6 DEF Forward
<1>8. TodoInv(t)'
  BY TodoKeeps
<1>9. \A u \in Threads : ThreadInv(u)' /\ TodoInv(u)'
  BY <1>2, <1>7, <1>8, OthersKeep
<1>10. ASSUME NEW e \in Dbs PROVE TableInv(e)'
  <2>1. CASE e = d
    BY ZenonT(40), <2>1, <1>5
  <2>2. CASE e # d
    <3>1. TableInv(e) /\ lsn'[e] = lsn[e] /\ seg'[e] = seg[e] /\ zone'[e] = zone[e]
          /\ tier'[e] = tier[e] /\ table'[e] = table[e]
      BY <2>2, <1>1, <1>4 DEF DataInv
    <3> QED
      BY <3>1, ZenonT(40) DEF TableInv, Tiered, RemoteIsInstalled
  <2> QED
    BY <2>1, <2>2
<1>11. DataInv'
  BY <1>4, <1>10 DEF DataInv
<1>12. BackupsInv'
  BY BackupsKeep DEF CloudInv
<1>13. UploadInv'
  BY <1>7
<1> QED
  BY <1>1, <1>2, <1>9, <1>11, <1>12, <1>13 DEF CloudInv

(* A commit of t that turns its table into `new`.                          *)
LEMMA TableCommits ==
    ASSUME CloudInv, NEW t \in Threads, NEW d \in Dbs, d = Db(t), NEW v, Goes(t, v), Commits(d), Hands(t),
           UNCHANGED <<start, tier, interrupted, todo, backups, marker>>,
           DOMAIN seg' = Dbs, DOMAIN zone' = Dbs, DOMAIN table' = Dbs,
           \A e \in Dbs \ {d} : seg'[e] = seg[e] /\ zone'[e] = zone[e] /\ table'[e] = table[e],
           Whole(seg'[d]), RowsOf(seg'[d]) = table'[d], Covers(zone'[d], seg'[d]), Tiered(seg[d])',
           installed \subseteq installed', DOMAIN objects \subseteq DOMAIN objects', StoreInv',
           th'[t] = v => ThreadInv(t)'
    PROVE  CloudInv'
<1>1. TableInv(d) /\ DOMAIN tier = Dbs
  BY ThreadFacts DEF DataInv
<1>2. ASSUME lsn'[d] \in Nat PROVE TableInv(d)'
  <2>1. DOMAIN tier'[d] = Ids /\ \A i \in Ids : IsMeta(tier'[d][i]) /\ RemoteIsInstalled(tier[d][i], i)'
    BY <1>1 DEF TableInv, RemoteIsInstalled
  <2> QED
    BY <1>2, <2>1 DEF TableInv
<1>3. Forward(t) => UploadInv'
  BY UploadKeeps
<1>4. \A e \in Dbs \ {d} : seg'[e] = seg[e] /\ zone'[e] = zone[e] /\ tier'[e] = tier[e] /\ table'[e] = table[e]
  OBVIOUS
<1> QED
  BY <1>1, <1>2, <1>3, <1>4, CommitKeeps

(* The zone maps and the pointers of a table after a batch that changes    *)
(* some of its segments to local ones.                                     *)
LEMMA BatchCovers ==
    ASSUME NEW d \in Dbs, TableInv(d), NEW s, \A i \in Ids : seg[d][i] = s[i],
           NEW new, Whole(new), NEW zoned, NEW changed,
           \A i \in Used(new) : IF i \in changed THEN zoned[i] = ZoneOf(new[i]) /\ new[i].at = "local"
                                ELSE zoned[i] = zone[d][i] /\ new[i] = s[i] /\ i \in Used(s)
    PROVE  Covers(zoned, new) /\ Tiered(new)
<1>1. Used(s) = Used(seg[d])
  BY SameFacts
<1>2. ASSUME NEW i \in Used(new)
      PROVE  /\ new[i].at = "remote" => <<i, new[i]>> \in installed
             /\ zoned[i] # None => \A x \in Content(new[i]) : zoned[i].min <= x /\ x <= zoned[i].max
  <2>1. i \in Ids /\ new[i] \in Segments
    BY DEF Whole, Used
  <2>2. CASE i \in changed
    BY <2>1, <2>2, ZoneFacts
  <2>3. CASE i \notin changed
    <3>1. new[i] = seg[d][i] /\ i \in Used(seg[d]) /\ zoned[i] = zone[d][i]
      BY <1>1, <2>1, <2>3
    <3> QED
      BY <3>1 DEF TableInv, Tiered, Covers
  <2> QED
    BY <2>2, <2>3
<1> QED
  BY <1>2 DEF Covers, Tiered

(* The batch of a statement commits, is tried again or is given up.        *)
LEMMA WriteBatchKeeps ==
    ASSUME CloudInv, NEW t \in Threads, WriteBatch(t), UNCHANGED store
    PROVE  CloudInv'
<1>1. DOMAIN th[t] = Fields /\ th[t].pc = "write" /\ ThreadInv(t) /\ th[t].row \in Rows /\ Whole(th[t].snap)
      /\ Db(t) \in Dbs /\ DataInv /\ TableInv(Db(t))
  BY ThreadFacts DEF WriteBatch, At, ThreadInv, WriterInv
<1>2. Hands(t)
  BY <1>1 DEF Hands, Uploading
<1>9. PICK d \in Dbs, r \in Rows : d = Db(t) /\ r = th[t].row
  BY <1>1
<1>8. PICK s, call : s = th[t].snap /\ call = th[t].call
  OBVIOUS
<1>3. d = Db(t) /\ s = th[t].snap /\ r = th[t].row /\ call = th[t].call
  BY <1>8, <1>9
<1>4. PICK ops : ops = IF call = "insert" THEN columnar_append_ops(s, r)
                       ELSE columnar_rewrite_ops(s, Changed(call, RowsOf(s), r))
  OBVIOUS
<1>5. /\ call = "insert" => r \notin RowsOf(s)
      /\ UNCHANGED <<start, tier, cloud, todo, store>>
      /\ IF Unchanged(d, s, DOMAIN ops)
         THEN /\ Commits(d)
              /\ seg' = [seg EXCEPT ![d] = [i \in Ids |-> IF i \in DOMAIN ops THEN ops[i] ELSE @[i]]]
              /\ zone' = [zone EXCEPT ![d] = [i \in Ids |-> IF i \in DOMAIN ops /\ ops[i] # s[i]
                                                            THEN ZoneOf(ops[i]) ELSE @[i]]]
              /\ table' = [table EXCEPT ![d] = Changed(call, @, r)]
              /\ Stops(t)
         ELSE /\ \/ Goes(t, [th[t] EXCEPT !.pc = "read"])
                 \/ Stops(t)
              /\ UNCHANGED <<lsn, seg, zone, table>>
  BY <1>3, <1>4 DEF WriteBatch
<1>6. CASE ~Unchanged(d, s, DOMAIN ops)
  <2>1. UNCHANGED <<start, data, cloud, todo, store>> /\ (Goes(t, [th[t] EXCEPT !.pc = "read"]) \/ Stops(t))
    BY <1>5, <1>6 DEF data
  <2>2. CASE Goes(t, [th[t] EXCEPT !.pc = "read"])
    <3> DEFINE v == [th[t] EXCEPT !.pc = "read"]
    <3>1. DOMAIN v = Fields /\ v.pc = "read" /\ v.row = th[t].row /\ v.call = th[t].call
      BY <1>1, FieldsFacts
    <3>2. Goes(t, v)
      BY <2>2
    <3> HIDE DEF v
    <3>3. th[t].call \in {"insert", "update", "delete"}
      BY <1>1 DEF ThreadInv, WriterInv
    <3>4. th'[t] = v => ThreadInv(t)'
      BY <1>1, <3>1, <3>3 DEF ThreadInv, WriterInv, ScanInv, TierInv, RecordInv, ResumeInv, Uploading
    <3> QED
      BY <1>2, <2>1, <3>2, <3>4, InnerKeeps
  <2>3. CASE Stops(t)
    <3>1. UNCHANGED <<start, data, objects, installed, interrupted, backups, marker, todo>>
      BY <2>1 DEF cloud, store
    <3> QED
      BY <1>2, <2>3, <3>1, StopKeeps
  <2> QED
    BY <2>1, <2>2, <2>3
<1>7. CASE Unchanged(d, s, DOMAIN ops)
  <2>1. DOMAIN seg = Dbs /\ DOMAIN zone = Dbs /\ DOMAIN table = Dbs
    BY <1>1 DEF DataInv
  <2> DEFINE new == [i \in Ids |-> IF i \in DOMAIN ops THEN ops[i] ELSE s[i]]
             segd == [i \in Ids |-> IF i \in DOMAIN ops THEN ops[i] ELSE seg[d][i]]
             zoned == [i \in Ids |-> IF i \in DOMAIN ops /\ ops[i] # s[i] THEN ZoneOf(ops[i]) ELSE zone[d][i]]
             changed == {i \in DOMAIN ops : ops[i] # s[i]}
  <2>2. /\ Commits(d) /\ Goes(t, Idle)
        /\ table' = [table EXCEPT ![d] = Changed(call, table[d], r)]
        /\ seg' = [seg EXCEPT ![d] = segd] /\ zone' = [zone EXCEPT ![d] = zoned]
    BY <1>5, <1>7 DEF Stops
  <2>3. \A i \in Ids : seg[d][i] = s[i]
    BY <1>1, <1>3, <1>7, UnchangedIsSame DEF TableInv
  <2>4. segd = new
    BY <2>3
  <2>5. Whole(s) /\ TableInv(d)
    BY <1>1, <1>3
  <2>6. /\ Whole(new) /\ RowsOf(new) = Changed(call, RowsOf(s), r)
        /\ \A i \in Used(new) :
              IF i \in DOMAIN ops /\ ops[i] # s[i] THEN new[i] = ops[i] /\ new[i].at = "local"
              ELSE new[i] = s[i] /\ i \in Used(s)
    <3>1. PICK n : n = new
      OBVIOUS
    <3> HIDE DEF new
    <3>2. n = [i \in Ids |-> IF i \in DOMAIN ops THEN ops[i] ELSE s[i]]
      BY ZenonT(40), <3>1 DEF new
    <3>3. /\ Whole(n) /\ RowsOf(n) = Changed(call, RowsOf(s), r)
          /\ \A i \in Used(n) :
                IF i \in DOMAIN ops /\ ops[i] # s[i] THEN n[i] = ops[i] /\ n[i].at = "local"
                ELSE n[i] = s[i] /\ i \in Used(s)
      <4>1. call = "insert" => r \notin RowsOf(s)
        BY <1>5
      <4> QED
        BY <1>4, <2>5, <3>2, <4>1, BatchFacts, SMTT(30)
    <3> QED
      BY <3>1, <3>3
  <2>7. \A i \in Ids : zoned[i] = IF i \in changed THEN ZoneOf(ops[i]) ELSE zone[d][i]
    OBVIOUS
  <2>8. \A i : i \in changed <=> i \in DOMAIN ops /\ ops[i] # s[i]
    OBVIOUS
  <2> HIDE DEF new, segd, zoned, changed
  <2>9. Covers(zoned, new) /\ Tiered(new)
    <3>1. \A i \in Used(new) : IF i \in changed THEN zoned[i] = ZoneOf(new[i]) /\ new[i].at = "local"
                               ELSE zoned[i] = zone[d][i] /\ new[i] = s[i] /\ i \in Used(s)
      BY <2>6, <2>7, <2>8 DEF Used
    <3> QED
      BY <2>3, <2>5, <2>6, <3>1, BatchCovers, SMTT(30)
  <2>10. /\ DOMAIN seg' = Dbs /\ DOMAIN zone' = Dbs /\ DOMAIN table' = Dbs
         /\ seg'[d] = new /\ zone'[d] = zoned /\ table'[d] = Changed(call, table[d], r)
         /\ \A e \in Dbs \ {d} : seg'[e] = seg[e] /\ zone'[e] = zone[e] /\ table'[e] = table[e]
    BY ZenonT(40), <2>1, <2>2, <2>4
  <2>11. RowsOf(seg'[d]) = table'[d]
    BY <2>3, <2>5, <2>6, <2>10, SameFacts, SMTT(30) DEF TableInv
  <2>12. installed' = installed /\ objects' = objects
         /\ UNCHANGED <<start, tier, interrupted, todo, backups, marker>>
    BY <1>5 DEF cloud, store
  <2>13. Tiered(seg[d])'
    BY <2>9, <2>10, <2>12 DEF Tiered
  <2>14. StoreInv'
    BY <2>12, StoreKeeps DEF CloudInv
  <2>15. th'[t] = Idle => ThreadInv(t)'
    BY IdleFacts, FreeThread
  <2>16. d = Db(t) /\ Whole(seg'[d]) /\ Covers(zone'[d], seg'[d])
    BY <1>3, <2>6, <2>9, <2>10
  <2> QED
    BY <1>2, <2>2, <2>10, <2>11, <2>12, <2>13, <2>14, <2>15, <2>16, TableCommits
<1> QED
  BY <1>6, <1>7

-----------------------------------------------------------------------------
(* Tiering.                                                                *)

LEMMA MetaFacts ==
    ASSUME NEW state, NEW path, NEW rows
    PROVE  /\ Meta(state, path, rows).state = state /\ Meta(state, path, rows).path = path
           /\ Meta(state, path, rows).checksum = rows
           /\ \A other : [Meta(state, path, rows) EXCEPT !.state = other] = Meta(other, path, rows)
  BY SMTT(30) DEF Meta

LEMMA RecoverNextKeeps ==
    ASSUME CloudInv, NEW t \in Threads, RecoverNext(t), UNCHANGED store
    PROVE  CloudInv'
<1>1. /\ DOMAIN th[t] = Fields /\ th[t].pc = "recover" /\ ThreadInv(t) /\ th[t].id \in Nat
      /\ \A i \in Ids : IsMeta(th[t].meta[i])
  BY ThreadFacts DEF RecoverNext, At, ThreadInv, TierInv
<1>2. UNCHANGED <<start, data, cloud, todo, store>> /\ Unfinished(t) # {}
  BY DEF RecoverNext
<1>3. Hands(t)
  BY <1>1 DEF Hands, Uploading
<1>4. Min(Unfinished(t)) \in Unfinished(t)
  <2>1. Unfinished(t) \subseteq Nat
    BY IdsFacts, ZenonT(30) DEF Unfinished
  <2> QED
    BY <1>2, <2>1, MinOfNaturals
<1>5. PICK i, m, value : i = Min(Unfinished(t)) /\ m = th[t].meta[i] /\ value = seg[Db(t)][i]
  OBVIOUS
<1>6. i \in Ids /\ i \in Nat /\ m # None /\ m = Meta(m.state, m.path, m.checksum)
  BY <1>1, <1>4, <1>5, IdsFacts DEF Unfinished, IsMeta
<1> DEFINE self == [th[t] EXCEPT !.id = i, !.record = m, !.next = "recover"]
           there == m.path \in DOMAIN objects /\ objects[m.path] = m.checksum
           v1 == [self EXCEPT !.pc = "install", !.ptr = Pointer(m.path, m.checksum)]
           v2 == [self EXCEPT !.pc = "reconcile"]
           v3 == [self EXCEPT !.pc = "save", !.record = Meta("Local", None, m.checksum)]
           v4 == [th[t] EXCEPT !.id = i + 1]
<1>7. \/ there /\ Goes(t, v1)
      \/ Goes(t, v2)
      \/ Goes(t, v3)
      \/ Goes(t, v4)
  BY <1>5 DEF RecoverNext
<1>8. objects' = objects /\ installed' = installed
  BY <1>2, SMTT(30) DEF cloud
<1>9. CASE there /\ Goes(t, v1)
  <2>1. /\ DOMAIN v1 = Fields /\ v1.pc = "install" /\ v1.id = i /\ v1.record = m /\ v1.next = "recover"
        /\ v1.meta = th[t].meta /\ v1.ptr = Pointer(m.path, m.checksum)
    BY <1>1, FieldsFacts
  <2>2. m.path \in Paths /\ m.path[2] = m.checksum /\ m.path \in DOMAIN objects
    BY <1>9, SMTT(30) DEF CloudInv, StoreInv
  <2> HIDE DEF v1
  <2>3. ASSUME th'[t] = v1 PROVE ThreadInv(t)'
    <3>1. TierInv(t)'
      BY <1>1, <1>6, <2>1, <2>3 DEF TierInv, Uploading
    <3>2. RecordInv(t)'
      BY <1>6, <1>8, <2>1, <2>2, <2>3 DEF RecordInv, Uploading
    <3> QED
      BY <2>1, <2>3, <3>1, <3>2, TieringThread
  <2> QED
    BY <1>2, <1>3, <1>9, <2>3, InnerKeeps
<1>10. CASE Goes(t, v2)
  <2>1. /\ DOMAIN v2 = Fields /\ v2.pc = "reconcile" /\ v2.id = i /\ v2.record = m /\ v2.next = "recover"
        /\ v2.meta = th[t].meta
    BY <1>1, FieldsFacts
  <2> HIDE DEF v2
  <2>2. ASSUME th'[t] = v2 PROVE ThreadInv(t)'
    <3>1. TierInv(t)'
      BY <1>1, <1>6, <2>1, <2>2 DEF TierInv, Uploading
    <3>2. RecordInv(t)'
      BY <1>6, <2>1, <2>2 DEF RecordInv, Uploading
    <3> QED
      BY <2>1, <2>2, <3>1, <3>2, TieringThread
  <2> QED
    BY <1>2, <1>3, <1>10, <2>2, InnerKeeps
<1>11. CASE Goes(t, v3)
  <2>1. /\ DOMAIN v3 = Fields /\ v3.pc = "save" /\ v3.id = i /\ v3.next = "recover"
        /\ v3.record = Meta("Local", None, m.checksum) /\ v3.meta = th[t].meta
    BY <1>1, FieldsFacts
  <2>2. /\ v3.record = Meta(v3.record.state, v3.record.path, v3.record.checksum)
        /\ v3.record.state = "Local"
    <3> HIDE DEF v3
    <3> QED
      BY <2>1, MetaFacts, SMTT(30)
  <2> HIDE DEF v3
  <2>3. ASSUME th'[t] = v3 PROVE ThreadInv(t)'
    <3>1. TierInv(t)'
      BY <1>1, <1>6, <2>1, <2>3 DEF TierInv, Uploading
    <3>2. RecordInv(t)'
      BY <2>1, <2>2, <2>3 DEF RecordInv, Uploading
    <3> QED
      BY <2>1, <2>3, <3>1, <3>2, TieringThread
  <2> QED
    BY <1>2, <1>3, <1>11, <2>3, InnerKeeps
<1>12. CASE Goes(t, v4)
  <2>1. DOMAIN v4 = Fields /\ v4.pc = "recover" /\ v4.id = i + 1 /\ v4.meta = th[t].meta
    BY <1>1, FieldsFacts
  <2> HIDE DEF v4
  <2>2. ASSUME th'[t] = v4 PROVE ThreadInv(t)'
    <3>1. i + 1 \in Nat
      BY <1>6, SMTT(30)
    <3>2. TierInv(t)'
      BY <1>1, <2>1, <2>2, <3>1 DEF TierInv, Uploading
    <3>3. RecordInv(t)'
      BY <2>1, <2>2 DEF RecordInv, Uploading
    <3> QED
      BY <2>1, <2>2, <3>2, <3>3, TieringThread
  <2> QED
    BY <1>2, <1>3, <1>12, <2>2, InnerKeeps
<1> QED
  BY SMTT(30), <1>7, <1>9, <1>10, <1>11, <1>12

LEMMA TierListKeeps ==
    ASSUME CloudInv, NEW t \in Threads, TierList(t), UNCHANGED store
    PROVE  CloudInv'
<1>1. /\ DOMAIN th[t] = Fields /\ th[t].pc = "recover" /\ ThreadInv(t) /\ Whole(seg[Db(t)])
  BY ThreadFacts DEF TierList, At, TableInv
<1>2. PICK i \in Ids : Goes(t, [th[t] EXCEPT !.pc = "tier", !.meta = None, !.snap = seg[Db(t)], !.id = i])
  BY DEF TierList
<1>3. UNCHANGED <<start, data, cloud, todo, store>>
  BY DEF TierList
<1>4. Hands(t)
  BY <1>1 DEF Hands, Uploading
<1> DEFINE v == [th[t] EXCEPT !.pc = "tier", !.meta = None, !.snap = seg[Db(t)], !.id = i]
<1>5. DOMAIN v = Fields /\ v.pc = "tier" /\ v.id = i /\ v.snap = seg[Db(t)]
  BY <1>1, FieldsFacts
<1>6. Goes(t, v) /\ i \in Nat
  BY <1>2, IdsFacts
<1> HIDE DEF v
<1>7. th'[t] = v => ThreadInv(t)'
  BY <1>1, <1>5, <1>6 DEF ThreadInv, WriterInv, ScanInv, TierInv, RecordInv, ResumeInv, Uploading
<1> QED
  BY <1>3, <1>4, <1>6, <1>7, InnerKeeps

LEMMA TierEndKeeps ==
    ASSUME CloudInv, NEW t \in Threads, TierEnd(t), UNCHANGED store
    PROVE  CloudInv'
<1>1. Hands(t)
  BY DEF TierEnd, At, Hands, Uploading
<1>2. Stops(t) /\ UNCHANGED <<start, data, objects, installed, interrupted, backups, marker, todo>>
  BY DEF TierEnd, cloud, store
<1> QED
  BY <1>1, <1>2, StopKeeps

LEMMA FailKeeps ==
    ASSUME CloudInv, NEW t \in Threads, Fail(t), UNCHANGED store
    PROVE  CloudInv'
<1>1. Hands(t)
  BY DEF Fail, Hands
<1>2. Stops(t) /\ UNCHANGED <<start, data, objects, installed, backups, marker, todo>>
      /\ interrupted \subseteq interrupted'
  BY DEF Fail, store
<1> QED
  BY <1>1, <1>2, StopKeeps

(* A run that goes on with its segment.                                    *)
LEMMA GoesOn ==
    ASSUME CloudInv, NEW t \in Threads, Uploading(t), NEW v, th'[t] = v, DOMAIN v = Fields,
           v.pc \in {"upload", "install", "reread", "reconcile", "finish", "save"},
           v.id = th[t].id, v.next = th[t].next, v.meta = th[t].meta, v.snap = th[t].snap, RecordInv(t)'
    PROVE  ThreadInv(t)' /\ Hands(t)
<1>1. TierInv(t)
  BY ThreadFacts DEF ThreadInv
<1>2. TierInv(t)'
  BY <1>1 DEF TierInv, Uploading
<1>3. WriterInv(t)' /\ ScanInv(t)' /\ ResumeInv(t)'
  BY DEF WriterInv, ScanInv, ResumeInv
<1>4. Hands(t)
  BY DEF Hands, Uploading
<1> QED
  BY <1>2, <1>3, <1>4 DEF ThreadInv

LEMMA RereadKeeps ==
    ASSUME CloudInv, NEW t \in Threads, Reread(t), UNCHANGED store
    PROVE  CloudInv'
<1>1. /\ DOMAIN th[t] = Fields /\ th[t].pc = "reread" /\ ThreadInv(t) /\ TableInv(Db(t)) /\ th[t].id \in Ids
  BY ThreadFacts DEF Reread, At, ThreadInv, TierInv, Uploading
<1>2. PICK pc : pc = IF seg[Db(t)][th[t].id] = th[t].ptr THEN "finish" ELSE "reconcile"
  OBVIOUS
<1> DEFINE v == [th[t] EXCEPT !.pc = pc]
<1>3. Goes(t, v) /\ UNCHANGED <<start, data, cloud, todo, store>>
  BY <1>2 DEF Reread
<1>4. /\ DOMAIN v = Fields /\ v.pc = pc /\ v.id = th[t].id /\ v.record = th[t].record /\ v.ptr = th[t].ptr
      /\ v.next = th[t].next /\ v.meta = th[t].meta /\ v.snap = th[t].snap
  BY <1>1, FieldsFacts
<1> HIDE DEF v
<1>5. pc = "finish" => <<th[t].id, th[t].ptr>> \in installed
  <2> SUFFICES ASSUME pc = "finish" PROVE <<th[t].id, th[t].ptr>> \in installed
    OBVIOUS
  <2>1. seg[Db(t)][th[t].id] = th[t].ptr
    BY <1>2
  <2>2. PICK path \in Paths : th[t].ptr = Pointer(path, path[2])
    BY ZenonT(40), <1>1 DEF ThreadInv, RecordInv
  <2>3. th[t].ptr # None /\ th[t].ptr.at = "remote"
    BY <2>2, PointerFacts, SMTT(30) DEF Pointer
  <2>4. th[t].id \in Used(seg[Db(t)])
    BY <1>1, <2>1, <2>3 DEF Used
  <2> QED
    BY <1>1, <2>1, <2>3, <2>4 DEF TableInv, Tiered
<1>6. objects' = objects /\ installed' = installed /\ pc \in {"finish", "reconcile"}
  BY <1>2, <1>3 DEF cloud
<1>7. th'[t] = v /\ Uploading(t)
  BY ZenonT(40), <1>1, <1>3, ThreadFacts DEF Goes, Uploading
<1>8. RecordInv(t)'
  BY <1>1, <1>4, <1>5, <1>6, <1>7, ZenonT(40) DEF ThreadInv, RecordInv, Uploading
<1>9. ThreadInv(t)' /\ Hands(t)
  BY <1>4, <1>6, <1>7, <1>8, GoesOn
<1> QED
  BY <1>3, <1>9, InnerKeeps

(* reconcile_segment_metadata writes Remote only for a pointer that is in  *)
(* the table, and never leaves an Uploading record behind.                 *)
LEMMA ReconcileKeeps ==
    ASSUME CloudInv, NEW t \in Threads, Reconcile(t), UNCHANGED store
    PROVE  CloudInv'
<1>1. /\ DOMAIN th[t] = Fields /\ th[t].pc = "reconcile" /\ ThreadInv(t) /\ TableInv(Db(t)) /\ th[t].id \in Ids
  BY ThreadFacts DEF Reconcile, At, ThreadInv, TierInv, Uploading
<1>2. PICK m, value, k : m = Reconciled(value, th[t].record) /\ value = seg[Db(t)][th[t].id] /\ k = th[t].record
  OBVIOUS
<1> DEFINE v == [th[t] EXCEPT !.pc = "save", !.record = m]
<1>3. Goes(t, v) /\ UNCHANGED <<start, data, cloud, todo, store>>
  BY <1>1, <1>2, FieldsFacts DEF Reconcile
<1>4. /\ DOMAIN v = Fields /\ v.pc = "save" /\ v.id = th[t].id /\ v.record = m
      /\ v.next = th[t].next /\ v.meta = th[t].meta /\ v.snap = th[t].snap
  BY <1>1, FieldsFacts
<1> HIDE DEF v
<1>5. k = Meta(k.state, k.path, k.checksum)
  BY <1>1, <1>2 DEF ThreadInv, RecordInv, Uploading
<1>6. /\ m = Meta(m.state, m.path, m.checksum) /\ m.state # "Uploading"
      /\ m.state = "Remote" => <<th[t].id, Pointer(m.path, m.checksum)>> \in installed
  <2>1. CASE value = None
    <3>1. m = Meta("Failed", k.path, k.checksum)
      BY <1>2, <1>5, <2>1, MetaFacts, SMTT(30) DEF Reconciled
    <3> QED
      BY <3>1, MetaFacts, SMTT(30)
  <2>2. CASE value # None /\ value.at = "remote"
    <3>1. m = Meta("Remote", value.path, value.checksum)
      BY <1>2, <2>2 DEF Reconciled
    <3>2. value \in Segments /\ th[t].id \in Used(seg[Db(t)])
      BY <1>1, <1>2, <2>2 DEF TableInv, Whole, Used
    <3>3. value = Pointer(value.path, value.checksum)
      BY <2>2, <3>2, SegmentFacts
    <3>4. <<th[t].id, value>> \in installed
      BY <1>1, <1>2, <2>2, <3>2 DEF TableInv, Tiered
    <3> QED
      BY <3>1, <3>3, <3>4, MetaFacts, SMTT(30)
  <2>3. CASE value # None /\ value.at # "remote"
    <3>1. m = Meta("Local", None, k.checksum)
      BY <1>2, <2>3 DEF Reconciled
    <3> QED
      BY <3>1, MetaFacts, SMTT(30)
  <2> QED
    BY <2>1, <2>2, <2>3
<1>7. objects' = objects /\ installed' = installed
  BY <1>3 DEF cloud
<1>8. th'[t] = v /\ Uploading(t)
  BY <1>1, <1>3, ThreadFacts DEF Goes, Uploading
<1>9. RecordInv(t)'
  BY <1>4, <1>6, <1>7, <1>8 DEF RecordInv, Uploading
<1>10. ThreadInv(t)' /\ Hands(t)
  BY ZenonT(40), <1>4, <1>8, <1>9, GoesOn
<1> QED
  BY <1>3, <1>10, InnerKeeps

(* The Uploading record of a segment, with the path it will have.          *)
LEMMA TierSegmentKeeps ==
    ASSUME CloudInv, NEW t \in Threads, TierSegment(t), UNCHANGED store
    PROVE  CloudInv'
<1>1. /\ DOMAIN th[t] = Fields /\ th[t].pc = "tier" /\ ThreadInv(t) /\ Whole(th[t].snap) /\ th[t].id \in Nat
      /\ Db(t) \in Dbs /\ DataInv /\ TableInv(Db(t))
  BY ThreadFacts DEF TierSegment, At, ThreadInv, TierInv
<1>2. Min(LocalSegments(t)) \in LocalSegments(t)
  <2>1. LocalSegments(t) \subseteq Nat /\ LocalSegments(t) # {}
    BY IdsFacts DEF LocalSegments, Used, TierSegment
  <2> QED
    BY SMTT(30), <2>1, MinOfNaturals
<1>3. PICK i : i = Min(LocalSegments(t))
  OBVIOUS
<1>4. PICK rows : rows = th[t].snap[i].rows
  OBVIOUS
<1>5. i \in Ids /\ rows \in RowSets
  <2>1. i \in Used(th[t].snap) /\ th[t].snap[i].at = "local"
    BY <1>2, <1>3 DEF LocalSegments
  <2>2. i \in Ids /\ th[t].snap[i] \in Segments
    BY <1>1, <2>1 DEF Whole, Used
  <2> QED
    BY <1>4, <2>1, <2>2, SegmentFacts, SMTT(30) DEF RowSets
<1>6. PICK d \in Dbs : d = Db(t)
  BY <1>1
<1>7. PICK path, m, p : path = Path(i, rows) /\ m = Meta("Uploading", path, rows) /\ p = Pointer(path, rows)
  OBVIOUS
<1> DEFINE v == [th[t] EXCEPT !.pc = "upload", !.id = i, !.record = m, !.next = "tier", !.ptr = p]
<1>8. /\ Goes(t, v) /\ Commits(d) /\ tier' = [tier EXCEPT ![d][i] = m]
      /\ UNCHANGED <<start, seg, zone, table, cloud, todo>>
  BY <1>3, <1>4, <1>6, <1>7 DEF TierSegment
<1>9. path \in Paths /\ path[2] = rows
  BY <1>5, <1>7, PathFacts
<1>10. m = Meta(m.state, m.path, m.checksum) /\ m.state = "Uploading" /\ m.path = path /\ m.checksum = rows
  BY <1>7, MetaFacts, SMTT(30)
<1>11. /\ DOMAIN v = Fields /\ v.pc = "upload" /\ v.id = i /\ v.record = m /\ v.next = "tier"
       /\ v.ptr = p /\ v.snap = th[t].snap
  BY <1>1, FieldsFacts
<1> HIDE DEF v
<1>12. ASSUME th'[t] = v PROVE ThreadInv(t)'
  <2>1. i \in Nat
    BY <1>5, IdsFacts
  <2>2. TierInv(t)'
    BY <1>1, <1>5, <1>11, <1>12, <2>1 DEF TierInv, Uploading
  <2>3. RecordInv(t)'
    BY <1>7, <1>9, <1>10, <1>11, <1>12 DEF RecordInv, Uploading
  <2> QED
    BY <1>11, <1>12, <2>2, <2>3, TieringThread
<1>13. TableInv(d) /\ DOMAIN tier = Dbs /\ DOMAIN seg = Dbs /\ DOMAIN zone = Dbs /\ DOMAIN table = Dbs
  BY <1>1, <1>6 DEF DataInv
<1>14. DOMAIN tier[d] = Ids
  BY <1>13 DEF TableInv
<1>15. /\ DOMAIN tier' = Dbs /\ DOMAIN tier'[d] = Ids /\ tier'[d][i] = m
       /\ \A j \in Ids \ {i} : tier'[d][j] = tier[d][j]
       /\ \A e \in Dbs \ {d} : tier'[e] = tier[e]
  BY <1>5, <1>8, <1>13, <1>14
<1>16. installed' = installed /\ objects' = objects /\ interrupted' = interrupted
       /\ UNCHANGED <<start, seg, zone, table, todo, backups, marker>>
  BY <1>8 DEF cloud, store
<1>17. ASSUME lsn'[d] \in Nat PROVE TableInv(d)'
  <2>1. ASSUME NEW j \in Ids PROVE IsMeta(tier'[d][j]) /\ RemoteIsInstalled(tier[d][j], j)'
    <3>1. CASE j = i
      BY <3>1, <1>10, <1>15 DEF IsMeta, RemoteIsInstalled
    <3>2. CASE j # i
      BY <3>2, <1>13, <1>15, <1>16 DEF TableInv, RemoteIsInstalled
    <3> QED
      BY <3>1, <3>2
  <2>2. Tiered(seg[d])'
    BY <1>13, <1>16 DEF TableInv, Tiered
  <2> QED
    BY <1>13, <1>15, <1>16, <1>17, <2>1, <2>2 DEF TableInv
<1>18. StoreInv'
  BY <1>16, StoreKeeps DEF CloudInv
<1>19. ASSUME Forward(t) PROVE UploadInv'
  <2> SUFFICES ASSUME NEW e \in Dbs, NEW j \in Ids, tier'[e][j] # None, tier'[e][j].state = "Uploading",
                      <<e, j>> \notin interrupted
               PROVE  \E u \in Threads : Db(u)' = e /\ th'[u].id = j /\ Uploading(u)'
    BY <1>16 DEF UploadInv
  <2>1. \A u \in Threads : Db(u)' = Db(u)
    BY <1>16 DEF Db
  <2>2. th'[t] = v
    BY <1>8, ThreadFacts DEF Goes
  <2>3. CASE e = d /\ j = i
    <3>1. Db(t)' = e /\ th'[t].id = j /\ Uploading(t)'
      BY <1>6, <1>11, <2>1, <2>2, <2>3 DEF Uploading
    <3> QED
      BY <3>1
  <2>4. CASE ~(e = d /\ j = i)
    <3>1. tier'[e][j] = tier[e][j]
      BY ZenonT(40), <1>15, <2>4
    <3>2. PICK u \in Threads : Db(u) = e /\ th[u].id = j /\ Uploading(u)
      BY <3>1, SMTT(30) DEF CloudInv, UploadInv
    <3>3. u # t
      BY <1>1, <3>2 DEF Uploading
    <3>4. th'[u] = th[u]
      BY ZenonT(40), <1>19, <3>3 DEF Forward
    <3> QED
      BY <2>1, <3>2, <3>4 DEF Uploading
  <2> QED
    BY <2>3, <2>4
<1>20. /\ DOMAIN seg' = Dbs /\ DOMAIN zone' = Dbs /\ DOMAIN tier' = Dbs /\ DOMAIN table' = Dbs
       /\ \A e \in Dbs \ {d} : seg'[e] = seg[e] /\ zone'[e] = zone[e] /\ tier'[e] = tier[e] /\ table'[e] = table[e]
  BY <1>13, <1>15, <1>16
<1> QED
  BY SMTT(30), <1>6, <1>8, <1>12, <1>16, <1>17, <1>18, <1>19, <1>20, CommitKeeps

(* An upload overwrites an object only with the same rows: its path names  *)
(* them.                                                                   *)
LEMMA UploadKeepsObjects ==
    ASSUME CloudInv, NEW t \in Threads, Upload(t), UNCHANGED store
    PROVE  CloudInv'
<1>1. /\ DOMAIN th[t] = Fields /\ th[t].pc = "upload" /\ ThreadInv(t)
  BY ThreadFacts DEF Upload, At
<1>2. PICK path, rows : path = th[t].ptr.path /\ rows = th[t].ptr.checksum
  OBVIOUS
<1>3. path \in Paths /\ path[2] = rows /\ th[t].record.path = path
  <2>1. PICK m : /\ m = th[t].record /\ m.path \in Paths /\ m.path[2] = m.checksum
                 /\ th[t].ptr = Pointer(m.path, m.checksum)
    BY <1>1 DEF ThreadInv, RecordInv
  <2>2. Pointer(m.path, m.checksum).path = m.path /\ Pointer(m.path, m.checksum).checksum = m.checksum
    BY PointerFields
  <2> QED
    BY <1>2, <2>1, <2>2
<1>4. objects' = [p \in DOMAIN objects \cup {path} |-> IF p = path THEN rows ELSE objects[p]]
  BY <1>2 DEF Upload
<1>5. UNCHANGED <<start, data, installed, interrupted, todo, backups, marker>>
  BY DEF Upload, store
<1>6. DOMAIN objects' = DOMAIN objects \cup {path} /\ \A p \in DOMAIN objects : objects'[p] = objects[p]
  BY <1>3, <1>4 DEF CloudInv, StoreInv
<1>7. StoreInv'
  <2>1. \A p \in DOMAIN objects' : p \in Paths /\ objects'[p] = p[2]
    BY <1>3, <1>4 DEF CloudInv, StoreInv
  <2>2. \A p \in installed : p[2] \in Segments /\ Resolves(p[2])'
    BY <1>6 DEF CloudInv, StoreInv, Resolves
  <2> QED
    BY <1>5, <2>1, <2>2 DEF StoreInv
<1> DEFINE v == [th[t] EXCEPT !.pc = "install"]
<1>8. Goes(t, v)
  BY DEF Upload
<1>9. /\ DOMAIN v = Fields /\ v.pc = "install" /\ v.id = th[t].id /\ v.record = th[t].record /\ v.ptr = th[t].ptr
      /\ v.next = th[t].next /\ v.meta = th[t].meta /\ v.snap = th[t].snap
  BY <1>1, FieldsFacts
<1> HIDE DEF v
<1>10. DOMAIN th' = Threads /\ th'[t] = v /\ \A u \in Threads \ {t} : th'[u] = th[u]
  BY <1>8, ThreadFacts DEF Goes
<1>11. ThreadInv(t)' /\ Hands(t)
  <2>1. RecordInv(t)'
    BY <1>1, <1>3, <1>6, <1>9, <1>10 DEF ThreadInv, RecordInv, Uploading
  <2>2. Uploading(t)
    BY <1>1 DEF Uploading
  <2> QED
    BY <1>9, <1>10, <2>1, <2>2, GoesOn
<1>12. lsn' = lsn /\ seg' = seg /\ tier' = tier /\ installed' = installed /\ backups' = backups
       /\ interrupted' = interrupted /\ start' = start /\ todo' = todo
  BY <1>5 DEF data
<1>13. Forward(t)
  <2>1. \A u \in Threads : Db(u) \in Dbs /\ lsn[Db(u)] \in Nat
    BY ThreadFacts DEF TableInv
  <2>2. DOMAIN todo = Threads
    BY DEF CloudInv
  <2>3. \A n \in Nat : n <= n
    BY SMTT(30)
  <2> QED
    BY <1>6, <1>10, <1>12, <2>1, <2>2, <2>3 DEF Forward
<1>15. TodoInv(t)'
  BY <1>12, TodoKeeps
<1>16. \A u \in Threads : ThreadInv(u)' /\ TodoInv(u)'
  BY <1>11, <1>13, <1>15, OthersKeep
<1>17. UploadInv'
  BY <1>11, <1>12, <1>13, UploadKeeps
<1>18. DataInv' /\ BackupsInv' /\ start' \in Starts /\ DOMAIN todo' = Threads
  BY ZenonT(40), <1>5, <1>12, DataKeeps, BackupsKeep DEF CloudInv
<1> QED
  BY <1>7, <1>10, <1>16, <1>17, <1>18 DEF CloudInv

(* A pointer to the rows of a segment, in its place.                       *)
LEMMA SwapFacts ==
    ASSUME NEW s, Whole(s), NEW i \in Ids, NEW p \in Segments, s[i] = Local(Content(p)),
           NEW new, DOMAIN new = Ids, new[i] = p, \A j \in Ids \ {i} : new[j] = s[j]
    PROVE  /\ Whole(new) /\ RowsOf(new) = RowsOf(s) /\ Used(new) = Used(s)
           /\ \A j \in Used(s) : Content(new[j]) = Content(s[j])
<1>1. p # None /\ Content(p) \in SUBSET Rows /\ Content(p) # {}
  BY SegmentFacts
<1>2. s[i] # None /\ Content(s[i]) = Content(p)
  BY <1>1, LocalFacts
<1>3. Used(new) = Used(s)
  BY <1>1, <1>2 DEF Used
<1>4. \A j \in Used(s) : Content(new[j]) = Content(s[j])
  BY <1>2 DEF Used
<1>5. RowsOf(new) = RowsOf(s)
  BY <1>3, <1>4 DEF RowsOf
<1>6. Whole(new)
  BY <1>3, <1>4 DEF Whole
<1> QED
  BY <1>3, <1>4, <1>5, <1>6

(* install_tiered_pointer                                                  *)
LEMMA InstallKeeps ==
    ASSUME CloudInv, NEW t \in Threads, Install(t), UNCHANGED store
    PROVE  CloudInv'
<1>1. /\ DOMAIN th[t] = Fields /\ th[t].pc = "install" /\ ThreadInv(t) /\ th[t].id \in Ids
      /\ Db(t) \in Dbs /\ DataInv /\ TableInv(Db(t)) /\ Uploading(t)
  BY ThreadFacts DEF Install, At, ThreadInv, TierInv, Uploading
<1>2. PICK d \in Dbs, i \in Ids : d = Db(t) /\ i = th[t].id
  BY <1>1
<1>3. PICK p, path, rows : p = th[t].ptr /\ path = th[t].record.path /\ rows = th[t].record.checksum
  OBVIOUS
<1>4. path \in Paths /\ path[2] = rows /\ p = Pointer(path, rows) /\ path \in DOMAIN objects
  BY <1>1, <1>3 DEF ThreadInv, RecordInv
<1>5. p \in Segments /\ Content(p) = rows /\ p.checksum = rows /\ p.path = path
  BY <1>4, PointerFacts DEF Pointer
<1>6. UNCHANGED <<start, zone, tier, table, objects, interrupted, todo, store>>
  BY DEF Install
<1>7. CASE ~StillUploaded(t)
  <2> DEFINE v == [th[t] EXCEPT !.pc = "reread"]
  <2>1. Goes(t, v) /\ UNCHANGED <<start, data, cloud, todo, store>>
    BY <1>6, <1>7 DEF Install, data, cloud
  <2>2. /\ DOMAIN v = Fields /\ v.pc = "reread" /\ v.id = th[t].id /\ v.record = th[t].record /\ v.ptr = th[t].ptr
        /\ v.next = th[t].next /\ v.meta = th[t].meta /\ v.snap = th[t].snap
    BY <1>1, FieldsFacts
  <2> HIDE DEF v
  <2>3. th'[t] = v /\ objects' = objects
    BY <2>1, ThreadFacts DEF Goes, cloud
  <2>4. RecordInv(t)'
    BY <1>1, <2>2, <2>3 DEF ThreadInv, RecordInv, Uploading
  <2>5. ThreadInv(t)' /\ Hands(t)
    BY <1>1, <2>2, <2>3, <2>4, GoesOn
  <2> QED
    BY <2>1, <2>5, InnerKeeps
<1>8. CASE StillUploaded(t)
  <2> DEFINE v == [th[t] EXCEPT !.pc = "finish"]
  <2>1. /\ Commits(d) /\ seg' = [seg EXCEPT ![d][i] = p] /\ installed' = installed \cup {<<i, p>>}
        /\ Goes(t, v)
    BY <1>2, <1>3, <1>8 DEF Install
  <2>2. /\ DOMAIN v = Fields /\ v.pc = "finish" /\ v.id = th[t].id /\ v.record = th[t].record /\ v.ptr = th[t].ptr
        /\ v.next = th[t].next /\ v.meta = th[t].meta /\ v.snap = th[t].snap
    BY <1>1, FieldsFacts
  <2> HIDE DEF v
  <2>3. th'[t] = v /\ objects' = objects
    BY <1>6, <2>1, ThreadFacts DEF Goes
  <2>4. RecordInv(t)'
    BY <1>1, <1>2, <1>3, <2>1, <2>2, <2>3 DEF ThreadInv, RecordInv, Uploading
  <2>5. ThreadInv(t)' /\ Hands(t)
    BY <1>1, <2>2, <2>3, <2>4, GoesOn
  <2>6. TableInv(d) /\ DOMAIN seg = Dbs /\ DOMAIN zone = Dbs /\ DOMAIN table = Dbs
    BY <1>1, <1>2 DEF DataInv
  <2>7. Whole(seg[d]) /\ DOMAIN seg[d] = Ids /\ seg[d][i] = Local(Content(p))
    BY <1>2, <1>3, <1>5, <1>8, <2>6 DEF TableInv, Whole, StillUploaded
  <2>8. /\ DOMAIN seg' = Dbs /\ DOMAIN seg'[d] = Ids /\ seg'[d][i] = p
        /\ \A j \in Ids \ {i} : seg'[d][j] = seg[d][j]
        /\ \A e \in Dbs \ {d} : seg'[e] = seg[e]
    BY <2>1, <2>6, <2>7
  <2>9. PICK new : new = seg'[d]
    OBVIOUS
  <2>10. /\ Whole(new) /\ RowsOf(new) = RowsOf(seg[d]) /\ Used(new) = Used(seg[d])
         /\ \A j \in Used(seg[d]) : Content(new[j]) = Content(seg[d][j])
    <3>1. PICK s : s = seg[d]
      OBVIOUS
    <3>2. /\ Whole(s) /\ s[i] = Local(Content(p)) /\ DOMAIN new = Ids /\ new[i] = p
          /\ \A j \in Ids \ {i} : new[j] = s[j]
      BY ZenonT(40), <2>7, <2>8, <2>9, <3>1
    <3>3. /\ Whole(new) /\ RowsOf(new) = RowsOf(s) /\ Used(new) = Used(s)
          /\ \A j \in Used(s) : Content(new[j]) = Content(s[j])
      BY <1>5, <3>2, SwapFacts, SMTT(30)
    <3> QED
      BY <3>1, <3>3
  <2>11. Covers(zone'[d], seg'[d])
    BY <1>6, <2>6, <2>9, <2>10 DEF TableInv, Covers
  <2>12. Tiered(seg[d])'
    <3> SUFFICES ASSUME NEW j \in Used(seg'[d]), seg'[d][j].at = "remote"
                 PROVE  <<j, seg'[d][j]>> \in installed'
      BY DEF Tiered
    <3>1. CASE j = i
      BY ZenonT(40), <3>1, <2>1, <2>8
    <3>2. CASE j # i
      <4>1. j \in Ids /\ seg'[d][j] = seg[d][j] /\ j \in Used(seg[d])
        BY <3>2, <2>8, <2>9, <2>10 DEF Used
      <4> QED
        BY <4>1, <2>1, <2>6, SMTT(30) DEF TableInv, Tiered
    <3> QED
      BY <3>1, <3>2
  <2>13. StoreInv'
    <3>1. objects[path] = path[2] /\ path \in DOMAIN objects
      BY <1>4 DEF CloudInv, StoreInv
    <3>2. Resolves(p)
      BY ZenonT(40), <1>4, <1>5, <3>1 DEF Resolves
    <3>3. \A q \in installed' : q[2] \in Segments /\ Resolves(q[2])
      BY <1>5, <2>1, <3>2, SMTT(30) DEF CloudInv, StoreInv
    <3> QED
      BY <2>3, <3>3 DEF CloudInv, StoreInv, Resolves
  <2>14. RowsOf(seg'[d]) = table'[d] /\ Whole(seg'[d])
    BY <1>6, <2>6, <2>9, <2>10 DEF TableInv
  <2>15. /\ UNCHANGED <<start, tier, interrupted, todo, backups, marker>>
         /\ DOMAIN zone' = Dbs /\ DOMAIN table' = Dbs /\ d = Db(t)
         /\ installed \subseteq installed' /\ DOMAIN objects \subseteq DOMAIN objects'
         /\ \A e \in Dbs \ {d} : seg'[e] = seg[e] /\ zone'[e] = zone[e] /\ table'[e] = table[e]
    BY <1>2, <1>6, <2>1, <2>3, <2>6, <2>8 DEF store
  <2> QED
    BY ZenonT(40), <2>1, <2>5, <2>8, <2>11, <2>12, <2>13, <2>14, <2>15, TableCommits
<1> QED
  BY <1>7, <1>8

(* The record of the outcome.                                              *)
LEMMA SavedKeeps ==
    ASSUME CloudInv, NEW t \in Threads, Uploading(t), NEW m, Saved(t, m), UNCHANGED store,
           m = Meta(m.state, m.path, m.checksum), m.state # "Uploading",
           m.state = "Remote" => <<th[t].id, Pointer(m.path, m.checksum)>> \in installed
    PROVE  CloudInv'
<1>1. /\ DOMAIN th[t] = Fields /\ ThreadInv(t) /\ th[t].id \in Ids /\ th[t].next \in {"recover", "tier"}
      /\ Db(t) \in Dbs /\ DataInv
  BY ThreadFacts DEF ThreadInv, TierInv
<1>2. PICK d \in Dbs, i \in Ids : d = Db(t) /\ i = th[t].id
  BY <1>1
<1> DEFINE v == [th[t] EXCEPT !.pc = th[t].next, !.id = th[t].id + 1, !.ptr = None, !.record = None]
<1>3. /\ Goes(t, v) /\ Commits(d) /\ tier' = [tier EXCEPT ![d][i] = m]
      /\ interrupted' = interrupted \ {<<d, i>>}
      /\ UNCHANGED <<start, seg, zone, table, objects, installed, todo, store>>
  BY <1>1, <1>2, FieldsFacts DEF Saved, SaveMeta
<1>4. /\ DOMAIN v = Fields /\ v.pc = th[t].next /\ v.id = i + 1 /\ v.meta = th[t].meta /\ v.snap = th[t].snap
  BY <1>1, <1>2, FieldsFacts
<1> HIDE DEF v
<1>5. v.id \in Nat
  <2>1. \A n \in Nat : n + 1 \in Nat
    BY SMTT(30)
  <2> QED
    BY <1>4, <2>1, IdsFacts
<1>6. th'[t] = v => ThreadInv(t)'
  <2> SUFFICES ASSUME th'[t] = v PROVE ThreadInv(t)'
    OBVIOUS
  <2>1. TierInv(t)'
    BY <1>1, <1>4, <1>5 DEF ThreadInv, TierInv, Uploading
  <2>2. WriterInv(t)' /\ ScanInv(t)' /\ ResumeInv(t)' /\ RecordInv(t)'
    BY <1>1, <1>4 DEF WriterInv, ScanInv, ResumeInv, RecordInv, Uploading
  <2> QED
    BY <1>4, <2>1, <2>2 DEF ThreadInv
<1>7. TableInv(d) /\ DOMAIN tier = Dbs /\ DOMAIN seg = Dbs /\ DOMAIN zone = Dbs /\ DOMAIN table = Dbs
  BY <1>1 DEF DataInv
<1>8. DOMAIN tier[d] = Ids
  BY <1>7 DEF TableInv
<1>9. /\ DOMAIN tier' = Dbs /\ DOMAIN tier'[d] = Ids /\ tier'[d][i] = m
      /\ \A j \in Ids \ {i} : tier'[d][j] = tier[d][j]
      /\ \A e \in Dbs \ {d} : tier'[e] = tier[e]
  BY <1>3, <1>7, <1>8
<1>10. installed' = installed /\ objects' = objects
       /\ UNCHANGED <<start, seg, zone, table, todo, backups, marker>>
  BY <1>3 DEF store
<1>11. ASSUME lsn'[d] \in Nat PROVE TableInv(d)'
  <2>1. ASSUME NEW j \in Ids PROVE IsMeta(tier'[d][j]) /\ RemoteIsInstalled(tier[d][j], j)'
    <3>1. CASE j = i
      BY <3>1, <1>2, <1>9, <1>10 DEF IsMeta, RemoteIsInstalled
    <3>2. CASE j # i
      BY <3>2, <1>7, <1>9, <1>10 DEF TableInv, RemoteIsInstalled
    <3> QED
      BY <3>1, <3>2
  <2>2. Tiered(seg[d])'
    BY <1>7, <1>10 DEF TableInv, Tiered
  <2> QED
    BY <1>7, <1>9, <1>10, <1>11, <2>1, <2>2 DEF TableInv
<1>12. StoreInv'
  BY <1>10, StoreKeeps DEF CloudInv
<1>13. ASSUME Forward(t) PROVE UploadInv'
  <2> SUFFICES ASSUME NEW e \in Dbs, NEW j \in Ids, tier'[e][j] # None, tier'[e][j].state = "Uploading",
                      <<e, j>> \notin interrupted'
               PROVE  \E u \in Threads : Db(u)' = e /\ th'[u].id = j /\ Uploading(u)'
    BY DEF UploadInv
  <2>1. ~(e = d /\ j = i)
    BY <1>9
  <2>2. tier'[e][j] = tier[e][j] /\ <<e, j>> \notin interrupted
    BY ZenonT(40), <1>3, <1>9, <2>1
  <2>3. PICK u \in Threads : Db(u) = e /\ th[u].id = j /\ Uploading(u)
    BY <2>2 DEF CloudInv, UploadInv
  <2>4. u # t
    BY <1>2, <2>1, <2>3
  <2>5. th'[u] = th[u] /\ Db(u)' = Db(u)
    BY <1>10, <1>13, <2>4 DEF Forward, Db
  <2> QED
    BY <2>3, <2>5 DEF Uploading
<1>14. /\ DOMAIN seg' = Dbs /\ DOMAIN zone' = Dbs /\ DOMAIN tier' = Dbs /\ DOMAIN table' = Dbs /\ d = Db(t)
       /\ \A e \in Dbs \ {d} : seg'[e] = seg[e] /\ zone'[e] = zone[e] /\ tier'[e] = tier[e] /\ table'[e] = table[e]
  BY <1>2, <1>7, <1>9, <1>10
<1> QED
  BY SMTT(30), <1>3, <1>6, <1>10, <1>11, <1>12, <1>13, <1>14, CommitKeeps

LEMMA FinishKeeps ==
    ASSUME CloudInv, NEW t \in Threads, Finish(t), UNCHANGED store
    PROVE  CloudInv'
<1>1. th[t].pc = "finish" /\ RecordInv(t)
  BY ThreadFacts DEF Finish, At, ThreadInv
<1>2. Uploading(t)
  BY <1>1 DEF Uploading
<1>3. PICK k, m : k = th[t].record /\ m = [k EXCEPT !.state = "Remote"]
  OBVIOUS
<1>4. k = Meta(k.state, k.path, k.checksum) /\ <<th[t].id, Pointer(k.path, k.checksum)>> \in installed
  BY ZenonT(40), <1>1, <1>2, <1>3 DEF RecordInv
<1>5. m = Meta("Remote", k.path, k.checksum)
  BY <1>3, <1>4, MetaFacts, SMTT(30)
<1>6. m.state = "Remote" /\ m.path = k.path /\ m.checksum = k.checksum
  BY <1>5, MetaFacts, SMTT(30)
<1>7. Saved(t, m)
  BY <1>3 DEF Finish
<1> QED
  BY <1>2, <1>4, <1>5, <1>6, <1>7, SavedKeeps

LEMMA SaveKeeps ==
    ASSUME CloudInv, NEW t \in Threads, Save(t), UNCHANGED store
    PROVE  CloudInv'
<1>1. th[t].pc = "save" /\ RecordInv(t)
  BY ThreadFacts DEF Save, At, ThreadInv
<1>2. Uploading(t)
  BY <1>1 DEF Uploading
<1>3. PICK m : m = th[t].record
  OBVIOUS
<1>4. /\ m = Meta(m.state, m.path, m.checksum) /\ m.state # "Uploading"
      /\ m.state = "Remote" => <<th[t].id, Pointer(m.path, m.checksum)>> \in installed
  BY <1>1, <1>2, <1>3 DEF RecordInv
<1>5. Saved(t, m)
  BY <1>3 DEF Save
<1> QED
  BY <1>2, <1>4, <1>5, SavedKeeps

-----------------------------------------------------------------------------
(* Hibernation and resumption.                                             *)

(* A step of a call that holds, takes or leaves the lease.                 *)
LEMMA CallStep ==
    ASSUME CloudInv, NEW t \in Threads, NEW v, Goes(t, v), ~Uploading(t),
           UNCHANGED <<start, data, cloud, todo, backups>>,
           marker' \in {marker, None} \cup DOMAIN backups, th'[t] = v => ThreadInv(t)'
    PROVE  CloudInv'
<1>1. UNCHANGED <<start, data, objects, installed, backups>> /\ interrupted' = interrupted
  BY DEF cloud
<1>2. DOMAIN todo' = Threads /\ TodoInv(t)' /\ \A u \in Threads \ {t} : todo'[u] = todo[u]
  BY TodoKeeps
<1>3. Hands(t)
  BY DEF Hands
<1> QED
  BY <1>1, <1>2, <1>3, LocalStep

(* The steps that need a backup, or that only wait for the lease.          *)
LEMMA WaitingThread ==
    ASSUME NEW t \in Threads, NEW v, th'[t] = v, DOMAIN v = Fields,
           \/ v.pc = "acquire" /\ v.call = "hibernate"
           \/ v.pc = "mark" /\ v.backup \in DOMAIN backups'
           \/ v.pc \in {"acquire", "restore"} /\ v.backup \in DOMAIN backups' /\ OwnDatabase(start, t)'
    PROVE  ThreadInv(t)'
<1>1. WriterInv(t)' /\ ScanInv(t)' /\ TierInv(t)'
  BY SMTT(20) DEF WriterInv, ScanInv, TierInv, Uploading
<1>2. RecordInv(t)'
  BY SMTT(20) DEF RecordInv, Uploading
<1>3. ResumeInv(t)'
  BY SMTT(20) DEF ResumeInv
<1> QED
  BY ZenonT(40), <1>1, <1>2, <1>3 DEF ThreadInv

LEMMA DieWritingKeeps ==
    ASSUME CloudInv, NEW t \in Threads, DieWriting(t)
    PROVE  CloudInv'
<1>1. th[t].pc \in {"acquire", "session"}
  BY DEF DieWriting, At
<1>2. Goes(t, Idle) /\ ~Uploading(t) /\ UNCHANGED <<start, data, cloud, todo, backups>> /\ marker' = marker
  BY <1>1 DEF DieWriting, Stops, Uploading
<1>3. th'[t] = Idle => ThreadInv(t)'
  BY IdleFacts, FreeThread
<1> QED
  BY <1>2, <1>3, CallStep

(* The lease is released at the end of a call or of a session.             *)
LEMMA ReleaseKeeps ==
    ASSUME CloudInv, NEW t \in Threads, CallRelease(t) \/ SessionEnd(t)
    PROVE  CloudInv'
<1>1. th[t].pc \in {"release", "session"}
  BY DEF CallRelease, SessionEnd, At
<1>2. Goes(t, Idle) /\ ~Uploading(t) /\ UNCHANGED <<start, data, cloud, todo, backups>> /\ marker' = marker
  BY <1>1 DEF CallRelease, SessionEnd, Stops, Uploading
<1>3. th'[t] = Idle => ThreadInv(t)'
  BY IdleFacts, FreeThread
<1> QED
  BY <1>2, <1>3, CallStep

LEMMA HibernateStartKeeps ==
    ASSUME CloudInv, NEW t \in Threads, HibernateStart(t)
    PROVE  CloudInv'
<1> DEFINE v == [Idle EXCEPT !.call = "hibernate", !.pc = "acquire"]
<1>1. DOMAIN v = Fields /\ v.pc = "acquire" /\ v.call = "hibernate"
  BY IdleFacts, FieldsFacts
<1>2. Begins(t, "hibernate") /\ Goes(t, v) /\ UNCHANGED <<start, data, cloud, store>>
  BY DEF HibernateStart
<1> HIDE DEF v
<1>3. th'[t] = v => ThreadInv(t)'
  BY <1>1, WaitingThread
<1> QED
  BY <1>2, <1>3, StartKeeps

(* A resumption, of the backup of the marker or of a backup that is given. *)
LEMMA ResumptionKeeps ==
    ASSUME CloudInv, NEW t \in Threads, NEW call \in {"resume", "restore"}, Begins(t, call),
           NEW b \in DOMAIN backups,
           Goes(t, [Idle EXCEPT !.call = call, !.pc = "acquire", !.backup = b]),
           UNCHANGED <<start, data, cloud, store>>
    PROVE  CloudInv'
<1> DEFINE v == [Idle EXCEPT !.call = call, !.pc = "acquire", !.backup = b]
<1>1. DOMAIN v = Fields /\ v.pc = "acquire" /\ v.backup = b
  BY IdleFacts, FieldsFacts
<1>2. Goes(t, v)
  OBVIOUS
<1> HIDE DEF v
<1>3. OwnDatabase(start, t)' /\ backups' = backups
  BY BeginsFacts DEF OwnDatabase, store
<1>4. th'[t] = v => ThreadInv(t)'
  BY <1>1, <1>3, WaitingThread
<1> QED
  BY ZenonT(40), <1>2, <1>4, StartKeeps

LEMMA ResumeStartKeeps ==
    ASSUME CloudInv, NEW t \in Threads, ResumeStart(t)
    PROVE  CloudInv'
<1>1. Begins(t, "resume") /\ UNCHANGED <<start, data, cloud, store>>
  BY DEF ResumeStart
<1>2. CASE marker = None
  <2>1. Goes(t, Idle)
    BY <1>2 DEF ResumeStart
  <2>2. th'[t] = Idle => ThreadInv(t)'
    BY SMTT(30), IdleFacts, FreeThread
  <2> QED
    BY <1>1, <2>1, <2>2, StartKeeps
<1>3. CASE marker # None
  <2>1. marker \in DOMAIN backups
    BY <1>3 DEF CloudInv, BackupsInv
  <2>2. Goes(t, [Idle EXCEPT !.call = "resume", !.pc = "acquire", !.backup = marker])
    BY <1>3 DEF ResumeStart
  <2> QED
    BY <1>1, <2>1, <2>2, ResumptionKeeps
<1> QED
  BY <1>2, <1>3

LEMMA RestoreStartKeeps ==
    ASSUME CloudInv, NEW t \in Threads, RestoreStart(t)
    PROVE  CloudInv'
<1>1. Begins(t, "restore") /\ UNCHANGED <<start, data, cloud, store>>
  BY DEF RestoreStart
<1>2. PICK b \in DOMAIN backups :
          Goes(t, [Idle EXCEPT !.call = "restore", !.pc = "acquire", !.backup = b])
  BY DEF RestoreStart
<1> QED
  BY <1>1, <1>2, ResumptionKeeps

(* acquire_with_options                                                    *)
LEMMA AcquireKeeps ==
    ASSUME CloudInv, NEW t \in Threads, HibernateAcquire(t) \/ ResumeAcquire(t)
    PROVE  CloudInv'
<1>1. PICK pc \in {"backup", "restore"} :
          Acquire(t, pc) /\ (pc = "restore" => th[t].call \in {"resume", "restore"})
  BY DEF HibernateAcquire, ResumeAcquire
<1>2. /\ th[t].pc = "acquire" /\ ~Uploading(t) /\ UNCHANGED <<start, data, cloud, todo, backups>>
      /\ marker' = marker
  BY DEF HibernateAcquire, ResumeAcquire, At, Uploading
<1>3. DOMAIN th[t] = Fields /\ ResumeInv(t)
  BY ThreadFacts DEF ThreadInv
<1>4. CASE LeaseHeld
  <2>1. Goes(t, Idle)
    BY <1>1, <1>4 DEF Acquire, Stops
  <2>2. th'[t] = Idle => ThreadInv(t)'
    BY IdleFacts, FreeThread
  <2> QED
    BY <1>2, <2>1, <2>2, CallStep
<1>5. CASE ~LeaseHeld
  <2>1. PICK mine : Goes(t, [th[t] EXCEPT !.pc = pc, !.lease = mine])
    BY <1>1, <1>5 DEF Acquire
  <2> DEFINE v == [th[t] EXCEPT !.pc = pc, !.lease = mine]
  <2>2. DOMAIN v = Fields /\ v.pc = pc /\ v.backup = th[t].backup
    BY <1>3, FieldsFacts
  <2>3. Goes(t, v)
    BY <2>1
  <2> HIDE DEF v
  <2>4. th'[t] = v => ThreadInv(t)'
    <3>1. CASE pc = "backup"
      BY <3>1, <2>2, FreeThread
    <3>2. CASE pc = "restore"
      <4>1. th[t].backup \in DOMAIN backups' /\ OwnDatabase(start, t)'
        BY <1>1, <1>2, <1>3, <3>2 DEF ResumeInv, OwnDatabase
      <4> QED
        BY <3>2, <2>2, <4>1, WaitingThread
    <3> QED
      BY <3>1, <3>2
  <2> QED
    BY <1>2, <2>3, <2>4, CallStep
<1> QED
  BY <1>4, <1>5

LEMMA MarkKeeps ==
    ASSUME CloudInv, NEW t \in Threads, HibernateMark(t)
    PROVE  CloudInv'
<1> DEFINE v == [th[t] EXCEPT !.pc = "release"]
<1>1. DOMAIN th[t] = Fields /\ ResumeInv(t) /\ th[t].pc = "mark"
  BY ThreadFacts DEF HibernateMark, At, ThreadInv
<1>2. DOMAIN v = Fields /\ v.pc = "release"
  BY <1>1, FieldsFacts
<1>3. Goes(t, v) /\ UNCHANGED <<start, data, cloud, todo, backups>> /\ marker' = th[t].backup
  BY DEF HibernateMark
<1> HIDE DEF v
<1>4. ~Uploading(t) /\ marker' \in DOMAIN backups
  BY <1>1, <1>3 DEF Uploading, ResumeInv
<1>5. th'[t] = v => ThreadInv(t)'
  BY <1>2, FreeThread
<1> QED
  BY <1>3, <1>4, <1>5, CallStep

LEMMA UnmarkKeeps ==
    ASSUME CloudInv, NEW t \in Threads, ResumeUnmark(t)
    PROVE  CloudInv'
<1> DEFINE v == [th[t] EXCEPT !.pc = "session"]
<1>1. DOMAIN th[t] = Fields /\ ~Uploading(t)
  BY ThreadFacts DEF ResumeUnmark, At, Uploading
<1>2. DOMAIN v = Fields /\ v.pc = "session"
  BY <1>1, FieldsFacts
<1>3. Goes(t, v) /\ UNCHANGED <<start, data, cloud, todo, backups>> /\ marker' = None
  BY DEF ResumeUnmark
<1> HIDE DEF v
<1>4. th'[t] = v => ThreadInv(t)'
  BY <1>2, FreeThread
<1> QED
  BY <1>1, <1>3, <1>4, CallStep

LEMMA HeartbeatKeeps ==
    ASSUME CloudInv, NEW t \in Threads, Heartbeat(t)
    PROVE  CloudInv'
<1> DEFINE v == [th[t] EXCEPT !.lease = lease']
<1>1. DOMAIN th[t] = Fields /\ th[t].pc = "session" /\ ~Uploading(t)
  BY ThreadFacts DEF Heartbeat, At, Uploading
<1>2. DOMAIN v = Fields /\ v.pc = "session"
  BY <1>1, FieldsFacts
<1>3. Goes(t, v) /\ UNCHANGED <<start, data, cloud, todo, backups>> /\ marker' = marker
  BY DEF Heartbeat
<1> HIDE DEF v
<1>4. th'[t] = v => ThreadInv(t)'
  BY <1>2, FreeThread
<1> QED
  BY <1>1, <1>3, <1>4, CallStep

(* full_backup_to_uri: what it writes is whole and has no pointers.        *)
LEMMA BackupKeeps ==
    ASSUME CloudInv, NEW t \in Threads, HibernateBackup(t)
    PROVE  CloudInv'
<1>1. PICK d \in Dbs : d = Db(t)
  BY ThreadFacts
<1>2. TableInv(d) /\ DOMAIN th[t] = Fields /\ BackupsInv
  BY <1>1, ThreadFacts DEF CloudInv
<1> DEFINE b == [lsn |-> lsn[d], seg |-> Inlined(seg[d]), zone |-> zone[d], tier |-> tier[d], table |-> table[d]]
           v == [th[t] EXCEPT !.pc = "mark", !.backup = Len(backups) + 1]
<1>3. /\ backups' = Append(backups, b) /\ Goes(t, v)
      /\ UNCHANGED <<start, data, cloud, todo>> /\ marker' = marker /\ ~Uploading(t)
  BY <1>1 DEF HibernateBackup, At, Uploading
<1>4. DOMAIN v = Fields /\ v.pc = "mark" /\ v.backup = Len(backups) + 1
  BY <1>2, FieldsFacts
<1>5. BackupInv(b)
  <2>1. PICK s, z : s = seg[d] /\ z = zone[d] /\ Whole(s) /\ RowsOf(s) = table[d] /\ Covers(z, s)
    BY <1>2 DEF TableInv
  <2>2. PICK c : c = Inlined(s)
    OBVIOUS
  <2>3. /\ Whole(c) /\ RowsOf(c) = RowsOf(s) /\ Used(c) = Used(s)
        /\ \A i \in Used(s) : c[i].at = "local" /\ Content(c[i]) = Content(s[i])
    BY <2>1, <2>2, InlinedFacts
  <2>4. Covers(z, c)
    BY <2>1, <2>3 DEF Covers
  <2>5. b.lsn = lsn[d] /\ b.seg = c /\ b.zone = z /\ b.tier = tier[d] /\ b.table = table[d]
    BY <2>1, <2>2
  <2> HIDE DEF b
  <2> QED
    BY <1>2, <2>1, <2>3, <2>4, <2>5 DEF BackupInv, TableInv
<1> HIDE DEF b, v
<1>6. /\ \E T : backups' \in Seq(T)
      /\ DOMAIN backups \subseteq DOMAIN backups' /\ Len(backups) + 1 \in DOMAIN backups'
      /\ \A k \in DOMAIN backups' : (k \in DOMAIN backups /\ backups'[k] = backups[k]) \/ backups'[k] = b
  <2>1. PICK T : backups \in Seq(T)
    BY <1>2 DEF BackupsInv
  <2>2. backups \in Seq(T \cup {b}) /\ backups' \in Seq(T \cup {b})
    BY <1>3, <2>1, SMTT(30)
  <2>3. Len(backups) \in Nat /\ DOMAIN backups = 1 .. Len(backups) /\ DOMAIN backups' = 1 .. Len(backups) + 1
    BY <1>3, <2>1, <2>2, SMTT(30)
  <2>4. \A k \in DOMAIN backups : backups'[k] = backups[k]
    BY <1>3, <2>1, <2>2, SMTT(30)
  <2>5. backups'[Len(backups) + 1] = b
    BY <1>3, <2>2, SMTT(30)
  <2> QED
    BY <2>2, <2>3, <2>4, <2>5, SMTT(30)
<1>7. installed' = installed /\ objects' = objects /\ interrupted' = interrupted
      /\ start' = start /\ todo' = todo /\ lsn' = lsn /\ seg' = seg /\ tier' = tier /\ UNCHANGED data
  BY ZenonT(40), <1>3 DEF cloud, data
<1>8. BackupsInv'
  <2>1. ASSUME NEW k \in DOMAIN backups' PROVE BackupInv(backups[k])'
    <3>1. PICK x : x = backups'[k] /\ BackupInv(x)
      BY <1>2, <1>5, <1>6 DEF BackupsInv
    <3> QED
      BY <1>7, <3>1 DEF BackupInv, RemoteIsInstalled
  <2>2. marker' # None => marker' \in DOMAIN backups'
    BY <1>2, <1>3, <1>6 DEF BackupsInv
  <2> QED
    BY <1>6, <2>1, <2>2 DEF BackupsInv
<1>9. DOMAIN th' = Threads /\ th'[t] = v /\ \A u \in Threads \ {t} : th'[u] = th[u]
  BY <1>3 DEF CloudInv, Goes
<1>10. \A u \in Threads : Db(u) \in Dbs /\ lsn[Db(u)] \in Nat
  BY ThreadFacts DEF TableInv
<1>11. Forward(t)
  <2>1. DOMAIN todo = Threads
    BY DEF CloudInv
  <2>2. \A n \in Nat : n <= n
    BY SMTT(30)
  <2> QED
    BY <1>6, <1>7, <1>9, <1>10, <2>1, <2>2 DEF Forward
<1>12. ThreadInv(t)'
  BY <1>4, <1>6, <1>9, WaitingThread
<1>13. \A u \in Threads : ThreadInv(u)' /\ TodoInv(u)'
  BY <1>7, <1>11, <1>12, OthersKeep, TodoKeeps
<1>14. Hands(t)
  BY <1>3 DEF Hands
<1>15. UploadInv'
  BY <1>7, <1>11, <1>14, UploadKeeps
<1>16. DataInv' /\ StoreInv'
  BY <1>7, DataKeeps, StoreKeeps DEF CloudInv
<1> QED
  BY <1>7, <1>8, <1>9, <1>13, <1>15, <1>16 DEF CloudInv

(* restore_backup_from_uri: nobody else works on the database.             *)
LEMMA RestoreKeeps ==
    ASSUME CloudInv, NEW t \in Threads, Restore(t)
    PROVE  CloudInv'
<1>1. PICK d \in Dbs : d = Db(t)
  BY ThreadFacts
<1>2. /\ DOMAIN th[t] = Fields /\ th[t].pc = "restore" /\ th[t].backup \in DOMAIN backups
      /\ OwnDatabase(start, t) /\ DataInv
  BY ThreadFacts DEF Restore, At, ThreadInv, ResumeInv
<1>3. PICK b : b = backups[th[t].backup]
  OBVIOUS
<1>4. BackupInv(b)
  BY <1>2, <1>3 DEF CloudInv, BackupsInv
<1>5. PICK pc \in {"unmark", "release"} : Goes(t, [th[t] EXCEPT !.pc = pc])
  <2>1. CASE th[t].call = "resume"
    BY <2>1 DEF Restore
  <2>2. CASE th[t].call # "resume"
    BY <2>2 DEF Restore
  <2> QED
    BY <2>1, <2>2
<1> DEFINE v == [th[t] EXCEPT !.pc = pc]
<1>6. DOMAIN v = Fields /\ v.pc = pc /\ Goes(t, v)
  BY <1>2, <1>5, FieldsFacts
<1> HIDE DEF v
<1>7. /\ lsn' = [lsn EXCEPT ![d] = b.lsn] /\ seg' = [seg EXCEPT ![d] = b.seg]
      /\ zone' = [zone EXCEPT ![d] = b.zone] /\ tier' = [tier EXCEPT ![d] = b.tier]
      /\ table' = [table EXCEPT ![d] = b.table]
  BY <1>1, <1>3 DEF Restore
<1>8. interrupted' = interrupted \cup
          ({d} \X {i \in Ids : b.tier[i] # None /\ b.tier[i].state = "Uploading"})
  BY <1>1, <1>3 DEF Restore
<1>9. UNCHANGED <<start, objects, installed, todo, backups, marker>>
  BY DEF Restore, store
<1>10. /\ DOMAIN lsn' = Dbs /\ DOMAIN seg' = Dbs /\ DOMAIN zone' = Dbs /\ DOMAIN tier' = Dbs /\ DOMAIN table' = Dbs
       /\ lsn'[d] = b.lsn /\ seg'[d] = b.seg /\ zone'[d] = b.zone /\ tier'[d] = b.tier /\ table'[d] = b.table
       /\ \A e \in Dbs \ {d} : /\ lsn'[e] = lsn[e] /\ seg'[e] = seg[e] /\ zone'[e] = zone[e]
                               /\ tier'[e] = tier[e] /\ table'[e] = table[e]
  BY <1>2, <1>7 DEF DataInv
<1>11. TableInv(d)'
  <2>1. Tiered(seg[d])'
    BY <1>4, <1>10 DEF BackupInv, Tiered
  <2>2. \A i \in Ids : IsMeta(tier'[d][i]) /\ RemoteIsInstalled(tier[d][i], i)'
    BY <1>4, <1>9, <1>10 DEF BackupInv, RemoteIsInstalled
  <2> QED
    BY <1>4, <1>10, <2>1, <2>2 DEF BackupInv, TableInv
<1>12. ASSUME NEW e \in Dbs \ {d} PROVE TableInv(e)'
  <2>1. TableInv(e)
    BY <1>2 DEF DataInv
  <2> QED
    BY <1>9, <1>10, <2>1, SMTT(30) DEF TableInv, Tiered, RemoteIsInstalled
<1>13. DataInv'
  BY <1>10, <1>11, <1>12 DEF DataInv
<1>14. DOMAIN th' = Threads /\ th'[t] = v /\ \A u \in Threads \ {t} : th'[u] = th[u]
  BY <1>6 DEF CloudInv, Goes
<1>15. \A u \in Threads \ {t} : Db(u) \in Dbs \ {d} /\ lsn[Db(u)] \in Nat
  BY <1>1, <1>2, ThreadFacts DEF OwnDatabase, Db, TableInv
<1>16. Forward(t)
  <2>1. ASSUME NEW u \in Threads \ {t}
        PROVE  /\ th'[u] = th[u] /\ todo'[u] = todo[u]
               /\ lsn'[Db(u)] \in Nat /\ lsn[Db(u)] \in Nat /\ lsn[Db(u)] <= lsn'[Db(u)]
               /\ lsn'[Db(u)] = lsn[Db(u)] => seg'[Db(u)] = seg[Db(u)]
    <3>1. lsn'[Db(u)] = lsn[Db(u)] /\ seg'[Db(u)] = seg[Db(u)] /\ lsn[Db(u)] \in Nat
      BY <1>10, <1>15
    <3> QED
      BY <1>9, <1>14, <3>1, LsnFacts
  <2>2. DOMAIN todo' = Threads
    BY <1>9, ThreadFacts
  <2> QED
    BY <1>9, <1>14, <2>1, <2>2 DEF Forward
<1>17. ThreadInv(t)'
  BY <1>6, <1>14, FreeThread
<1>18. \A u \in Threads : ThreadInv(u)' /\ TodoInv(u)'
  BY <1>9, <1>16, <1>17, OthersKeep, TodoKeeps
<1>19. UploadInv'
  <2> SUFFICES ASSUME NEW e \in Dbs, NEW i \in Ids, tier'[e][i] # None, tier'[e][i].state = "Uploading",
                      <<e, i>> \notin interrupted'
               PROVE  \E u \in Threads : Db(u)' = e /\ th'[u].id = i /\ Uploading(u)'
    BY DEF UploadInv
  <2>1. e # d /\ <<e, i>> \notin interrupted
    BY ZenonT(40), <1>8, <1>10
  <2>2. PICK u \in Threads : Db(u) = e /\ th[u].id = i /\ Uploading(u)
    BY <1>10, <2>1, SMTT(30) DEF CloudInv, UploadInv
  <2>3. th'[u] = th[u] /\ Db(u)' = Db(u)
    BY <1>1, <1>9, <1>14, <2>1, <2>2 DEF Db
  <2> QED
    BY <2>2, <2>3 DEF Uploading
<1>20. StoreInv' /\ BackupsInv'
  BY ZenonT(40), <1>9, StoreKeeps, BackupsKeep DEF CloudInv
<1> QED
  BY <1>9, <1>13, <1>14, <1>18, <1>19, <1>20 DEF CloudInv

-----------------------------------------------------------------------------
(* The specification.                                                      *)

LEMMA TableStepKeeps ==
    ASSUME CloudInv, NEW t \in Threads, TableStep(t), UNCHANGED store
    PROVE  CloudInv'
  BY SMTT(30), WriteStartKeeps, ScanStartKeeps, TierStartKeeps, ReadSegmentsKeeps, WriteBatchKeeps, ScanLsnKeeps,
     ScanSegmentsKeeps, ScanZonesKeeps, ScanCheckKeeps, WriteEndsKeeps, RecoverNextKeeps, TierListKeeps,
     TierSegmentKeeps, TierEndKeeps, UploadKeepsObjects, InstallKeeps, RereadKeeps, ReconcileKeeps,
     FinishKeeps, SaveKeeps, FailKeeps
  DEF TableStep

LEMMA RestKeeps ==
    ASSUME CloudInv, UNCHANGED <<start, data, cloud, th, todo, marker, backups>>
    PROVE  CloudInv'
<1>1. /\ start' = start /\ th' = th /\ todo' = todo /\ marker' = marker /\ backups' = backups
      /\ UNCHANGED <<objects, installed>> /\ interrupted' = interrupted /\ lsn' = lsn /\ seg' = seg /\ tier' = tier
  BY DEF cloud, data
<1>2. StoreInv' /\ DataInv' /\ BackupsInv'
  BY <1>1, StoreKeeps, DataKeeps, BackupsKeep DEF CloudInv
<1>3. UploadInv'
  <2>1. UploadInv
    BY DEF CloudInv
  <2>2. \A u \in Threads : Uploading(u)' = Uploading(u) /\ Db(u)' = Db(u)
    BY <1>1 DEF Uploading, Db
  <2>3. ASSUME NEW d \in Dbs, NEW i \in Ids, tier[d][i] # None, tier[d][i].state = "Uploading"
        PROVE  <<d, i>> \in interrupted' \/ \E u \in Threads : Db(u)' = d /\ th'[u].id = i /\ Uploading(u)'
    <3>1. <<d, i>> \in interrupted \/ \E u \in Threads : Db(u) = d /\ th[u].id = i /\ Uploading(u)
      BY <2>1, <2>3 DEF UploadInv
    <3> QED
      BY <1>1, <2>2, <3>1
  <2> QED
    BY <1>1, <2>3 DEF UploadInv
<1>4. ASSUME NEW u \in Threads PROVE ThreadInv(u)' /\ TodoInv(u)'
  <2>1. ThreadInv(u) /\ TodoInv(u)
    BY DEF CloudInv
  <2>2. WriterInv(u)' /\ ScanInv(u)'
    BY <1>1, <2>1 DEF ThreadInv, WriterInv, ScanInv, Paired, Db
  <2>3. TierInv(u)' /\ RecordInv(u)'
    BY <1>1, <2>1 DEF ThreadInv, TierInv, RecordInv, Uploading
  <2>4. ResumeInv(u)' /\ TodoInv(u)'
    BY <1>1, <2>1 DEF ThreadInv, ResumeInv, TodoInv
  <2> QED
    BY <1>1, <2>1, <2>2, <2>3, <2>4 DEF ThreadInv
<1> QED
  BY <1>1, <1>2, <1>3, <1>4 DEF CloudInv

LEMMA CloudInit == Init => CloudInv
<1> SUFFICES ASSUME Init PROVE CloudInv
  OBVIOUS
<1>1. PICK rows : rows = start.rows
  OBVIOUS
<1>2. start \in Starts /\ rows \in SUBSET Rows /\ start.calls \in [Threads -> Seq(Calls)]
  BY <1>1, StartsAssumption DEF Init
<1>3. PICK s : s = Chunks(rows)
  OBVIOUS
<1>4. Whole(s) /\ RowsOf(s) = rows /\ \A i \in Used(s) : s[i].at = "local"
  BY <1>2, <1>3, ChunksFacts, SMTT(30)
<1>5. PICK z : z = Zones(s)
  OBVIOUS
<1>6. Covers(z, s)
  <2> SUFFICES ASSUME NEW i \in Used(s), z[i] # None, NEW r \in Content(s[i])
               PROVE  z[i].min <= r /\ r <= z[i].max
    BY DEF Covers
  <2>1. i \in Ids /\ s[i] \in Segments /\ s[i].at = "local" /\ s[i] # None
    BY <1>4 DEF Whole, Used
  <2>2. z[i] = ZoneOf(s[i])
    BY <1>5, <2>1 DEF Zones
  <2> QED
    BY <2>1, <2>2, ZoneFacts
<1>7. objects = <<>> /\ installed = {} /\ backups = <<>> /\ marker = None
  BY DEF Init
<1>8. StoreInv
  BY <1>7, SMTT(30) DEF StoreInv
<1>9. BackupsInv
  <2>1. backups \in Seq({}) /\ DOMAIN backups = {}
    BY <1>7, SMTT(30)
  <2> QED
    BY <1>7, <2>1 DEF BackupsInv
<1>10. ASSUME NEW d \in Dbs PROVE TableInv(d)
  <2>1. lsn[d] = 0 /\ seg[d] = s /\ tier[d] = [i \in Ids |-> None] /\ table[d] = rows
    BY <1>1, <1>3 DEF Init
  <2>2. zone[d] = z
    BY <1>5, <2>1 DEF Init
  <2>3. \A i \in Ids : IsMeta(tier[d][i]) /\ RemoteIsInstalled(tier[d][i], i)
    BY <2>1 DEF IsMeta, RemoteIsInstalled
  <2>4. Tiered(s)
    BY <1>4 DEF Tiered
  <2> QED
    BY <1>4, <1>6, <2>1, <2>2, <2>3, <2>4, SMTT(30) DEF TableInv
<1>11. DataInv
  BY <1>10 DEF DataInv, Init
<1>12. UploadInv
  BY DEF Init, UploadInv
<1>13. ASSUME NEW t \in Threads PROVE ThreadInv(t) /\ TodoInv(t)
  <2>1. th[t] = Idle /\ todo[t] = start.calls[t]
    BY DEF Init
  <2>2. TodoInv(t)
    BY <1>2, <2>1, StartsAssumption DEF TodoInv
  <2>3. DOMAIN th[t] = Fields /\ th[t].pc = "idle"
    BY SMTT(30), <2>1, IdleFacts
  <2>4. ThreadInv(t)
    <3>1. WriterInv(t) /\ ScanInv(t) /\ TierInv(t)
      BY <2>3 DEF WriterInv, ScanInv, TierInv, Uploading
    <3>2. RecordInv(t) /\ ResumeInv(t)
      BY <2>3 DEF RecordInv, ResumeInv, Uploading
    <3> QED
      BY <2>3, <3>1, <3>2 DEF ThreadInv
  <2> QED
    BY <2>2, <2>4
<1>14. DOMAIN th = Threads /\ DOMAIN todo = Threads
  BY <1>2 DEF Init
<1> QED
  BY <1>2, <1>8, <1>9, <1>11, <1>12, <1>13, <1>14, SMTT(30) DEF CloudInv

LEMMA CloudNext == CloudInv /\ [Next]_vars => CloudInv'
<1> SUFFICES ASSUME CloudInv, [Next]_vars PROVE CloudInv'
  OBVIOUS
<1>1. ASSUME NEW t \in Threads, TableStep(t), UNCHANGED store PROVE CloudInv'
  BY <1>1, TableStepKeeps
<1>2. ASSUME NEW t \in Threads, DieWriting(t) PROVE CloudInv'
  BY <1>2, DieWritingKeeps
<1>3. ASSUME NEW t \in Threads, HibernateStart(t) \/ ResumeStart(t) \/ RestoreStart(t) PROVE CloudInv'
  BY <1>3, HibernateStartKeeps, ResumeStartKeeps, RestoreStartKeeps
<1>4. ASSUME NEW t \in Threads, HibernateAcquire(t) \/ ResumeAcquire(t) PROVE CloudInv'
  BY <1>4, AcquireKeeps
<1>5. ASSUME NEW t \in Threads, HibernateBackup(t) \/ HibernateMark(t) PROVE CloudInv'
  BY <1>5, BackupKeeps, MarkKeeps
<1>6. ASSUME NEW t \in Threads, Restore(t) \/ ResumeUnmark(t) \/ Heartbeat(t) PROVE CloudInv'
  BY <1>6, RestoreKeeps, UnmarkKeeps, HeartbeatKeeps
<1>7. ASSUME NEW t \in Threads, CallRelease(t) \/ SessionEnd(t) PROVE CloudInv'
  BY <1>7, ReleaseKeeps
<1>8. CASE break_lease
  BY <1>8, RestKeeps DEF break_lease
<1>9. CASE Tick
  BY <1>9, RestKeeps DEF Tick
<1>10. CASE UNCHANGED vars
  BY <1>10, RestKeeps DEF vars, store
<1> QED
  BY <1>1, <1>2, <1>3, <1>4, <1>5, <1>6, <1>7, <1>8, <1>9, <1>10 DEF Next

LEMMA CloudInvariant == Spec => []CloudInv
  BY CloudInit, CloudNext, PTL DEF Spec

-----------------------------------------------------------------------------
(* The holder of a lease that has neither expired nor been broken owns the *)
(* lease file, whatever hibernations, resumptions, heartbeats, crashes and *)
(* releases interleave with it (CloudLease).                               *)
THEOREM LiveLeaseSafety == Spec => []LiveLeaseHolds
<1>1. LeaseInv => LiveLeaseHolds
  BY DEF LeaseInv
<1> QED
  BY <1>1, LeaseInit, LeaseNext, PTL DEF Spec

-----------------------------------------------------------------------------
(* What the invariant says of the table, its scans and its tiering.        *)

(* The segments of every database hold the rows that its committed inserts, *)
(* updates and deletes leave, each in one segment, and every pointer among  *)
(* them resolves: columnar_append_ops rewrites or appends with no writer's  *)
(* change lost, install_tiered_pointer swaps a segment for a pointer to the *)
(* same rows, and a restored backup is whole.                               *)
THEOREM TableIsExactSafety == Spec => []TableIsExact
<1>1. CloudInv => TableIsExact
  <2> SUFFICES ASSUME CloudInv, NEW d \in Dbs
               PROVE  /\ AllResolve(seg[d]) /\ RowsOf(seg[d]) = table[d]
                      /\ \A i, j \in Used(seg[d]) :
                             i # j => Content(seg[d][i]) \cap Content(seg[d][j]) = {}
    BY DEF TableIsExact
  <2>1. TableInv(d) /\ StoreInv
    BY DEF CloudInv, DataInv
  <2>2. ASSUME NEW i \in Used(seg[d]) PROVE Resolves(seg[d][i])
    <3>1. seg[d][i] \in Segments
      BY <2>1 DEF TableInv, Whole, Used
    <3>2. CASE seg[d][i].at = "local"
      BY <3>2 DEF Resolves
    <3>3. CASE seg[d][i].at = "remote"
      BY <2>1, <3>3 DEF TableInv, Tiered, StoreInv
    <3> QED
      BY <3>1, <3>2, <3>3, SegmentFacts
  <2> QED
    BY <2>1, <2>2 DEF TableInv, Whole, AllResolve
<1> QED
  BY <1>1, CloudInvariant, PTL

(* A filtered scan returns the rows that match when it reads the segments,  *)
(* whichever writers and tiering runs commit between its reads: it prunes   *)
(* with zone maps only if the LSN shows that they belong to the segments.   *)
THEOREM ScanIsExactSafety == Spec => []ScanIsExact
<1>1. CloudInv => ScanIsExact
  BY DEF CloudInv, ThreadInv, ScanInv, ScanIsExact, At
<1> QED
  BY <1>1, CloudInvariant, PTL

(* Every pointer that tiering ever installed resolves for good, to the rows *)
(* that its checksum is of: objects are never overwritten with other rows   *)
(* and never deleted (tier_segment).                                        *)
THEOREM PointersStaySafety == Spec => []PointersStay
<1>1. CloudInv => PointersStay
  BY DEF CloudInv, StoreInv, PointersStay
<1> QED
  BY <1>1, CloudInvariant, PTL

(* The tiering metadata says Remote only of a pointer that was installed,   *)
(* and Uploading only while a run is at it or after a run stopped halfway,  *)
(* through crashes, failed uploads, lost installs, backups and restores.    *)
THEOREM MetadataIsTrueSafety == Spec => []MetadataIsTrue
<1>1. CloudInv => MetadataIsTrue
  BY DEF CloudInv, DataInv, TableInv, RemoteIsInstalled, UploadInv, MetadataIsTrue
<1> QED
  BY <1>1, CloudInvariant, PTL
=============================================================================
