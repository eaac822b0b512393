-------------------------------- MODULE Cloud --------------------------------
(* Leases, hibernation and resumption of a database (src/cloud.rs), on top of *)
(* its columnar table and tiering.  A hibernating thread takes the lease      *)
(* "database", makes a full backup and leaves a marker; a resuming thread     *)
(* restores the backup of the marker into a database of its own, deletes the  *)
(* marker and keeps the lease for its session.  Leases expire, and can be     *)
(* broken.                                                                    *)
EXTENDS Columnar

CONSTANTS
    Ttl,           \* the default lease TTL, in ticks of the clock
    HeartbeatTtls  \* the TTLs that heartbeats ask for

Calls == {"insert", "update", "delete", "scan", "tier", "hibernate", "resume", "restore"}

\* Every resumption opens a database of its own.
OwnDatabase(s, t) == \A u \in Threads \ {t} : s.db[u] # s.db[t]

ASSUME TtlAssumption == Ttl \in Nat /\ HeartbeatTtls \subseteq Nat
ASSUME StartsAssumption ==
    \A s \in Starts :
        /\ s.rows \subseteq Rows
        /\ s.db \in [Threads -> Dbs]
        /\ s.calls \in [Threads -> Seq(Calls)]
        /\ s.end \in Nat
        /\ \A t \in Threads :
              (\E k \in DOMAIN s.calls[t] : s.calls[t][k] \in {"resume", "restore"})
                  => OwnDatabase(s, t)

VARIABLES
    now,       \* the clock
    lease,     \* the lease file, or None: no file, or an empty one
    leases,    \* lease ids given out
    broken,    \* ids of leases that break_lease removed
    marker,    \* hibernate/hibernated.json: the backup it names
    backups,   \* full backups in the object store
    consumed   \* the marker that each finished guarded resume has used

store == <<now, lease, leases, broken, marker, backups, consumed>>
vars == <<start, data, cloud, th, todo, store>>

\* A lease file in the old format is read as one that expires later than now,
\* whenever it is read.
Never == start.end + Ttl + 1
Legacy == [id |-> 0, expires |-> Never]

-----------------------------------------------------------------------------
(* CloudLease.  Each operation runs under the lock of the lease file.      *)

LeaseHeld == lease # None /\ lease.expires > now

\* acquire_with_options: an expired file gives way.
Acquire(t, pc) ==
    IF LeaseHeld
    THEN Stops(t) /\ UNCHANGED <<lease, leases>>
    ELSE LET mine == [id |-> leases + 1, expires |-> now + Ttl]
         IN  /\ lease' = mine
             /\ leases' = leases + 1
             /\ Goes(t, [th[t] EXCEPT !.pc = pc, !.lease = mine])

\* Faulty variant: the file is removed whoever wrote it.
ReleaseAny(t) == lease' = None

\* release: the file of another lease stays (LeaseOwnerMismatch).
Release(t) ==
    lease' = IF lease # None /\ lease.id = th[t].lease.id THEN None ELSE lease

\* The process dies between creating or truncating the file and writing it.
DieWriting(t) ==
    /\ start.fails
    /\ \/ At(t, "acquire") /\ ~LeaseHeld
       \/ At(t, "session") /\ LeaseHeld /\ lease.id = th[t].lease.id
    /\ lease' = None
    /\ Stops(t)
    /\ UNCHANGED <<start, data, cloud, todo, now, leases, broken, marker, backups, consumed>>

break_lease ==
    /\ start.breaks
    /\ lease # None
    /\ lease' = None
    /\ broken' = broken \cup {lease.id}
    /\ UNCHANGED <<start, data, cloud, th, todo, now, leases, marker, backups, consumed>>

Tick ==
    /\ now < start.end
    /\ now' = now + 1
    /\ UNCHANGED <<start, data, cloud, th, todo, lease, leases, broken, marker, backups, consumed>>

-----------------------------------------------------------------------------
(* hibernate_database.                                                     *)

HibernateStart(t) ==
    /\ Begins(t, "hibernate")
    /\ Goes(t, [Idle EXCEPT !.call = "hibernate", !.pc = "acquire"])
    /\ UNCHANGED <<start, data, cloud, store>>

HibernateAcquire(t) ==
    /\ At(t, "acquire")
    /\ th[t].call = "hibernate"
    /\ Acquire(t, "backup")
    /\ UNCHANGED <<start, data, cloud, todo, now, broken, marker, backups, consumed>>

\* read_full_payload: pointers are replaced by what they point to.
Inlined(s) == [i \in Ids |-> IF s[i] = None THEN None ELSE Local(Content(s[i]))]

\* full_backup_to_uri.  (The timeline record that a first backup commits is not
\* part of the table.)
HibernateBackup(t) ==
    LET d == Db(t)
    IN  /\ At(t, "backup")
        /\ AllResolve(seg[d])
        /\ backups' = Append(backups, [lsn |-> lsn[d], seg |-> Inlined(seg[d]), zone |-> zone[d],
                                       tier |-> tier[d], table |-> table[d]])
        /\ Goes(t, [th[t] EXCEPT !.pc = "mark", !.backup = Len(backups) + 1])
        /\ UNCHANGED <<start, data, cloud, todo, now, lease, leases, broken, marker, consumed>>

HibernateMark(t) ==
    /\ At(t, "mark")
    /\ marker' = th[t].backup
    /\ Goes(t, [th[t] EXCEPT !.pc = "release"])
    /\ UNCHANGED <<start, data, cloud, todo, now, lease, leases, broken, backups, consumed>>

\* The end of a hibernation or of an unguarded resume.
CallRelease(t) ==
    /\ At(t, "release")
    /\ Release(t)
    /\ Stops(t)
    /\ UNCHANGED <<start, data, cloud, todo, now, leases, broken, marker, backups, consumed>>

-----------------------------------------------------------------------------
(* resume_database_guarded and resume_database.                            *)

\* The marker is read before the lease is taken.
ResumeStart(t) ==
    /\ Begins(t, "resume")
    /\ Goes(t, IF marker = None THEN Idle
               ELSE [Idle EXCEPT !.call = "resume", !.pc = "acquire", !.backup = marker])
    /\ UNCHANGED <<start, data, cloud, store>>

\* resume_database is given the backup.
RestoreStart(t) ==
    /\ backups # <<>>
    /\ Begins(t, "restore")
    /\ \E b \in DOMAIN backups :
          Goes(t, [Idle EXCEPT !.call = "restore", !.pc = "acquire", !.backup = b])
    /\ UNCHANGED <<start, data, cloud, store>>

ResumeAcquire(t) ==
    /\ At(t, "acquire")
    /\ th[t].call \in {"resume", "restore"}
    /\ Acquire(t, "restore")
    /\ UNCHANGED <<start, data, cloud, todo, now, broken, marker, backups, consumed>>

\* restore_backup_from_uri into the database of t.  Uploads that the backup
\* caught halfway are nobody's in the new database.
Restore(t) ==
    LET d == Db(t)
        b == backups[th[t].backup]
    IN  /\ At(t, "restore")
        /\ lsn' = [lsn EXCEPT ![d] = b.lsn]
        /\ seg' = [seg EXCEPT ![d] = b.seg]
        /\ zone' = [zone EXCEPT ![d] = b.zone]
        /\ tier' = [tier EXCEPT ![d] = b.tier]
        /\ table' = [table EXCEPT ![d] = b.table]
        /\ interrupted' = interrupted \cup
               ({d} \X {i \in Ids : b.tier[i] # None /\ b.tier[i].state = "Uploading"})
        /\ Goes(t, [th[t] EXCEPT !.pc = IF th[t].call = "resume" THEN "unmark" ELSE "release"])
        /\ UNCHANGED <<start, objects, installed, todo, store>>

ResumeUnmark(t) ==
    /\ At(t, "unmark")
    /\ marker' = None
    /\ consumed' = Append(consumed, th[t].backup)
    /\ Goes(t, [th[t] EXCEPT !.pc = "session"])
    /\ UNCHANGED <<start, data, cloud, todo, now, lease, leases, broken, backups>>

\* GuardedResumeSession::heartbeat, ensure_owner
Heartbeat(t) ==
    /\ At(t, "session")
    /\ LeaseHeld
    /\ lease.id = th[t].lease.id
    /\ \E ttl \in HeartbeatTtls : lease' = [lease EXCEPT !.expires = now + ttl]
    /\ Goes(t, [th[t] EXCEPT !.lease = lease'])
    /\ UNCHANGED <<start, data, cloud, todo, now, leases, broken, marker, backups, consumed>>

\* release, or the session is dropped.
SessionEnd(t) ==
    /\ At(t, "session")
    /\ Release(t)
    /\ Stops(t)
    /\ UNCHANGED <<start, data, cloud, todo, now, leases, broken, marker, backups, consumed>>

-----------------------------------------------------------------------------
Init ==
    /\ start \in Starts
    /\ lsn = [d \in Dbs |-> 0]
    /\ seg = [d \in Dbs |-> Chunks(start.rows)]
    /\ zone = [d \in Dbs |-> Zones(seg[d])]
    /\ tier = [d \in Dbs |-> [i \in Ids |-> None]]
    /\ table = [d \in Dbs |-> start.rows]
    /\ objects = <<>>
    /\ th = [t \in Threads |-> Idle]
    /\ todo = start.calls
    /\ installed = {}
    /\ interrupted = {}
    /\ now = 0
    /\ lease = IF start.legacy THEN Legacy ELSE None
    /\ leases = 0
    /\ broken = {}
    /\ marker = None
    /\ backups = <<>>
    /\ consumed = <<>>

Next ==
    \/ \E t \in Threads :
          \/ TableStep(t) /\ UNCHANGED store
          \/ DieWriting(t)
          \/ HibernateStart(t) \/ HibernateAcquire(t) \/ HibernateBackup(t)
          \/ HibernateMark(t) \/ CallRelease(t)
          \/ ResumeStart(t) \/ RestoreStart(t) \/ ResumeAcquire(t) \/ Restore(t)
          \/ ResumeUnmark(t) \/ Heartbeat(t) \/ SessionEnd(t)
    \/ break_lease
    \/ Tick

Spec == Init /\ [][Next]_vars

-----------------------------------------------------------------------------
\* Every committed insert, update and delete is in the segments, and nothing
\* else: no writer loses the change of another one, of a tiering run, of a
\* backup or of a resumption, every segment can be read, and no primary key is
\* in two segments, whichever inserts of it race.
TableIsExact ==
    \A d \in Dbs :
        /\ AllResolve(seg[d])
        /\ RowsOf(seg[d]) = table[d]
        /\ \A i, j \in Used(seg[d]) : i # j => Content(seg[d][i]) \cap Content(seg[d][j]) = {}

\* A filtered scan returns the rows that match at the moment it reads the
\* segments, although it reads the zone maps that prune them later.
ScanIsExact ==
    \A t \in Threads :
        th[t].call = "scan" /\ At(t, "done") => th[t].res = th[t].rows \cap {th[t].row}

\* Every pointer that was ever installed still resolves to the rows that the
\* segment had: history, commit log and incremental backups keep it.
PointersStay == \A p \in installed : Resolves(p[2])

\* The tiering metadata says Remote only of a pointer that was installed, and
\* Uploading only while a run is at it or after a run that stopped halfway, which
\* the next run recovers.
MetadataIsTrue ==
    \A d \in Dbs, i \in Ids :
        tier[d][i] # None =>
            /\ tier[d][i].state = "Remote" =>
                  <<i, Pointer(tier[d][i].path, tier[d][i].checksum)>> \in installed
            /\ tier[d][i].state = "Uploading" =>
                  \/ <<d, i>> \in interrupted
                  \/ \E t \in Threads : Db(t) = d /\ th[t].id = i /\ Uploading(t)

\* The holder of a lease that has neither expired nor been broken owns the lease
\* file: its fencing token validates, and nobody else acquires.
LiveLeaseHolds ==
    \A t \in Threads :
        LET mine == th[t].lease
        IN  mine # None /\ mine.expires > now /\ mine.id \notin broken => lease = mine

\* Each marker is consumed by one guarded resume.
MarkersConsumedOnce == \A i, j \in DOMAIN consumed : consumed[i] = consumed[j] => i = j
=============================================================================
