---------------------------- MODULE StreamStore ----------------------------
(***************************************************************************)
(* The plain stream store (StreamStoreImpl): a map under a lock, saved to  *)
(* a file.  It is the specification of the two other implementations of    *)
(* the StreamStore interface; those may also write through.                *)
(***************************************************************************)
EXTENDS StreamOps

VARIABLES items, disk

storeVars == <<items, disk>>

StoreInit == items \in Maps /\ disk = items

\* Every writer is one critical section.
Becomes(m) == items' = m /\ disk' \in {disk, m}

BulkUpsert(batch) == Becomes(Upserted(items, batch))
DeleteStaleByAccountID(a, keep) == Becomes(Without(items, StaleOf(items, "m3u", a, keep)))
DeleteByAccountID(a) == Becomes(Without(items, OfSource(items, "m3u", a)))
DeleteBySatIPSourceID(s) == Becomes(Without(items, OfSource(items, "satip", s)))
DeleteStaleBySatIPSourceID(s, keep) == Becomes(Without(items, StaleOf(items, "satip", s, keep)))
DeleteOrphanedM3UStreams(known) == Becomes(Without(items, OrphansOf(items, "m3u", known)))
DeleteOrphanedSatIPStreams(known) == Becomes(Without(items, OrphansOf(items, "satip", known)))
DeleteByHDHRSourceID(h) == Becomes(Without(items, OfSource(items, "hdhr", h)))
DeleteStaleByHDHRSourceID(h, keep) == Becomes(Without(items, StaleOf(items, "hdhr", h, keep)))
DeleteOrphanedHDHRStreams(known) == Becomes(Without(items, OrphansOf(items, "hdhr", known)))
Delete(id) == Becomes(Without(items, {id}))

UpdateTMDBID(id) == Becomes(Changed(items, {id}, WithTMDB))
SetTMDBManual(id) == Becomes(Changed(items, {id}, WithManualTMDB))
UpdateStreamProbeData(id) == Becomes(Changed(items, {id}, WithProbe))
ClearAutoTMDBByAccountID(a) == Becomes(Changed(items, ListByAccountID(items, a), AutoTMDBCleared))
UpdateWireGuardByAccountID(a, on) ==
  Becomes(Changed(items, ListByAccountID(items, a), LAMBDA st : [st EXCEPT !.wg = on]))

Clear == Becomes(Empty)

\* The file is replaced by a renamed one, so it holds one state of the map.
Save == disk' = items /\ UNCHANGED items
Load == items' = disk /\ UNCHANGED disk

StoreNext ==
  \/ \E b \in Batches : BulkUpsert(b)
  \/ \E a \in SourcesOf("m3u") :
       \/ DeleteByAccountID(a) \/ ClearAutoTMDBByAccountID(a)
       \/ \E on \in BOOLEAN : UpdateWireGuardByAccountID(a, on)
       \/ \E keep \in SUBSET Ids : DeleteStaleByAccountID(a, keep)
  \/ \E s \in SourcesOf("satip") :
       DeleteBySatIPSourceID(s) \/ \E keep \in SUBSET Ids : DeleteStaleBySatIPSourceID(s, keep)
  \/ \E h \in SourcesOf("hdhr") :
       DeleteByHDHRSourceID(h) \/ \E keep \in SUBSET Ids : DeleteStaleByHDHRSourceID(h, keep)
  \/ \E known \in SUBSET SourcesOf("m3u") : DeleteOrphanedM3UStreams(known)
  \/ \E known \in SUBSET SourcesOf("satip") : DeleteOrphanedSatIPStreams(known)
  \/ \E known \in SUBSET SourcesOf("hdhr") : DeleteOrphanedHDHRStreams(known)
  \/ \E id \in Ids :
       Delete(id) \/ UpdateTMDBID(id) \/ SetTMDBManual(id) \/ UpdateStreamProbeData(id)
  \/ Clear \/ Save \/ Load

StoreSpec == StoreInit /\ [][StoreNext]_storeVars

=============================================================================
