CONSTANTS
  q1 = q1  q2 = q2  p1 = p1  p3 = p3  submit = submit  export = export
  NoPayload = NoPayload
  Free = Free
  Requests <- MCTwoRequests
  Routes <- MCTwoRoutes
  SnapshotRoutes <- MCExportRoute
  Payloads <- MCPayloads
  RouteOf <- MCRoutes
  ProcessingTimeout = 0
  TTL = 1
  MaxCrashes = 1
SPECIFICATION FairSpec
INVARIANTS TypeOK OneEffect OneStory CachedSuccessHasReceipt OnlyOldSnapshotsCollide
PROPERTIES ReservationsEnd
