SPECIFICATION MCSpec
CONSTANTS
  Inputs <- SmallInputs
  Contents <- Made
  Top = 64
  ScanLimit = 2
  Placeholders = {"?"}
  Word = 2
  MaxCandidateSize = 4
  Regs = {0, 1, 26}
  PrologueWindow = 3
  UriKind <- TheUriKind
  Package <- ThePackage
  Segment <- TheSegment
  Generic = {"sub"}
  Token <- TheToken
  Normal <- TheNormal
  Useless = {"mark"}
  NameLength <- TheLengths
  ReadsOf <- TheReads
  Width <- TheWidth
  Gate <- TheGate
  Free = "free"
  MaxSpan = 3
  MaxLine = 7
  Window = 4
  Runs = {r1, r2}
  Readers = {q1}
  Libraries <- OneVersion
  MaxEntries = 2
  MayStop = TRUE
SYMMETRY RunSymmetry
INVARIANTS
  CodeIsTheImage
  AcceptedIsSound
  RecoveryIsSound
  SlotIsRead
  NamesAreBest
  StubsAreNamedRight
  OutsideNamesAreSymbols
  AuditIsTheText
  NotesStandAtTheirReads
  ManifestIsTrue
CHECK_DEADLOCK FALSE
