-------------------------- MODULE MCProgramSource --------------------------
EXTENDS ProgramSource

Features == {"arm64", "product", "compressed-pointers"}

Header(features) ==
  [hash |-> "h", source |-> "header", kind |-> "full_aot", target |-> "arm64",
   features |-> features]

\* One that may select, one the registry has only a near miss for, one of another
\* hash, and one for every way the gate may refuse.
SmallSnapshots ==
  {Header(Features), Header(Features \ {"product"}), [Header(Features) EXCEPT !.hash = "g"],
   [Header(Features) EXCEPT !.source = "scan"],
   [Header(Features) EXCEPT !.kind = "full_jit"],
   [Header(Features) EXCEPT !.target = "x64"],
   Header(Features \union {"x64"}),
   Header((Features \ {"arm64"}) \union {"x64"}),
   Header(Features \union {"no-compressed-pointers"}),
   Header(Features \ {"compressed-pointers"})}

Record(features) ==
  [hash |-> "h", target |-> "arm64", features |-> features,
   valid |-> TRUE, majors |-> TRUE, variant |-> TRUE]

Exactly == Record(Features)

Document(records) == [readable |-> TRUE, version |-> 1, records |-> records]

\* What the record may be alone and beside another one.
SmallRegistries ==
  {[Document(<<Exactly>>) EXCEPT !.readable = FALSE],
   [Document(<<Exactly>>) EXCEPT !.version = 2],
   Document(<<>>),
   Document(<<Exactly>>),
   Document(<<Record(Features \union {"tsan"}), Exactly>>),
   Document(<<Exactly, Exactly>>),
   Document(<<Exactly, [Exactly EXCEPT !.valid = FALSE]>>),
   Document(<<[Exactly EXCEPT !.majors = FALSE]>>),
   Document(<<[Exactly EXCEPT !.variant = FALSE]>>),
   Document(<<[Exactly EXCEPT !.target = "x64"]>>)}

Result(status, backend, fallback) ==
  [status |-> status, model |-> IF status = "ok" THEN "requested" ELSE "none",
   error |-> status # "ok", backend |-> backend, fallback |-> fallback]

SmallResults ==
  {Result("ok", "blutter", FALSE), Result("ok", "internal", FALSE), Result("failed", "none", FALSE)}
=============================================================================
