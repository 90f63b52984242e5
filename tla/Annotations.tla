---------------------------- MODULE Annotations ----------------------------
(***************************************************************************)
(* The value annotations of one emitted function (decompiler, structured.rs *)
(* append_join_annotations, emit.rs append_call_annotations and             *)
(* helpers/provenance.rs): a read of a register whose value a merge or a    *)
(* call has taken is given the values it may hold, once all rewriting of    *)
(* the lines is done, and the audit says where each of them came from.      *)
(*                                                                         *)
(* A line is its code: what line_alignment_signature keeps of it, which     *)
(* fixes the registers it reads.  Candidates and anchors are what rendering *)
(* captured (Structuring).  An annotation is its literal and its values,    *)
(* and stands behind the read it is about: its place is the number of the   *)
(* line and of the read on it.                                              *)
(***************************************************************************)
EXTENDS Integers, Sequences, SequencesExt, FiniteSetsExt

CONSTANTS
  ReadsOf,      \* code |-> the unresolved registers it reads, in order
  Width,      \* code or value |-> its length
  Gate,       \* value |-> why it may not be shown as it is spelled now, or Free
  Free,
  MaxSpan,    \* MAX_JOIN_ANNOTATION, 512
  MaxLine,    \* MAX_JOIN_ANNOTATED_LINE, 3000
  Window      \* WINDOW, 64

ASSUME NotesAssumption ==
  /\ DOMAIN ReadsOf \subseteq DOMAIN Width /\ DOMAIN Gate \subseteq DOMAIN Width
  /\ \A text \in DOMAIN Width : Width[text] \in Nat
  /\ \A code \in DOMAIN ReadsOf : ReadsOf[code] \in Seq(Range(ReadsOf[code]))
  /\ MaxSpan \in Nat /\ MaxLine \in Nat /\ Window \in Nat \ {0}
  /\ Free \notin {"annotation", "line"}

VARIABLES
  body,      \* the function: rendered, finished, candidates, loops, anchors, calls
  next,      \* the next anchor, of the merges and then of the calls
  inserts,   \* the annotations planned by the pass that runs
  ledger,    \* for each site kind, the rows of what was dropped
  spans,     \* the annotations that stand in the text
  records,   \* for each site kind, the record of each annotation, as the audit reads them
  audit      \* the rows of the audit file

notesVars == <<body, next, inserts, ledger, spans, records, audit>>

StreamKinds == {"call", "join", "loop"}
Before(a, b) == a.line < b.line \/ (a.line = b.line /\ a.at < b.at)
Place(s) == [line |-> s.line, at |-> s.at]

---------------------------------------------------------------------------
(* Planning one annotation.                                                *)

\* AnnotationLiteral::render.
Text(literal, values) == [literal |-> literal, values |-> values]
SpanWidth(text) ==
  LET sum[n \in 0..Len(text.values)] == IF n = 0 THEN 1 ELSE sum[n - 1] + Width[text.values[n]]
  IN  sum[Len(text.values)]

\* What is put behind the reads of a line; a read has one annotation at most.
WidthAt(set, line, at) ==
  LET there == {s \in set : s.line = line /\ s.at = at}
  IN  IF there = {} THEN 0 ELSE SpanWidth((CHOOSE s \in there : TRUE).text)
WidthOn(set, line) ==
  LET reads == Len(ReadsOf[body.finished[line].code])
      sum[n \in 0..reads] == IF n = 0 THEN 0 ELSE sum[n - 1] + WidthAt(set, line, n)
  IN  sum[reads]

\* The lines as they stand: the code and what is inserted already.
LineWidth(line) == Width[body.finished[line].code] + WidthOn(spans, line)

\* Both passes ask the budgets last: whole or not at all.
Budget(plan, s) ==
  CASE SpanWidth(s.text) > MaxSpan -> "annotation"
    [] SpanWidth(s.text) <= MaxSpan
       /\ LineWidth(s.line) + WidthOn(Range(plan.inserts), s.line) + SpanWidth(s.text) > MaxLine -> "line"
    [] OTHER -> Free

Row(kind, stream, site, reg, why) ==
  [kind |-> kind, stream |-> stream, site |-> site, reg |-> reg, why |-> why]
Withheld(plan, s, kind, why) ==
  [plan EXCEPT !.rows[s.stream] = Append(@, Row(kind, s.stream, s.site, s.reg, why))]

Fitted(plan, s) ==
  IF Budget(plan, s) = Free THEN [plan EXCEPT !.inserts = Append(@, s)]
  ELSE Withheld(plan, s, "omission", Budget(plan, s))

Claimed(plan, s) == \E i \in Range(plan.inserts) : Place(i) = Place(s)

\* The first gate a value does not pass.
Refusal(values) ==
  LET bad == SelectInSeq(values, LAMBDA v : Gate[v] # Free)
  IN  IF bad = 0 THEN Free ELSE Gate[values[bad]]

---------------------------------------------------------------------------
(* append_join_annotations.                                                *)

SiteOf(site) == IF site \in body.loops THEN "loop" ELSE "join"

JoinSpan(site, reg, line, at) ==
  LET c == body.candidates[site, reg]
      literal == IF site \in body.loops THEN "loop-entry value"
                 ELSE IF c.complete THEN "exhaustive" ELSE "non-exhaustive"
  IN  [line |-> line, at |-> at, text |-> Text(literal, c.values),
       stream |-> SiteOf(site), site |-> site, reg |-> reg]

\* One read of a line the anchor was found on.
Offered(plan, anchor, line, at) ==
  LET reg == ReadsOf[body.finished[line].code][at]
      s == JoinSpan(anchor.site, reg, line, at)
  IN  CASE reg \notin anchor.regs \/ <<anchor.site, reg>> \notin DOMAIN body.candidates -> plan
        [] OTHER ->
           IF Refusal(s.text.values) # Free THEN Withheld(plan, s, "rejection", Refusal(s.text.values))
           ELSE IF Claimed(plan, s) THEN Withheld(plan, s, "rejection", "coordinate_already_claimed")
           ELSE Fitted(plan, s)

\* The first line from some place on that reads all of a rendered line's registers.
Carrying(code, from) ==
  LET lines == {l \in DOMAIN body.finished :
                  l >= from /\ Range(ReadsOf[code]) \subseteq Range(ReadsOf[body.finished[l].code])}
  IN  IF lines = {} THEN 0 ELSE Min(lines)

\* Mutant: a rendered line no finished line carries is passed over.
LostSilently(plan, anchor, code) == plan

\* No line carries the registers: a row for each that has candidates.
Lost(plan, anchor, code) ==
  LET regs   == SetToSeq({r \in Range(ReadsOf[code]) : <<anchor.site, r>> \in DOMAIN body.candidates})
      stream == SiteOf(anchor.site)
  IN  [plan EXCEPT !.rows[stream] = @ \o [i \in DOMAIN regs |->
         Row("rejection", stream, anchor.site, regs[i], "no_line_carries_register")]]

\* Every read of a line, in order.
AllOffered(plan, anchor, line) ==
  LET reads == Len(ReadsOf[body.finished[line].code])
      offered[n \in 0..reads] == IF n = 0 THEN plan ELSE Offered(offered[n - 1], anchor, line, n)
  IN  offered[reads]

\* One line of an anchor, if it reads a register; acc is the plan and the line to search from.
Searched(acc, anchor, code) ==
  LET line == Carrying(code, acc.from)
  IN  IF ReadsOf[code] = <<>> THEN acc
      ELSE IF line = 0 THEN [acc EXCEPT !.plan = Lost(@, anchor, code)]
      ELSE [from |-> line + 1, plan |-> AllOffered(acc.plan, anchor, line)]

\* One anchor: its lines, in order.
WithAnchor(plan, anchor) ==
  LET lines == anchor.last - anchor.first + 1
      after[n \in 0..lines] == IF n = 0 THEN [from |-> 1, plan |-> plan]
                               ELSE Searched(after[n - 1], anchor, body.rendered[anchor.first + n - 1])
  IN  after[lines].plan

---------------------------------------------------------------------------
(* append_call_annotations.                                                *)

\* The smallest combined skip at which the two bodies agree again, the rendered
\* side's share of it smallest; None there is no smaller than Window.
Resync(l, r) ==
  LET found == {f \in (1..Window - 1) \X (0..Window - 1) :
                  /\ f[2] <= f[1]
                  /\ l + f[2] <= Len(body.rendered) /\ r + f[1] - f[2] <= Len(body.finished)
                  /\ body.rendered[l + f[2]] = body.finished[r + f[1] - f[2]].code}
      least == Min({f[1] : f \in found})
      skip == Min({f[2] : f \in {g \in found : g[1] = least}})
  IN  IF found = {} THEN <<l + 1, r>> ELSE <<l + skip, r + least - skip>>

\* Mutant: any finished line of the same code will do.
AlignedByContent ==
  [l \in DOMAIN body.rendered |->
     LET like == {r \in DOMAIN body.finished : body.finished[r].code = body.rendered[l]}
     IN  IF like = {} THEN 0 ELSE Min(like)]

\* One turn of the walk over both bodies: on from two lines that agree, else to where they do again.
Walked(w) ==
  IF w.left > Len(body.rendered) \/ w.right > Len(body.finished) THEN w
  ELSE IF body.rendered[w.left] = body.finished[w.right].code
       THEN [left |-> w.left + 1, right |-> w.right + 1, to |-> [w.to EXCEPT ![w.left] = w.right]]
       ELSE LET on == Resync(w.left, w.right) IN [left |-> on[1], right |-> on[2], to |-> w.to]

\* align_rendered_lines: rendered line |-> the finished line it became, 0 for none.  Every turn
\* goes on by a line at least.
Aligned ==
  LET turns == Len(body.rendered) + Len(body.finished)
      walk[n \in 0..turns] ==
        IF n = 0 THEN [left |-> 1, right |-> 1, to |-> [l \in DOMAIN body.rendered |-> 0]]
        ELSE Walked(walk[n - 1])
  IN  walk[turns].to

CallSpan(call) ==
  LET line == Aligned[call.line]
      at == IF line = 0 THEN 0 ELSE SelectInSeq(ReadsOf[body.finished[line].code], LAMBDA r : r = call.reg)
  IN  [line |-> line, at |-> at, text |-> Text("value before this call", <<call.value>>),
       stream |-> "call", site |-> call.va, reg |-> call.reg, anchor |-> call.line]

WithCall(plan, call) ==
  LET s == CallSpan(call)
  IN  IF s.at = 0 \/ Claimed(plan, s) \/ (\E other \in spans : Place(other) = Place(s)) THEN plan
      ELSE IF Refusal(s.text.values) # Free THEN Withheld(plan, s, "rejection", Refusal(s.text.values))
      ELSE Fitted(plan, s)

---------------------------------------------------------------------------
(* The audit: record_..._annotation_provenance and write_function_provenance. *)

\* Annotations by their places, of which no two are one.
Ascending(set) ==
  [n \in 1..Cardinality(set) |-> CHOOSE s \in set : Cardinality({t \in set : Before(t, s)}) = n - 1]

\* Mutant: in the order they were inserted, the last first.
CallRecordsBackwards == Reverse(Ascending(Range(inserts)))

\* Inserted from the end, and reversed.
CallRecords == Reverse(Reverse(Ascending(Range(inserts))))
JoinRecords(stream) == Ascending({s \in Range(inserts) : s.stream = stream})

\* find_span: the first place from some place on where that text stands.
Found(text, from) ==
  LET places == {Place(s) : s \in {t \in spans : t.text = text /\ ~Before(t, from)}}
  IN  IF places = {} THEN <<>> ELSE <<CHOOSE p \in places : \A q \in places : ~Before(q, p)>>

\* One record; acc is the rows and the place to search from.
Sought(acc, record) ==
  LET p == Found(record.text, acc.from)
  IN  IF p = <<>> THEN acc
      ELSE [from |-> [line |-> p[1].line, at |-> p[1].at + 1],
            rows |-> Append(acc.rows, [kind |-> "annotation", stream |-> record.stream, line |-> p[1].line,
                                       at |-> p[1].at, site |-> record.site, reg |-> record.reg,
                                       values |-> record.text.values])]

\* The records that were found, each searched behind the one before it.
Placed(stream) ==
  LET found == Len(records[stream])
      after[n \in 0..found] == IF n = 0 THEN [from |-> [line |-> 1, at |-> 1], rows |-> <<>>]
                               ELSE Sought(after[n - 1], records[stream][n])
  IN  after[found].rows

Omissions(stream) == {k \in DOMAIN ledger[stream] : ledger[stream][k].kind = "omission"}

\* A stream without a record that was found and without an omission writes nothing,
\* whatever was rejected.
Silent(stream) == Placed(stream) = <<>> /\ Omissions(stream) = {}

Written(stream) ==
  IF Silent(stream) THEN <<>>
  ELSE Placed(stream) \o ledger[stream]
       \o (IF Omissions(stream) = {} THEN <<>>
           ELSE <<[kind |-> "summary", stream |-> stream, omitted |-> Cardinality(Omissions(stream))]>>)

---------------------------------------------------------------------------

NotesInit(bodies) ==
  /\ body \in bodies
  /\ next = 1 /\ inserts = <<>> /\ spans = {} /\ audit = <<>>
  /\ ledger = [s \in StreamKinds |-> <<>>]
  /\ records = [s \in StreamKinds |-> <<>>]

Planned(plan) == inserts' = plan.inserts /\ ledger' = plan.rows
Plan == [inserts |-> inserts, rows |-> ledger]

JoinAnchor ==
  /\ next <= Len(body.anchors)
  /\ Planned(WithAnchor(Plan, body.anchors[next]))
  /\ next' = next + 1
  /\ UNCHANGED <<body, spans, records, audit>>

ApplyJoins ==
  /\ next = Len(body.anchors) + 1
  /\ spans' = Range(inserts) /\ inserts' = <<>>
  /\ records' = [s \in StreamKinds |-> IF s = "call" THEN <<>> ELSE JoinRecords(s)]
  /\ next' = next + 1
  /\ UNCHANGED <<body, ledger, audit>>

Nth == next - Len(body.anchors) - 1

CallAnchor ==
  /\ Nth \in DOMAIN body.calls
  /\ Planned(WithCall(Plan, body.calls[Nth]))
  /\ next' = next + 1
  /\ UNCHANGED <<body, spans, records, audit>>

ApplyCalls ==
  /\ Nth = Len(body.calls) + 1
  /\ spans' = spans \union Range(inserts) /\ inserts' = <<>>
  /\ records' = [records EXCEPT !["call"] = CallRecords]
  /\ next' = next + 1
  /\ UNCHANGED <<body, ledger, audit>>

WriteAudit ==
  /\ Nth = Len(body.calls) + 2
  /\ audit' = Written("call") \o Written("join") \o Written("loop")
  /\ next' = next + 1
  /\ UNCHANGED <<body, inserts, ledger, spans, records>>

NotesNext == JoinAnchor \/ ApplyJoins \/ CallAnchor \/ ApplyCalls \/ WriteAudit
NotesDone == Nth = Len(body.calls) + 3

---------------------------------------------------------------------------

\* The audit and the text tell one story (scripts/prov_join_output_anchor_check.py): one
\* row for each annotation that stands, at its place, naming its own site, register and
\* values; no read has two, and no line grows past its bound.
AuditIsWhatStands ==
  NotesDone =>
    /\ {[stream |-> r.stream, line |-> r.line, at |-> r.at, site |-> r.site, reg |-> r.reg, values |-> r.values] :
          r \in {row \in Range(audit) : row.kind = "annotation"}}
       = {[stream |-> s.stream, line |-> s.line, at |-> s.at, site |-> s.site, reg |-> s.reg, values |-> s.text.values] :
            s \in spans}
    /\ Cardinality({k \in DOMAIN audit : audit[k].kind = "annotation"}) = Cardinality(spans)
    /\ \A s, t \in spans : Place(s) = Place(t) => s = t
    /\ \A s \in spans : LineWidth(s.line) <= MaxLine

\* Every drop is accounted (structured.rs:1443): each time a rendered line read a register
\* that its merge had candidates for, it was annotated or there is a row that says why not,
\* and the rows and their number are in the audit, if anything of that kind of site is.
NothingIsLostSilently ==
  NotesDone =>
    /\ \A key \in DOMAIN body.candidates :
         LET site == key[1]
             reg == key[2]
             asked == {p \in (DOMAIN body.anchors) \X (DOMAIN body.rendered) :
                         LET a == body.anchors[p[1]]
                         IN  a.site = site /\ reg \in a.regs /\ p[2] \in a.first..a.last
                             /\ reg \in Range(ReadsOf[body.rendered[p[2]]])}
             told == {s \in spans : s.stream # "call" /\ s.site = site /\ s.reg = reg}
             rows == UNION {{<<stream, k>> : k \in {n \in DOMAIN ledger[stream] :
                                ledger[stream][n].site = site /\ ledger[stream][n].reg = reg}} : stream \in {"join", "loop"}}
         IN  Cardinality(told) + Cardinality(rows) >= Cardinality(asked)
    /\ \A stream \in StreamKinds :
         ~Silent(stream) =>
           /\ Range(ledger[stream]) \subseteq Range(audit)
           /\ \A row \in Range(audit) :
                row.stream = stream /\ row.kind = "summary" => row.omitted = Cardinality(Omissions(stream))

\* The audit tells of the annotations and drops there were, and of no other.
AuditIsTheText == AuditIsWhatStands /\ NothingIsLostSilently

Survived(l, r) == body.finished[r].from = l /\ body.finished[r].code = body.rendered[l]
Gone == {l \in DOMAIN body.rendered : \A r \in DOMAIN body.finished : ~Survived(l, r)}
Fresh == {r \in DOMAIN body.finished : \A l \in DOMAIN body.rendered : ~Survived(l, r)}

\* What a line was before it was rewritten or dropped, and what it became, is like no other line.
ChangesAreUnlike ==
  /\ \A l \in Gone : /\ \A k \in DOMAIN body.rendered : body.rendered[k] = body.rendered[l] => k = l
                      /\ \A r \in DOMAIN body.finished : body.finished[r].code # body.rendered[l]
  /\ \A r \in Fresh : \A q \in DOMAIN body.finished : body.finished[q].code = body.finished[r].code => q = r

\* No pairing crosses an earlier one (emit.rs:948), whatever was rewritten: the annotations of
\* calls stand on lines of the code that their reads were rendered in, and in their order.  And a
\* line is followed to what it became where no changed line looks like another, for of a line
\* that is gone and its like that is left the alignment takes the one for the other: then a
\* call's annotation stands on the line its read became, and where the line is gone there is
\* none, and every line that is left is found if all changes fit in the window.
NotesStandAtTheirReads ==
  NotesDone =>
    /\ \A s, t \in {n \in spans : n.stream = "call"} :
         /\ body.rendered[s.anchor] = body.finished[s.line].code
         /\ s.anchor < t.anchor => s.line < t.line
    /\ ChangesAreUnlike =>
         /\ \A s \in spans : s.stream = "call" => Survived(s.anchor, s.line)
         /\ Cardinality(Gone) + Cardinality(Fresh) < Window =>
              \A l \in DOMAIN body.rendered \ Gone : Aligned[l] # 0
=============================================================================
