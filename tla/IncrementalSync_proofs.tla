----------------------- MODULE IncrementalSync_proofs -----------------------
(***************************************************************************)
(* Theorems about IncrementalSync, for every set of files, units, terms    *)
(* and uploads, every vocabulary and every bound.                          *)
(***************************************************************************)
EXTENDS IncrementalSync, SequenceTheorems, WellFoundedInduction, TLAPS

----------------------------------------------------------------------------
(* The operators *)

Below == {ss \in Nat \X Nat : ss[1] < ss[2]}

\* The lengths at which some sequence of naturals has no greatest element.
Unbounded == {n \in Nat \ {0} : \E f \in [1..n -> Nat] :
                  \A j \in 1..n : \E i \in 1..n : f[i] > f[j]}

\* A sequence of naturals has a greatest element.
LEMMA Greatest ==
    ASSUME NEW n \in Nat \ {0}, NEW g \in [1..n -> Nat]
    PROVE  \E j \in 1..n : \A i \in 1..n : g[i] <= g[j]
<1>1. ASSUME Unbounded # {} PROVE FALSE
  <2>1. IsWellFoundedOn(Below, Nat)
    BY NatLessThanWellFounded DEF OpToRel, Below
  <2>2. Unbounded \subseteq Nat
    BY DEF Unbounded
  <2>3. PICK m \in Unbounded : \A k \in Unbounded : <<k, m>> \notin Below
    BY <1>1, <2>1, <2>2, WFMin
  <2>4. m \in Nat \ {0} /\ \A k \in Unbounded : ~(k < m)
    BY <2>2, <2>3 DEF Below, Unbounded
  <2>5. PICK f \in [1..m -> Nat] : \A j \in 1..m : \E i \in 1..m : f[i] > f[j]
    BY DEF Unbounded
  <2>6. \A i \in 1..m : f[i] \in Nat
    OBVIOUS
  <2>7. CASE m = 1
    BY <2>5, <2>6, <2>7
  <2>8. CASE m # 1
    <3>. DEFINE h == [i \in 1..(m-1) |-> f[i]]
    <3>1. m - 1 \in Nat \ {0} /\ m - 1 < m /\ 1..(m-1) \subseteq 1..m
      BY <2>4, <2>8
    <3>2. h \in [1..(m-1) -> Nat] /\ \A i \in 1..(m-1) : h[i] = f[i]
      BY <2>6, <3>1
    <3>. HIDE DEF h
    <3>3. PICK j \in 1..(m-1) : ~\E i \in 1..(m-1) : h[i] > h[j]
      BY <2>4, <3>1, <3>2 DEF Unbounded
    <3>4. j \in 1..m /\ m \in 1..m
      BY <2>4, <3>1
    <3>5. \A i \in 1..(m-1) : f[i] <= f[j]
      BY <2>6, <3>1, <3>2, <3>3, <3>4
    <3>6. \A i \in 1..m : i = m \/ i \in 1..(m-1)
      BY <2>4
    <3>7. f[m] > f[j]
      <4>1. PICK i \in 1..m : f[i] > f[j]
        BY <2>5, <3>4
      <4>2. ~(i \in 1..(m-1))
        BY <2>6, <3>4, <3>5, <4>1
      <4>. QED  BY <3>6, <4>1, <4>2
    <3>8. PICK i \in 1..m : f[i] > f[m]
      BY <2>5, <3>4
    <3>9. i \in 1..(m-1)
      BY <2>6, <3>4, <3>6, <3>8
    <3>10. f[i] <= f[j] /\ f[i] \in Nat /\ f[j] \in Nat /\ f[m] \in Nat
      BY <2>6, <3>4, <3>5, <3>9
    <3>. QED  BY <3>7, <3>8, <3>10
  <2>. QED  BY <2>7, <2>8
<1>2. n \notin Unbounded
  BY <1>1
<1>3. PICK j \in 1..n : ~\E i \in 1..n : g[i] > g[j]
  BY <1>2 DEF Unbounded
<1>4. ASSUME NEW i \in 1..n PROVE g[i] <= g[j]
  <2>1. g[i] \in Nat /\ g[j] \in Nat
    OBVIOUS
  <2>. QED  BY <1>3, <2>1
<1>. QED  BY <1>4

\* What dedupe_llm_items keeps of a headword is one of its meanings, and none
\* only if no unit has one: no headword is lost by merging the units.
LEMMA LongestKeeps ==
    ASSUME NEW many \in Seq(Meanings), many # <<>>
    PROVE  /\ Longest(many) \in Meanings
           /\ \A t \in Terms :
                  t \in Headwords(Longest(many))
                      <=> \E i \in 1..Len(many) : t \in Headwords(many[i])
<1>1. Len(many) \in Nat \ {0} /\ DOMAIN many = 1..Len(many)
      /\ \A i \in 1..Len(many) : many[i] \in Meanings
  BY EmptySeq, LenProperties, ElementOfSeq
<1>2. ASSUME NEW t \in Terms
      PROVE  /\ Longest(many)[t] \in {many[i][t] : i \in 1..Len(many)}
             /\ \A i \in 1..Len(many) : many[i][t] <= Longest(many)[t]
  <2>. DEFINE f == [i \in 1..Len(many) |-> many[i][t]]
  <2>1. f \in [1..Len(many) -> Nat]
    BY <1>1 DEF Meanings
  <2>2. \E j \in 1..Len(many) : \A i \in 1..Len(many) : f[i] <= f[j]
    <3>. HIDE DEF f
    <3>. QED  BY <1>1, <2>1, Greatest
  <2>3. \E m \in {many[i][t] : i \in DOMAIN many} : \A i \in DOMAIN many : many[i][t] <= m
    BY <1>1, <2>2
  <2>4. /\ LongestOf(many, t) \in {many[i][t] : i \in DOMAIN many}
        /\ \A i \in DOMAIN many : many[i][t] <= LongestOf(many, t)
    BY <2>3 DEF LongestOf
  <2>. QED  BY <1>1, <2>4 DEF Longest
<1>3. Longest(many) \in Meanings
  <2>1. \A t \in Terms : Longest(many)[t] \in Nat
    BY <1>1, <1>2 DEF Meanings
  <2>2. Longest(many) = [t \in Terms |-> Longest(many)[t]]
    BY DEF Longest
  <2>. QED  BY <2>1, <2>2 DEF Meanings
<1>4. ASSUME NEW t \in Terms
      PROVE  Longest(many)[t] # 0 <=> \E i \in 1..Len(many) : many[i][t] # 0
  <2>1. \A i \in 1..Len(many) : many[i][t] \in Nat
    BY <1>1 DEF Meanings
  <2>2. PICK i \in 1..Len(many) : Longest(many)[t] = many[i][t]
    BY <1>2
  <2>3. \A j \in 1..Len(many) : many[j][t] <= many[i][t]
    BY <1>2, <2>2
  <2>. QED  BY <2>1, <2>2, <2>3
<1>. QED  BY <1>3, <1>4 DEF Headwords

----------------------------------------------------------------------------
(* The inductive invariant: types *)

SourceRow == [doc : Documents, rev : Nat]

RunState ==
    [pc : {"idle", "next", "fetch", "bytes", "check", "llm", "cached", "cards",
           "chunks"},
     todo : SUBSET Sources, listed : BOOLEAN, metas : [Drive -> Nat],
     source : {Absent} \cup Sources, prev : {Absent} \cup SourceRow,
     doc : Documents \cup {<<>>}, rev : Nat, unit : Positions,
     items : Seq(Meanings), left : SUBSET Terms]

UploadState == [pc : {"idle", "cards"}, items : Meanings, left : SUBSET Terms]

AtRest == {"idle", "next", "fetch", "bytes"}
Reading == {"check", "llm", "cached"}
Recording == {"cards", "chunks"}

\* Where a run is in its document, and of how many units it has the items.
Shape(R) ==
    /\ R.pc \in AtRest => R.unit = 1 /\ R.items = <<>>
    /\ R.pc \in {"fetch", "bytes"} => R.source \in Drive
    /\ R.pc \in Reading \cup Recording =>
           R.source \in Sources /\ R.doc \in Documents /\ R.unit \in 1..Len(R.doc)
    /\ R.pc \in Reading => Len(R.items) = R.unit - 1
    /\ R.pc \in Recording => Len(R.items) = Len(R.doc)

TypeInv ==
    /\ file \in [Sources -> [doc : Documents, rev : Nat]]
    /\ source \in [Sources -> {Absent} \cup SourceRow]
    /\ chunk \in [Sources -> [Positions -> Rows]]
    /\ card \in Meanings
    /\ sheet \in Meanings
    /\ run \in [Runs -> RunState]
    /\ \A r \in Runs : Shape(run[r])
    /\ upload \in [Uploads -> UploadState]
    /\ failed \subseteq Units
    /\ used \in [edits : 0..MaxEdits, faults : 0..MaxFaults, uploads : 0..MaxUploads]

----------------------------------------------------------------------------
(* The inductive invariant: what is recorded follows what was found *)

\* One run at a time.  Two runs of one source would write its chunk rows
\* between each other's two reads of them.
Serial == \A r, s \in Runs : r = s

\* The items of a unit are all the LLM finds in it, or none: the call failed.
Answered(terms, unit, F) == terms = TermsOf(unit) \/ (terms = {} /\ unit \in F)

\* A run, against the chunk rows K, the cards C and the failed units F.
RunFacts(R, K, C, F) ==
    /\ \A i \in 1..Len(R.items) : Answered(Headwords(R.items[i]), R.doc[i], F)
    /\ R.pc = "cached" => /\ K[R.source][R.unit] # Absent
                          /\ K[R.source][R.unit].sha = R.doc[R.unit]
    /\ R.pc = "cards" =>
           /\ R.left \subseteq Headwords(Longest(R.items))
           /\ Headwords(Longest(R.items)) \subseteq Headwords(C) \cup R.left
    /\ R.pc = "chunks" => Headwords(Longest(R.items)) \subseteq Headwords(C)

UploadFacts(U) == U.left \subseteq Headwords(U.items)

RowSound(row, C, F) ==
    row # Absent => Answered(row.ids, row.sha, F) /\ row.ids \subseteq Headwords(C)

SourceSound(rec, C, F) ==
    rec # Absent =>
        \A i \in DOMAIN rec.doc :
            TermsOf(rec.doc[i]) \subseteq Headwords(C) \/ rec.doc[i] \in F

SyncInv ==
    /\ \A r \in Runs : RunFacts(run[r], chunk, card, failed)
    /\ \A k \in Uploads : UploadFacts(upload[k])
    /\ \A s \in Sources, i \in Positions : RowSound(chunk[s][i], card, failed)
    /\ \A s \in Sources : SourceSound(source[s], card, failed)

IInv == TypeInv /\ SyncInv

----------------------------------------------------------------------------
(* Types *)

\* What an idle run and an idle upload hold is well typed.
LEMMA IdleTypes ==
    /\ NoItems \in Meanings
    /\ IdleRun \in RunState /\ Shape(IdleRun)
    /\ IdleUpload \in UploadState
<1>1. 1 \in Positions /\ NoItems \in Meanings
  BY DocumentsType DEF Positions, NoItems, Meanings
<1>2. <<>> \in Seq(Meanings)
  BY EmptySeq
<1>3. IdleRun \in RunState
  BY <1>1, <1>2 DEF IdleRun, RunState, NoRevision
<1>4. Shape(IdleRun)
  BY DEF IdleRun, Shape, AtRest, Reading, Recording
<1>. QED  BY <1>1, <1>3, <1>4 DEF IdleUpload, UploadState

\* A document is a sequence of units that is not empty, and its positions are
\* positions of the chunk table.
LEMMA DocumentTypes ==
    ASSUME NEW d \in Documents
    PROVE  /\ d \in Seq(Units) /\ Len(d) \in Nat \ {0} /\ Len(d) <= MaxUnits
           /\ DOMAIN d = 1..Len(d) /\ 1..Len(d) \subseteq Positions
           /\ \A i \in 1..Len(d) : d[i] \in Units
<1>1. d \in Seq(Units) /\ d # <<>> /\ Len(d) <= MaxUnits
  BY DocumentsType
<1>2. Len(d) \in Nat \ {0} /\ DOMAIN d = 1..Len(d) /\ \A i \in 1..Len(d) : d[i] \in Units
  BY <1>1, EmptySeq, LenProperties, ElementOfSeq
<1>. QED  BY <1>1, <1>2, DocumentsType DEF Positions

\* A run that is done with a document is at the next one.
LEMMA DoneTypes ==
    ASSUME NEW R \in RunState
    PROVE  Done(R) \in RunState /\ Shape(Done(R)) /\ Done(R).items = <<>>
           /\ Done(R).pc = "next"
<1>1. 1 \in Positions /\ <<>> \in Seq(Meanings)
  BY DocumentsType, EmptySeq DEF Positions
<1>2. Done(R) \in RunState
  BY <1>1 DEF Done, RunState
<1>3. /\ Done(R).pc = "next" /\ Done(R).unit = 1 /\ Done(R).items = <<>>
  BY DEF Done, RunState
<1>. QED  BY <1>2, <1>3 DEF Shape, AtRest, Reading, Recording

\* A run that begins a document has read none of it.
LEMMA BeginTypes ==
    ASSUME NEW R \in RunState, R.unit = 1, R.items = <<>>,
           NEW s \in Sources, NEW d \in Documents, NEW v \in Nat
    PROVE  Begin(R, s, d, v) \in RunState /\ Shape(Begin(R, s, d, v))
           /\ Begin(R, s, d, v).items = <<>> /\ Begin(R, s, d, v).pc = "check"
<1>. DEFINE B == Begin(R, s, d, v)
<1>1. B \in RunState
  BY DEF Begin, RunState
<1>2. B.pc = "check" /\ B.source = s /\ B.doc = d /\ B.unit = 1 /\ B.items = <<>>
  BY DEF Begin, RunState
<1>3. 1 \in 1..Len(d) /\ Len(<<>>) = 0
  BY DocumentTypes, EmptySeq
<1>. HIDE DEF B
<1>4. Shape(B)
  BY <1>2, <1>3 DEF Shape, AtRest, Reading, Recording
<1>. QED  BY <1>1, <1>2, <1>4 DEF B

\* A processed unit adds its items, and after the last one all rows are to do.
LEMMA ProcessedTypes ==
    ASSUME NEW R \in RunState, Shape(R), R.pc \in Reading, NEW m \in Meanings
    PROVE  LET P == Processed(R, m) IN
           /\ P \in RunState /\ Shape(P)
           /\ P.source = R.source /\ P.doc = R.doc
           /\ P.items = Append(R.items, m)
           /\ Len(P.items) = R.unit /\ P.items[R.unit] = m
           /\ \A i \in 1..Len(R.items) : P.items[i] = R.items[i]
           /\ P.pc \in {"check", "cards"}
           /\ P.pc = "cards" => P.left = Headwords(Longest(P.items))
<1>. DEFINE all == Append(R.items, m)
            N == Len(R.doc)
<1>1. /\ R.items \in Seq(Meanings) /\ R.unit \in Nat \ {0} /\ Len(R.items) = R.unit - 1
      /\ R.source \in Sources /\ R.doc \in Documents /\ R.unit \in 1..N
  BY DocumentsType DEF RunState, Shape, Positions
<1>2. /\ all \in Seq(Meanings) /\ Len(all) = R.unit
      /\ all[R.unit] = m /\ \A i \in 1..Len(R.items) : all[i] = R.items[i]
  <2>1. all \in Seq(Meanings) /\ Len(all) = Len(R.items) + 1 /\ all[Len(R.items) + 1] = m
        /\ \A i \in 1..Len(R.items) : all[i] = R.items[i]
    BY <1>1, AppendProperties
  <2>2. Len(R.items) + 1 = R.unit
    BY <1>1
  <2>. QED  BY <2>1, <2>2
<1>3. N \in Nat \ {0} /\ 1..N \subseteq Positions
  BY <1>1, DocumentTypes
<1>. HIDE DEF all, N
<1>4. CASE R.unit < N
  <2>. DEFINE P == [R EXCEPT !.pc = "check", !.unit = R.unit + 1, !.items = all]
  <2>1. Processed(R, m) = P
    BY <1>4 DEF Processed, all, N
  <2>2. R.unit + 1 \in 1..N
    BY <1>1, <1>3, <1>4
  <2>3. P \in RunState
    BY <1>2, <1>3, <2>2 DEF RunState
  <2>4. P.pc = "check" /\ P.source = R.source /\ P.doc = R.doc /\ P.items = all
        /\ P.unit = R.unit + 1
    BY DEF RunState
  <2>. HIDE DEF P
  <2>5. Shape(P)
    BY <1>1, <1>2, <2>2, <2>4 DEF Shape, AtRest, Reading, Recording, N
  <2>. QED  BY <1>2, <2>1, <2>3, <2>4, <2>5 DEF all
<1>5. CASE ~(R.unit < N)
  <2>. DEFINE P == [R EXCEPT !.pc = "cards", !.unit = 1, !.items = all,
                             !.left = Headwords(Longest(all))]
  <2>1. Processed(R, m) = P
    BY <1>5 DEF Processed, all, N
  <2>2. 1 \in 1..N /\ R.unit = N
    BY <1>1, <1>3, <1>5
  <2>3. Headwords(Longest(all)) \in SUBSET Terms
    BY DEF Headwords
  <2>4. P \in RunState
    BY <1>2, <1>3, <2>2, <2>3 DEF RunState
  <2>5. P.pc = "cards" /\ P.source = R.source /\ P.doc = R.doc /\ P.items = all
        /\ P.unit = 1 /\ P.left = Headwords(Longest(all))
    BY DEF RunState
  <2>. HIDE DEF P
  <2>6. Shape(P)
    BY <1>1, <1>2, <2>2, <2>5 DEF Shape, AtRest, Reading, Recording, N
  <2>. QED  BY <1>2, <2>1, <2>4, <2>5, <2>6 DEF all
<1>. QED  BY <1>4, <1>5

\* The meanings a chunk row offers are those of its cards that there are.
Reloaded(r) ==
    LET rec == StoredChunk(r)
        ids == IF rec = Absent THEN {} ELSE rec.ids
    IN  [t \in Terms |-> IF t \in ids THEN card[t] ELSE 0]

\* The steps after which a run has the items of no unit.
FreshStep(r) ==
    \/ \E S \in {Sources} \cup SUBSET Drive : StartRun(r, S)
    \/ CollectMetas(r)
    \/ \E s \in Local : ReadLocal(r, s)
    \/ \E f \in Drive : CheckRevision(r, f)
    \/ FetchMeta(r)
    \/ FetchBytes(r)
    \/ EndRun(r)
    \/ CrashRun(r)

Fresh(R) == R \in RunState /\ Shape(R) /\ R.items = <<>> /\ R.pc \in AtRest \cup {"check"}

\* Whatever a run does before it reads the units of a document, or after it has
\* recorded one, leaves it well typed and without items.
LEMMA FreshSteps ==
    ASSUME TypeInv, NEW r \in Runs, FreshStep(r)
    PROVE  \E R \in RunState : Fresh(R) /\ run' = [run EXCEPT ![r] = R]
<1>1. /\ run[r] \in RunState /\ Shape(run[r])
      /\ \A s \in Sources : file[s].doc \in Documents /\ file[s].rev \in Nat
                            /\ source[s] \in {Absent} \cup SourceRow
  BY DEF TypeInv
<1>2. \A f \in Drive : HeadRevision(f) \in Nat
  BY <1>1 DEF HeadRevision, Sources
<1>3. ASSUME NEW R \in RunState PROVE Fresh(Done(R))
  BY DoneTypes DEF Fresh, AtRest
<1>4. ASSUME NEW R \in RunState, R.unit = 1, R.items = <<>>,
             NEW s \in Sources, NEW d \in Documents, NEW v \in Nat
      PROVE  Fresh(Begin(R, s, d, v))
  BY <1>4, BeginTypes DEF Fresh
<1>5. run[r].pc \in AtRest => run[r].unit = 1 /\ run[r].items = <<>>
  BY <1>1 DEF Shape
<1>6. ASSUME NEW S \in {Sources} \cup SUBSET Drive, StartRun(r, S)
      PROVE  \E R \in RunState : Fresh(R) /\ run' = [run EXCEPT ![r] = R]
  <2>. DEFINE R == [IdleRun EXCEPT !.pc = "next", !.todo = S]
  <2>1. run' = [run EXCEPT ![r] = R]
    BY <1>6 DEF StartRun
  <2>2. R \in RunState /\ R.pc = "next" /\ R.unit = 1 /\ R.items = <<>>
    BY IdleTypes DEF IdleRun, RunState, Sources
  <2>. HIDE DEF R
  <2>3. Fresh(R)
    BY <2>2 DEF Fresh, Shape, AtRest, Reading, Recording
  <2>. QED  BY <2>1, <2>2, <2>3
<1>7. CASE CollectMetas(r)
  <2>. DEFINE M == [f \in Drive |-> HeadRevision(f)]
              R == [run[r] EXCEPT !.listed = TRUE, !.metas = M]
  <2>1. M \in [Drive -> Nat]
    BY <1>2
  <2>. HIDE DEF M
  <2>2. R \in RunState /\ R.pc = run[r].pc /\ R.unit = run[r].unit
        /\ R.items = run[r].items
    BY <1>1, <2>1 DEF RunState
  <2>3. run' = [run EXCEPT ![r] = R]
    BY <1>7 DEF CollectMetas, M, TypeInv
  <2>4. run[r].pc = "next"
    BY <1>7 DEF CollectMetas
  <2>. HIDE DEF R
  <2>5. Fresh(R)
    BY <1>5, <2>2, <2>4 DEF Fresh, Shape, AtRest, Reading, Recording
  <2>. QED  BY <2>2, <2>3, <2>5
<1>8. ASSUME NEW s \in Local, ReadLocal(r, s)
      PROVE  \E R \in RunState : Fresh(R) /\ run' = [run EXCEPT ![r] = R]
  <2>. DEFINE D == [run[r] EXCEPT !.source = s]
  <2>1. s \in Sources /\ D \in RunState
    BY <1>1 DEF RunState, Sources
  <2>2. run[r].unit = 1 /\ run[r].items = <<>>
    BY <1>5, <1>8 DEF ReadLocal, AtRest
  <2>3. Fresh(Done(D)) /\ Fresh(Begin(run[r], s, file[s].doc, 0))
    <3>. HIDE DEF D
    <3>. QED  BY <1>1, <1>3, <1>4, <2>1, <2>2
  <2>4. \/ run' = [run EXCEPT ![r] = Done(D)]
        \/ run' = [run EXCEPT ![r] = Begin(run[r], s, file[s].doc, 0)]
    BY <1>8 DEF ReadLocal, TypeInv
  <2>. HIDE DEF D
  <2>. QED  BY <2>3, <2>4 DEF Fresh
<1>9. ASSUME NEW f \in Drive, CheckRevision(r, f)
      PROVE  \E R \in RunState : Fresh(R) /\ run' = [run EXCEPT ![r] = R]
  <2>. DEFINE D == [run[r] EXCEPT !.source = f]
              F == [run[r] EXCEPT !.pc = "fetch", !.source = f, !.prev = source[f]]
  <2>1. f \in Sources /\ D \in RunState
    BY <1>1 DEF RunState, Sources
  <2>2. run[r].unit = 1 /\ run[r].items = <<>>
    BY <1>5, <1>9 DEF CheckRevision, AtRest
  <2>3. F \in RunState /\ F.pc = "fetch" /\ F.source = f /\ F.unit = 1 /\ F.items = <<>>
    BY <1>1, <2>1, <2>2 DEF RunState
  <2>4. \/ run' = [run EXCEPT ![r] = Done(D)]
        \/ run' = [run EXCEPT ![r] = F]
    BY <1>9 DEF CheckRevision, TypeInv
  <2>. HIDE DEF D, F
  <2>5. Fresh(Done(D))
    BY <1>3, <2>1
  <2>6. Fresh(F)
    BY <2>3 DEF Fresh, Shape, AtRest, Reading, Recording
  <2>. QED  BY <2>4, <2>5, <2>6 DEF Fresh
<1>10. CASE FetchMeta(r)
  <2>. DEFINE F == [run[r] EXCEPT !.pc = "bytes", !.rev = HeadRevision(run[r].source)]
  <2>1. run[r].source \in Drive /\ run[r].unit = 1 /\ run[r].items = <<>>
    BY <1>1, <1>5, <1>10 DEF FetchMeta, Shape, AtRest
  <2>2. F \in RunState /\ F.pc = "bytes" /\ F.source = run[r].source
        /\ F.unit = 1 /\ F.items = <<>>
    BY <1>1, <1>2, <2>1 DEF RunState
  <2>3. run' = [run EXCEPT ![r] = F]
    BY <1>10 DEF FetchMeta, TypeInv
  <2>. HIDE DEF F
  <2>4. Fresh(F)
    BY <2>1, <2>2 DEF Fresh, Shape, AtRest, Reading, Recording
  <2>. QED  BY <2>2, <2>3, <2>4
<1>11. CASE FetchBytes(r)
  <2>. DEFINE f == run[r].source
              v == run[r].rev
  <2>1. f \in Drive /\ f \in Sources /\ v \in Nat /\ run[r].unit = 1 /\ run[r].items = <<>>
    BY <1>1, <1>5, <1>11 DEF FetchBytes, Shape, AtRest, Sources, RunState
  <2>2. Fresh(Done(run[r])) /\ Fresh(Begin(run[r], f, file[f].doc, v))
    <3>. HIDE DEF f, v
    <3>. QED  BY <1>1, <1>3, <1>4, <2>1
  <2>3. \/ run' = [run EXCEPT ![r] = Done(run[r])]
        \/ run' = [run EXCEPT ![r] = Begin(run[r], f, file[f].doc, v)]
    BY <1>11 DEF FetchBytes, TypeInv
  <2>. QED  BY <2>2, <2>3 DEF Fresh
<1>12. CASE EndRun(r) \/ CrashRun(r)
  <2>1. run' = [run EXCEPT ![r] = IdleRun] /\ IdleRun.pc = "idle" /\ IdleRun.items = <<>>
    BY <1>12 DEF EndRun, CrashRun, IdleRun
  <2>. QED  BY <2>1, IdleTypes DEF Fresh, AtRest
<1>. QED  BY <1>6, <1>7, <1>8, <1>9, <1>10, <1>11, <1>12 DEF FreshStep

\* A step of one run leaves every run well typed that it leaves alone.
LEMMA RunsTyped ==
    ASSUME TypeInv, NEW r \in Runs, NEW R \in RunState, Shape(R),
           run' = [run EXCEPT ![r] = R]
    PROVE  run' \in [Runs -> RunState] /\ \A q \in Runs : Shape(run[q])'
<1>1. run' \in [Runs -> RunState]
  BY DEF TypeInv
<1>2. ASSUME NEW q \in Runs PROVE Shape(run[q])'
  <2>1. run'[q] = R \/ run'[q] = run[q]
    BY DEF TypeInv
  <2>2. Shape(run'[q])
    BY <2>1 DEF TypeInv
  <2>. QED  BY <2>2
<1>. QED  BY <1>1, <1>2

\* A step that uses up some of a bound stays within it.
LEMMA BoundsTyped ==
    ASSUME TypeInv,
           \/ used' = used
           \/ used.faults < MaxFaults /\ used' = [used EXCEPT !.faults = @ + 1]
           \/ used.uploads < MaxUploads /\ used' = [used EXCEPT !.uploads = @ + 1]
           \/ used.edits < MaxEdits /\ used' = [used EXCEPT !.edits = @ + 1]
    PROVE  used' \in [edits : 0..MaxEdits, faults : 0..MaxFaults, uploads : 0..MaxUploads]
  BY BoundsType DEF TypeInv

\* The meanings a run takes from the chunk table are meanings.
LEMMA ReloadedTypes == ASSUME TypeInv PROVE \A r \in Runs : Reloaded(r) \in Meanings
  BY DEF TypeInv, Reloaded, Meanings

\* Where a run is that reads a unit, and what the LLM may find there.
LEMMA UnitTypes ==
    ASSUME TypeInv, NEW r \in Runs, run[r].pc \in Reading \cup Recording
    PROVE  /\ run[r].source \in Sources /\ run[r].doc \in Documents
           /\ run[r].unit \in 1..Len(run[r].doc) /\ run[r].unit \in Positions
           /\ CurrentUnit(r) \in Units /\ Vocabulary[CurrentUnit(r)] \in Meanings
           /\ StoredChunk(r) \in Rows
<1>1. run[r] \in RunState /\ Shape(run[r])
  BY DEF TypeInv
<1>2. /\ run[r].source \in Sources /\ run[r].doc \in Documents
      /\ run[r].unit \in 1..Len(run[r].doc) /\ run[r].unit \in Positions
  BY <1>1 DEF Shape, RunState
<1>3. CurrentUnit(r) \in Units
  BY <1>2, DocumentTypes DEF CurrentUnit
<1>. QED  BY <1>2, <1>3, VocabularyType DEF Meanings, StoredChunk, TypeInv

\* A unit is processed with what the LLM found in it, with nothing, or with
\* what the chunk table offers.
LEMMA ProcessSteps ==
    ASSUME TypeInv, NEW r \in Runs, Extract(r) \/ ExtractFails(r) \/ LoadCached(r)
    PROVE  \E m \in Meanings :
               /\ run[r].pc \in Reading
               /\ run' = [run EXCEPT ![r] = Processed(run[r], m)]
               /\ Extract(r) => m = Vocabulary[CurrentUnit(r)]
               /\ ExtractFails(r) => m = NoItems
               /\ LoadCached(r) => run[r].pc = "cached" /\ m = Reloaded(r)
<1>1. CASE LoadCached(r)
  <2>1. run[r].pc = "cached" /\ run' = [run EXCEPT ![r] = Processed(run[r], Reloaded(r))]
    BY <1>1 DEF LoadCached, Reloaded, TypeInv
  <2>2. ~Extract(r) /\ ~ExtractFails(r)
    BY <2>1 DEF Extract, ExtractFails
  <2>. QED  BY <2>1, <2>2, ReloadedTypes DEF Reading
<1>2. CASE ExtractFails(r)
  <2>1. run[r].pc = "llm" /\ run' = [run EXCEPT ![r] = Processed(run[r], NoItems)]
    BY <1>2 DEF ExtractFails, TypeInv
  <2>2. ~LoadCached(r)
    BY <2>1 DEF LoadCached
  <2>3. Extract(r) => used' = used
    BY DEF Extract
  <2>4. used' # used
    <3>1. used.faults \in Nat /\ used'.faults = used.faults + 1
      BY <1>2, BoundsType DEF ExtractFails, TypeInv
    <3>. QED  BY <3>1
  <2>. QED  BY <2>1, <2>2, <2>3, <2>4, IdleTypes DEF Reading
<1>3. CASE Extract(r) /\ ~ExtractFails(r)
  <2>1. run[r].pc = "llm"
        /\ run' = [run EXCEPT ![r] = Processed(run[r], Vocabulary[CurrentUnit(r)])]
    BY <1>3 DEF Extract, TypeInv
  <2>2. ~LoadCached(r)
    BY <2>1 DEF LoadCached
  <2>3. Vocabulary[CurrentUnit(r)] \in Meanings
    BY <2>1, UnitTypes DEF Reading
  <2>. QED  BY <1>3, <2>1, <2>2, <2>3 DEF Reading
<1>. QED  BY <1>1, <1>2, <1>3

\* What a run stores as the meaning of a headword is a meaning.
LEMMA StoreCardTypes ==
    ASSUME TypeInv, NEW r \in Runs, NEW t \in Terms, StoreCard(r, t)
    PROVE  /\ run[r].items \in Seq(Meanings) /\ run[r].items # <<>>
           /\ Longest(run[r].items) \in Meanings /\ card' \in Meanings
<1>1. /\ run[r] \in RunState /\ Shape(run[r]) /\ run[r].pc \in Recording
      /\ card' = [card EXCEPT ![t] = Longest(run[r].items)[t]]
  BY DEF TypeInv, StoreCard, Recording
<1>2. run[r].items \in Seq(Meanings) /\ Len(run[r].items) = Len(run[r].doc)
      /\ run[r].doc \in Documents
  BY <1>1 DEF RunState, Shape
<1>3. run[r].items # <<>>
  BY <1>2, DocumentTypes, EmptySeq
<1>4. Longest(run[r].items) \in Meanings
  BY <1>2, <1>3, LongestKeeps
<1>. QED  BY <1>1, <1>2, <1>3, <1>4 DEF TypeInv, Meanings

\* The steps that record a document leave the run with its items, or done.
LEMMA RecordSteps ==
    ASSUME TypeInv, NEW r \in Runs,
           \/ \E t \in Terms : StoreCard(r, t)
           \/ StoreSource(r)
           \/ StoreChunk(r)
    PROVE  \E R \in RunState :
               /\ Shape(R) /\ run' = [run EXCEPT ![r] = R]
               /\ \/ Fresh(R) /\ R.pc = "next"
                  \/ R.items = run[r].items /\ R.doc = run[r].doc /\ R.pc \in Recording
               /\ R.pc = "cards" => \E t \in Terms :
                      StoreCard(r, t) /\ R.left = run[r].left \ {t}
               /\ R.pc = "chunks" => StoreSource(r) \/ StoreChunk(r)
<1>1. /\ run[r] \in RunState /\ Shape(run[r]) /\ run[r].pc \in Recording
  BY DEF TypeInv, StoreCard, StoreSource, StoreChunk, Recording
<1>2. /\ run[r].source \in Sources /\ run[r].doc \in Documents
      /\ run[r].unit \in 1..Len(run[r].doc) /\ Len(run[r].items) = Len(run[r].doc)
  BY <1>1 DEF Shape
<1>3. Len(run[r].doc) \in Nat /\ 1..Len(run[r].doc) \subseteq Positions
  BY <1>2, DocumentTypes
<1>4. ASSUME NEW R \in RunState, R.source = run[r].source, R.doc = run[r].doc,
             R.items = run[r].items, R.unit \in 1..Len(run[r].doc), R.pc \in Recording
      PROVE  Shape(R)
  BY <1>2, <1>4 DEF Shape, AtRest, Reading, Recording
<1>5. ASSUME NEW t \in Terms, StoreCard(r, t)
      PROVE  \E R \in RunState :
                 /\ Shape(R) /\ run' = [run EXCEPT ![r] = R]
                 /\ R.items = run[r].items /\ R.doc = run[r].doc
                 /\ R.pc = "cards" /\ R.left = run[r].left \ {t}
  <2>. DEFINE R == [run[r] EXCEPT !.left = run[r].left \ {t}]
  <2>1. run' = [run EXCEPT ![r] = R] /\ run[r].pc = "cards"
    BY <1>5 DEF StoreCard, TypeInv
  <2>2. R \in RunState /\ R.source = run[r].source /\ R.doc = run[r].doc
        /\ R.items = run[r].items /\ R.unit = run[r].unit /\ R.pc = run[r].pc
        /\ R.left = run[r].left \ {t}
    BY <1>1 DEF RunState
  <2>. HIDE DEF R
  <2>3. Shape(R)
    BY <1>2, <1>4, <2>1, <2>2 DEF Recording
  <2>. QED  BY <2>1, <2>2, <2>3
<1>6. ASSUME StoreSource(r)
      PROVE  \E R \in RunState :
                 /\ Shape(R) /\ run' = [run EXCEPT ![r] = R]
                 /\ R.items = run[r].items /\ R.doc = run[r].doc /\ R.pc = "chunks"
  <2>. DEFINE R == [run[r] EXCEPT !.pc = "chunks"]
  <2>1. run' = [run EXCEPT ![r] = R]
    BY <1>6 DEF StoreSource, TypeInv
  <2>2. R \in RunState /\ R.source = run[r].source /\ R.doc = run[r].doc
        /\ R.items = run[r].items /\ R.unit = run[r].unit /\ R.pc = "chunks"
    BY <1>1 DEF RunState
  <2>. HIDE DEF R
  <2>3. Shape(R)
    BY <1>2, <1>4, <2>2 DEF Recording
  <2>. QED  BY <2>1, <2>2, <2>3
<1>7. ASSUME StoreChunk(r)
      PROVE  \E R \in RunState :
                 /\ Shape(R) /\ run' = [run EXCEPT ![r] = R]
                 /\ \/ Fresh(R) /\ R.pc = "next"
                    \/ R.items = run[r].items /\ R.doc = run[r].doc /\ R.pc = "chunks"
  <2>1. CASE run[r].unit < Len(run[r].doc)
    <3>. DEFINE R == [run[r] EXCEPT !.unit = run[r].unit + 1]
    <3>1. run' = [run EXCEPT ![r] = R] /\ run[r].pc = "chunks"
      BY <1>7, <2>1 DEF StoreChunk, TypeInv
    <3>2. run[r].unit + 1 \in 1..Len(run[r].doc)
      BY <1>2, <1>3, <2>1
    <3>3. R \in RunState /\ R.source = run[r].source /\ R.doc = run[r].doc
          /\ R.items = run[r].items /\ R.unit = run[r].unit + 1 /\ R.pc = run[r].pc
      BY <1>1, <1>3, <3>2 DEF RunState
    <3>. HIDE DEF R
    <3>4. Shape(R)
      BY <1>4, <3>1, <3>2, <3>3 DEF Recording
    <3>. QED  BY <3>1, <3>3, <3>4
  <2>2. CASE ~(run[r].unit < Len(run[r].doc))
    <3>1. run' = [run EXCEPT ![r] = Done(run[r])]
      BY <1>7, <2>2 DEF StoreChunk, TypeInv
    <3>. QED  BY <1>1, <3>1, DoneTypes DEF Fresh, AtRest
  <2>. QED  BY <2>1, <2>2
<1>8. CASE \E t \in Terms : StoreCard(r, t)
  BY <1>5, <1>8 DEF Recording
<1>9. CASE StoreSource(r)
  BY <1>6, <1>9 DEF Recording
<1>10. CASE StoreChunk(r)
  BY <1>7, <1>10 DEF Recording
<1>. QED  BY <1>8, <1>9, <1>10

\* One row of a table of rows is replaced, and no other.
LEMMA RowStored ==
    ASSUME NEW K \in [Sources -> [Positions -> Rows]], NEW s \in Sources,
           NEW n \in Positions, NEW row \in Rows,
           NEW L, L = [K EXCEPT ![s][n] = row]
    PROVE  /\ L \in [Sources -> [Positions -> Rows]]
           /\ L[s][n] = row
           /\ \A q \in Sources, i \in Positions : L[q][i] = K[q][i] \/ L[q][i] = row
<1>. DEFINE g == [K[s] EXCEPT ![n] = row]
<1>1. g \in [Positions -> Rows] /\ g[n] = row
      /\ \A i \in Positions : g[i] = K[s][i] \/ g[i] = row
  OBVIOUS
<1>2. L = [K EXCEPT ![s] = g]
  OBVIOUS
<1>. HIDE DEF g
<1>. QED  BY <1>1, <1>2

\* Every initial state is well typed.
LEMMA TypeInit == Init => TypeInv
<1>. SUFFICES ASSUME Init PROVE TypeInv
  OBVIOUS
<1>1. file \in [Sources -> [doc : Documents, rev : Nat]]
  BY DEF Init
<1>2. /\ source \in [Sources -> {Absent} \cup SourceRow]
      /\ chunk \in [Sources -> [Positions -> Rows]]
  BY DEF Init, Rows
<1>3. /\ run \in [Runs -> RunState] /\ \A r \in Runs : Shape(run[r])
      /\ upload \in [Uploads -> UploadState]
  BY IdleTypes DEF Init
<1>4. used \in [edits : 0..MaxEdits, faults : 0..MaxFaults, uploads : 0..MaxUploads]
  BY BoundsType DEF Init
<1>. QED  BY <1>1, <1>2, <1>3, <1>4, IdleTypes DEF Init, TypeInv

\* Every step keeps the types.
LEMMA TypeStep == TypeInv /\ [Next]_vars => TypeInv'
<1>. SUFFICES ASSUME TypeInv, [Next]_vars PROVE TypeInv'
  OBVIOUS
<1>1. ASSUME file' = file, source' = source, chunk' = chunk, card' = card,
             sheet' \in Meanings, failed' \subseteq Units, upload' = upload,
             run' \in [Runs -> RunState], \A r \in Runs : Shape(run[r])',
             used' \in [edits : 0..MaxEdits, faults : 0..MaxFaults, uploads : 0..MaxUploads]
      PROVE  TypeInv'
  BY <1>1 DEF TypeInv
<1>2. ASSUME file' = file, run' = run, sheet' = sheet, failed' = failed,
             source' = source, chunk' = chunk, card' \in Meanings,
             upload' \in [Uploads -> UploadState],
             used' \in [edits : 0..MaxEdits, faults : 0..MaxFaults, uploads : 0..MaxUploads]
      PROVE  TypeInv'
  <2>1. \A r \in Runs : Shape(run[r])'
    BY <1>2 DEF TypeInv
  <2>. QED  BY <1>2, <2>1 DEF TypeInv
<1>3. ASSUME NEW r \in Runs, FreshStep(r) PROVE TypeInv'
  <2>1. PICK R \in RunState : Fresh(R) /\ run' = [run EXCEPT ![r] = R]
    BY <1>3, FreshSteps
  <2>2. run' \in [Runs -> RunState] /\ \A q \in Runs : Shape(run[q])'
    BY <2>1, RunsTyped DEF Fresh
  <2>3. /\ file' = file /\ source' = source /\ chunk' = chunk /\ card' = card
        /\ upload' = upload /\ failed' = failed /\ (sheet' = sheet \/ sheet' = card)
        /\ \/ used' = used
           \/ used.faults < MaxFaults /\ used' = [used EXCEPT !.faults = @ + 1]
    BY <1>3 DEF FreshStep, StartRun, CollectMetas, ReadLocal, CheckRevision, FetchMeta, FetchBytes,
                EndRun, CrashRun, store
  <2>4. sheet' \in Meanings /\ failed' \subseteq Units
    BY <2>3 DEF TypeInv
  <2>5. used' \in [edits : 0..MaxEdits, faults : 0..MaxFaults, uploads : 0..MaxUploads]
    BY <2>3, BoundsTyped
  <2>. QED  BY <1>1, <2>2, <2>3, <2>4, <2>5
<1>4. ASSUME NEW r \in Runs, CheckUnit(r) PROVE TypeInv'
  <2>. DEFINE pc == IF ChunkNeedsLlm(StoredChunk(r), CurrentUnit(r)) THEN "llm" ELSE "cached"
              R == [run[r] EXCEPT !.pc = pc]
  <2>1. run' = [run EXCEPT ![r] = R] /\ run[r].pc = "check"
        /\ UNCHANGED <<file, source, chunk, card, sheet, upload, failed, used>>
    BY <1>4 DEF CheckUnit, TypeInv, store
  <2>2. pc \in {"llm", "cached"}
    OBVIOUS
  <2>. HIDE DEF pc
  <2>3. run[r] \in RunState /\ Shape(run[r])
    BY DEF TypeInv
  <2>4. R \in RunState /\ R.pc \in {"llm", "cached"} /\ R.source = run[r].source
        /\ R.doc = run[r].doc /\ R.unit = run[r].unit /\ R.items = run[r].items
    BY <2>2, <2>3 DEF RunState
  <2>. HIDE DEF R
  <2>5. Shape(R)
    BY <2>1, <2>3, <2>4 DEF Shape, AtRest, Reading, Recording
  <2>6. run' \in [Runs -> RunState] /\ \A q \in Runs : Shape(run[q])'
    BY <2>1, <2>4, <2>5, RunsTyped
  <2>. QED  BY <1>1, <2>1, <2>6 DEF TypeInv
<1>5. ASSUME NEW r \in Runs, Extract(r) \/ ExtractFails(r) \/ LoadCached(r) PROVE TypeInv'
  <2>1. PICK m \in Meanings : /\ run[r].pc \in Reading
                              /\ run' = [run EXCEPT ![r] = Processed(run[r], m)]
    BY <1>5, ProcessSteps
  <2>2. run[r] \in RunState /\ Shape(run[r]) /\ CurrentUnit(r) \in Units
    BY <2>1, UnitTypes DEF TypeInv
  <2>3. run' \in [Runs -> RunState] /\ \A q \in Runs : Shape(run[q])'
    BY <2>1, <2>2, ProcessedTypes, RunsTyped
  <2>4. /\ file' = file /\ source' = source /\ chunk' = chunk /\ card' = card
        /\ upload' = upload /\ sheet' = sheet
        /\ (failed' = failed \/ failed' = failed \cup {CurrentUnit(r)})
        /\ \/ used' = used
           \/ used.faults < MaxFaults /\ used' = [used EXCEPT !.faults = @ + 1]
    BY <1>5 DEF Extract, ExtractFails, LoadCached, store
  <2>5. used' \in [edits : 0..MaxEdits, faults : 0..MaxFaults, uploads : 0..MaxUploads]
    BY <2>4, BoundsTyped
  <2>6. sheet' \in Meanings /\ failed' \subseteq Units
    BY <2>2, <2>4 DEF TypeInv
  <2>. QED  BY <1>1, <2>3, <2>4, <2>5, <2>6
<1>6. ASSUME NEW r \in Runs,
             \/ \E t \in Terms : StoreCard(r, t)
             \/ StoreSource(r)
             \/ StoreChunk(r)
      PROVE  TypeInv'
  <2>1. PICK R \in RunState : Shape(R) /\ run' = [run EXCEPT ![r] = R]
    BY <1>6, RecordSteps
  <2>2. run' \in [Runs -> RunState] /\ \A q \in Runs : Shape(run[q])'
    BY <2>1, RunsTyped
  <2>3. UNCHANGED <<file, sheet, upload, failed, used>>
    BY <1>6 DEF StoreCard, StoreSource, StoreChunk
  <2>4. card' \in Meanings
    BY <1>6, StoreCardTypes DEF StoreSource, StoreChunk, TypeInv
  <2>5. run[r].source \in Sources /\ run[r].doc \in Documents /\ run[r].rev \in Nat
        /\ run[r].unit \in Positions /\ CurrentUnit(r) \in Units
    <3>1. run[r].pc \in Recording
      BY <1>6 DEF StoreCard, StoreSource, StoreChunk, Recording
    <3>. QED  BY <3>1, UnitTypes DEF TypeInv, RunState
  <2>6. source' \in [Sources -> {Absent} \cup SourceRow]
    <3>1. \/ source' = source
          \/ source' = [source EXCEPT ![run[r].source] =
                            [doc |-> run[r].doc, rev |-> run[r].rev]]
      BY <1>6 DEF StoreCard, StoreSource, StoreChunk
    <3>2. [doc |-> run[r].doc, rev |-> run[r].rev] \in SourceRow
      BY <2>5 DEF SourceRow
    <3>. QED  BY <2>5, <3>1, <3>2 DEF TypeInv
  <2>7. chunk' \in [Sources -> [Positions -> Rows]]
    <3>1. ChunkIds(r) \in SUBSET Terms
      BY DEF ChunkIds, Headwords
    <3>. DEFINE row == [sha |-> CurrentUnit(r), ids |-> ChunkIds(r)]
    <3>2. row \in Rows
      BY <2>5, <3>1 DEF Rows
    <3>3. \/ chunk' = chunk
          \/ chunk' = [chunk EXCEPT ![run[r].source][run[r].unit] = row]
      BY <1>6 DEF StoreCard, StoreSource, StoreChunk
    <3>. HIDE DEF row
    <3>4. chunk \in [Sources -> [Positions -> Rows]]
      BY DEF TypeInv
    <3>5. CASE chunk' = chunk
      BY <3>4, <3>5
    <3>6. CASE chunk' = [chunk EXCEPT ![run[r].source][run[r].unit] = row]
      BY <2>5, <3>2, <3>4, <3>6, RowStored
    <3>. QED  BY <3>3, <3>5, <3>6
  <2>. QED  BY <2>2, <2>3, <2>4, <2>6, <2>7 DEF TypeInv
<1>7. ASSUME NEW k \in Uploads, UploadStep(k) PROVE TypeInv'
  <2>1. ASSUME NEW t \in Terms, StoreUploadedCard(k, t) PROVE TypeInv'
    <3>1. upload[k].items[t] \in Nat
      BY DEF TypeInv, UploadState, Meanings
    <3>2. card' \in Meanings /\ upload' \in [Uploads -> UploadState]
      BY <2>1, <3>1 DEF StoreUploadedCard, TypeInv, Meanings, UploadState
    <3>. QED  BY <1>2, <2>1, <3>2 DEF StoreUploadedCard, TypeInv
  <2>2. CASE EndUpload(k)
    <3>1. upload' \in [Uploads -> UploadState]
      BY <2>2, IdleTypes DEF EndUpload, TypeInv
    <3>. QED  BY <1>2, <2>2, <3>1 DEF EndUpload, store, TypeInv
  <2>. QED  BY <1>7, <2>1, <2>2 DEF UploadStep
<1>8. ASSUME NEW k \in Uploads, NEW u \in Units, BeginUpload(k, u) PROVE TypeInv'
  <2>1. Vocabulary[u] \in Meanings /\ TermsOf(u) \in SUBSET Terms
    BY VocabularyType DEF Meanings, TermsOf, Headwords
  <2>. DEFINE U == [IdleUpload EXCEPT !.pc = "cards", !.items = Vocabulary[u],
                                      !.left = TermsOf(u)]
  <2>2. upload' \in [Uploads -> UploadState]
    <3>1. U \in UploadState
      BY <2>1 DEF IdleUpload, UploadState
    <3>2. upload' = [upload EXCEPT ![k] = U]
      BY <1>8 DEF BeginUpload
    <3>. HIDE DEF U
    <3>. QED  BY <3>1, <3>2 DEF TypeInv
  <2>3. used' \in [edits : 0..MaxEdits, faults : 0..MaxFaults, uploads : 0..MaxUploads]
    BY <1>8, BoundsTyped DEF BeginUpload
  <2>. QED  BY <1>2, <1>8, <2>2, <2>3 DEF BeginUpload, store, TypeInv
<1>9. ASSUME NEW s \in Sources, NEW doc \in Documents, EditFile(s, doc) PROVE TypeInv'
  <2>1. file' \in [Sources -> [doc : Documents, rev : Nat]]
    BY <1>9 DEF EditFile, TypeInv
  <2>2. used' \in [edits : 0..MaxEdits, faults : 0..MaxFaults, uploads : 0..MaxUploads]
    BY <1>9, BoundsTyped DEF EditFile
  <2>3. UNCHANGED <<source, chunk, card, sheet, run, upload, failed>>
    BY <1>9 DEF EditFile, store
  <2>. QED  BY <2>1, <2>2, <2>3 DEF TypeInv
<1>10. CASE UNCHANGED vars
  <2>1. UNCHANGED <<file, source, chunk, card, sheet, run, upload, failed, used>>
    BY <1>10 DEF vars, store
  <2>. QED  BY <2>1 DEF TypeInv
<1>11. ASSUME NEW r \in Runs,
              \/ \E S \in {Sources} \cup SUBSET Drive : StartRun(r, S)
              \/ RunStep(r)
              \/ ExtractFails(r)
              \/ CrashRun(r)
       PROVE  TypeInv'
  <2>1. \/ FreshStep(r)
        \/ CheckUnit(r)
        \/ Extract(r) \/ ExtractFails(r) \/ LoadCached(r)
        \/ (\E t \in Terms : StoreCard(r, t)) \/ StoreSource(r) \/ StoreChunk(r)
    BY <1>11 DEF RunStep, FreshStep
  <2>. QED  BY <1>3, <1>4, <1>5, <1>6, <2>1
<1>. QED  BY <1>7, <1>8, <1>9, <1>10, <1>11 DEF Next

\* Every variable holds what the code can put there.
THEOREM TypeCorrect == Spec => []TypeOK
<1>1. TypeInv => TypeOK
  <2>1. ASSUME TypeInv PROVE TypeOK
    BY <2>1 DEF TypeInv, TypeOK, RunState, UploadState, SourceRow
  <2>. QED  BY <2>1
<1>. QED  BY <1>1, TypeInit, TypeStep, PTL DEF Spec

----------------------------------------------------------------------------
(* What is recorded follows what was found *)

\* More cards and more failed units keep what was sound sound.
LEMMA Grown ==
    ASSUME NEW C, NEW D, NEW F, NEW G, Headwords(C) \subseteq Headwords(D), F \subseteq G
    PROVE  /\ \A row : RowSound(row, C, F) => RowSound(row, D, G)
           /\ \A rec : SourceSound(rec, C, F) => SourceSound(rec, D, G)
           /\ \A R, K : RunFacts(R, K, C, F) => RunFacts(R, K, D, G)
<1>1. \A terms, u : Answered(terms, u, F) => Answered(terms, u, G)
  BY DEF Answered
<1>2. \A row : RowSound(row, C, F) => RowSound(row, D, G)
  BY <1>1 DEF RowSound
<1>3. \A rec : SourceSound(rec, C, F) => SourceSound(rec, D, G)
  BY DEF SourceSound
<1>4. ASSUME NEW R, NEW K, RunFacts(R, K, C, F) PROVE RunFacts(R, K, D, G)
  <2>1. \A i \in 1..Len(R.items) : Answered(Headwords(R.items[i]), R.doc[i], G)
    BY <1>1, <1>4 DEF RunFacts
  <2>2. R.pc \in {"cards", "chunks"} => Headwords(C) \subseteq Headwords(D)
    OBVIOUS
  <2>. QED  BY <1>4, <2>1, <2>2 DEF RunFacts
<1>. QED  BY <1>2, <1>3, <1>4

\* A run without items has recorded nothing it should not have.
LEMMA FreshFacts ==
    ASSUME NEW R, Fresh(R), NEW K, NEW C, NEW F
    PROVE  RunFacts(R, K, C, F)
  BY EmptySeq DEF Fresh, RunFacts, AtRest

\* A headword that has a card keeps it, and a failed unit remains one: nobody
\* stores an empty meaning.
LEMMA CardsStay ==
    ASSUME IInv, Next
    PROVE  Headwords(card) \subseteq Headwords(card') /\ failed \subseteq failed'
<1>1. ASSUME NEW r \in Runs, NEW t \in Terms, StoreCard(r, t)
      PROVE  Headwords(card) \subseteq Headwords(card')
  <2>1. run[r].pc = "cards" /\ t \in run[r].left
        /\ card' = [card EXCEPT ![t] = Longest(run[r].items)[t]]
    BY <1>1 DEF StoreCard
  <2>2. t \in Headwords(Longest(run[r].items))
    BY <2>1 DEF IInv, SyncInv, RunFacts
  <2>. QED  BY <2>1, <2>2 DEF Headwords, IInv, TypeInv, Meanings
<1>2. ASSUME NEW k \in Uploads, NEW t \in Terms, StoreUploadedCard(k, t)
      PROVE  Headwords(card) \subseteq Headwords(card')
  <2>1. t \in upload[k].left /\ card' = [card EXCEPT ![t] = upload[k].items[t]]
    BY <1>2 DEF StoreUploadedCard
  <2>2. t \in Headwords(upload[k].items)
    BY <2>1 DEF IInv, SyncInv, UploadFacts
  <2>. QED  BY <2>1, <2>2 DEF Headwords, IInv, TypeInv, Meanings
<1>3. \/ card' = card
      \/ \E r \in Runs, t \in Terms : StoreCard(r, t)
      \/ \E k \in Uploads, t \in Terms : StoreUploadedCard(k, t)
  BY DEF Next, RunStep, UploadStep, StartRun, CollectMetas, ReadLocal, CheckRevision, FetchMeta, FetchBytes,
         CheckUnit, Extract, ExtractFails, LoadCached, StoreSource, StoreChunk, EndRun, CrashRun,
         BeginUpload, EndUpload, EditFile, store
<1>4. failed \subseteq failed'
  BY DEF Next, RunStep, UploadStep, StartRun, CollectMetas, ReadLocal, CheckRevision, FetchMeta, FetchBytes,
         CheckUnit, Extract, ExtractFails, LoadCached, StoreCard, StoreSource, StoreChunk, EndRun,
         CrashRun, BeginUpload, StoreUploadedCard, EndUpload, EditFile, store
<1>. QED  BY <1>1, <1>2, <1>3, <1>4

\* The items of a unit are what the LLM found in it, or none, whether they come
\* from the LLM or from the chunk table.
LEMMA ProcessFacts ==
    ASSUME IInv, Next, NEW r \in Runs, Extract(r) \/ ExtractFails(r) \/ LoadCached(r)
    PROVE  \E R \in RunState : run' = [run EXCEPT ![r] = R]
                               /\ RunFacts(R, chunk', card', failed')
<1>1. PICK m \in Meanings :
          /\ run[r].pc \in Reading
          /\ run' = [run EXCEPT ![r] = Processed(run[r], m)]
          /\ Extract(r) => m = Vocabulary[CurrentUnit(r)]
          /\ ExtractFails(r) => m = NoItems
          /\ LoadCached(r) => run[r].pc = "cached" /\ m = Reloaded(r)
  BY ProcessSteps DEF IInv
<1>. DEFINE P == Processed(run[r], m)
            u == CurrentUnit(r)
<1>2. /\ run[r] \in RunState /\ Shape(run[r]) /\ Len(run[r].items) = run[r].unit - 1
      /\ run[r].unit \in 1..Len(run[r].doc) /\ run[r].unit \in Positions
      /\ run[r].source \in Sources /\ StoredChunk(r) \in Rows
      /\ RunFacts(run[r], chunk, card, failed)
  BY <1>1, UnitTypes DEF IInv, TypeInv, SyncInv, Shape
<1>3. Answered(Headwords(m), u, failed')
  <2>1. CASE Extract(r)
    BY <1>1, <2>1 DEF Answered, TermsOf
  <2>2. CASE ExtractFails(r)
    <3>1. m = NoItems /\ u \in failed'
      BY <1>1, <2>2 DEF ExtractFails
    <3>2. Headwords(NoItems) = {}
      BY DEF Headwords, NoItems
    <3>. QED  BY <3>1, <3>2 DEF Answered
  <2>3. CASE LoadCached(r)
    <3>. DEFINE rec == StoredChunk(r)
    <3>1. rec # Absent /\ rec.sha = u
      BY <1>1, <1>2, <2>3 DEF RunFacts, StoredChunk, CurrentUnit
    <3>2. RowSound(rec, card, failed)
      BY <1>2 DEF IInv, SyncInv, StoredChunk
    <3>3. Answered(rec.ids, u, failed) /\ rec.ids \subseteq Headwords(card)
      BY <3>1, <3>2 DEF RowSound
    <3>4. m = [t \in Terms |-> IF t \in rec.ids THEN card[t] ELSE 0]
      BY <1>1, <2>3, <3>1 DEF Reloaded
    <3>. HIDE DEF rec, u
    <3>5. Headwords(m) = rec.ids
      BY <3>3, <3>4 DEF Headwords
    <3>. QED  BY <3>3, <3>5, CardsStay DEF Answered
  <2>. QED  BY <2>1, <2>2, <2>3
<1>4. /\ P \in RunState /\ P.doc = run[r].doc /\ Len(P.items) = run[r].unit
      /\ P.items[run[r].unit] = m /\ \A i \in 1..Len(run[r].items) : P.items[i] = run[r].items[i]
      /\ P.pc \in {"check", "cards"}
      /\ P.pc = "cards" => P.left = Headwords(Longest(P.items))
  BY <1>1, <1>2, ProcessedTypes
<1>5. u = P.doc[run[r].unit]
  BY <1>4 DEF CurrentUnit
<1>. HIDE DEF P, u
<1>6. ASSUME NEW i \in 1..Len(P.items) PROVE Answered(Headwords(P.items[i]), P.doc[i], failed')
  <2>1. i = run[r].unit \/ i \in 1..Len(run[r].items)
    BY <1>2, <1>4
  <2>2. CASE i = run[r].unit
    BY <1>3, <1>4, <1>5, <2>2
  <2>3. CASE i \in 1..Len(run[r].items)
    <3>1. Answered(Headwords(run[r].items[i]), run[r].doc[i], failed)
      BY <1>2, <2>3 DEF RunFacts
    <3>2. failed \subseteq failed'
      BY CardsStay
    <3>3. P.items[i] = run[r].items[i]
      BY <1>4, <2>3
    <3>. QED  BY <1>4, <3>1, <3>2, <3>3 DEF Answered
  <2>. QED  BY <2>1, <2>2, <2>3
<1>7. RunFacts(P, chunk', card', failed')
  BY <1>4, <1>6 DEF RunFacts
<1>. QED  BY <1>1, <1>4, <1>7 DEF P

\* When all rows of a document are stored, each of its units has cards for all
\* that the LLM found in it, or the LLM failed on it.
LEMMA Recorded ==
    ASSUME IInv, NEW r \in Runs, run[r].pc \in Recording, run[r].left = {} \/ run[r].pc = "chunks",
           NEW i \in 1..Len(run[r].doc)
    PROVE  /\ Headwords(run[r].items[i]) \subseteq Headwords(card)
           /\ Answered(Headwords(run[r].items[i]), run[r].doc[i], failed)
<1>1. /\ run[r] \in RunState /\ Shape(run[r]) /\ RunFacts(run[r], chunk, card, failed)
  BY DEF IInv, TypeInv, SyncInv
<1>2. /\ run[r].items \in Seq(Meanings) /\ Len(run[r].items) = Len(run[r].doc)
      /\ run[r].doc \in Documents
  BY <1>1 DEF RunState, Shape
<1>3. run[r].items # <<>>
  BY <1>2, DocumentTypes, EmptySeq
<1>4. Headwords(run[r].items[i]) \subseteq Headwords(Longest(run[r].items))
  <2>1. \A t \in Terms : t \in Headwords(run[r].items[i])
                             => t \in Headwords(Longest(run[r].items))
    BY <1>2, <1>3, LongestKeeps
  <2>2. Headwords(run[r].items[i]) \subseteq Terms
    BY DEF Headwords
  <2>. QED  BY <2>1, <2>2
<1>5. Headwords(Longest(run[r].items)) \subseteq Headwords(card)
  BY <1>1 DEF RunFacts, Recording
<1>. QED  BY <1>1, <1>2, <1>4, <1>5 DEF RunFacts

\* The cards come first, then the source record, then the chunk records.
LEMMA RecordFacts ==
    ASSUME IInv, Next, NEW r \in Runs,
           \/ \E t \in Terms : StoreCard(r, t)
           \/ StoreSource(r)
           \/ StoreChunk(r)
    PROVE  /\ \E R \in RunState : run' = [run EXCEPT ![r] = R]
                                  /\ RunFacts(R, chunk', card', failed')
           /\ \A s \in Sources, i \in Positions : RowSound(chunk[s][i], card, failed)'
           /\ \A s \in Sources : SourceSound(source[s], card, failed)'
<1>1. PICK R \in RunState :
          /\ Shape(R) /\ run' = [run EXCEPT ![r] = R]
          /\ \/ Fresh(R) /\ R.pc = "next"
             \/ R.items = run[r].items /\ R.doc = run[r].doc /\ R.pc \in Recording
          /\ R.pc = "cards" => \E t \in Terms :
                 StoreCard(r, t) /\ R.left = run[r].left \ {t}
          /\ R.pc = "chunks" => StoreSource(r) \/ StoreChunk(r)
  BY RecordSteps DEF IInv
<1>2. /\ run[r] \in RunState /\ Shape(run[r]) /\ RunFacts(run[r], chunk, card, failed)
      /\ run[r].pc \in Recording
  BY DEF IInv, TypeInv, SyncInv, StoreCard, StoreSource, StoreChunk, Recording
<1>3. Headwords(card) \subseteq Headwords(card') /\ failed' = failed
  BY CardsStay DEF StoreCard, StoreSource, StoreChunk
<1>4. RunFacts(run[r], chunk, card', failed')
  BY <1>2, <1>3, Grown
<1>5. RunFacts(R, chunk', card', failed')
  <2>1. CASE Fresh(R)
    BY <2>1, FreshFacts
  <2>2. CASE R.items = run[r].items /\ R.doc = run[r].doc /\ R.pc = "cards"
    <3>1. PICK t \in Terms : StoreCard(r, t) /\ R.left = run[r].left \ {t}
      BY <1>1, <2>2
    <3>2. run[r].pc = "cards" /\ t \in run[r].left
          /\ card' = [card EXCEPT ![t] = Longest(run[r].items)[t]]
      BY <3>1 DEF StoreCard
    <3>3. t \in Headwords(Longest(run[r].items))
      BY <1>2, <3>2 DEF RunFacts
    <3>4. t \in Headwords(card')
      BY <3>2, <3>3 DEF IInv, TypeInv, Meanings, Headwords
    <3>. QED  BY <1>4, <2>2, <3>1, <3>2, <3>4 DEF RunFacts
  <2>3. CASE R.items = run[r].items /\ R.doc = run[r].doc /\ R.pc = "chunks"
    <3>1. \/ run[r].pc = "cards" /\ run[r].left = {}
          \/ run[r].pc = "chunks"
      BY <1>1, <2>3 DEF StoreSource, StoreChunk
    <3>. QED  BY <1>4, <2>3, <3>1 DEF RunFacts
  <2>. QED  BY <1>1, <2>1, <2>2, <2>3 DEF Recording
<1>6. /\ \A s \in Sources, i \in Positions : RowSound(chunk[s][i], card', failed')
      /\ \A s \in Sources : SourceSound(source[s], card', failed')
  BY <1>3, Grown DEF IInv, SyncInv
<1>7. ASSUME NEW s \in Sources PROVE SourceSound(source'[s], card', failed')
  <2>1. CASE source'[s] = source[s]
    BY <1>6, <2>1
  <2>2. CASE source'[s] # source[s]
    <3>1. StoreSource(r)
      BY <2>2 DEF StoreCard, StoreChunk, StoreSource
    <3>2. source' = [source EXCEPT ![run[r].source] = [doc |-> run[r].doc, rev |-> run[r].rev]]
          /\ run[r].left = {}
      BY <3>1 DEF StoreSource
    <3>3. source'[s].doc = run[r].doc
      BY <2>2, <3>2 DEF IInv, TypeInv
    <3>4. run[r].doc \in Documents
      BY <1>2 DEF Shape
    <3>5. ASSUME NEW i \in DOMAIN run[r].doc
          PROVE  TermsOf(run[r].doc[i]) \subseteq Headwords(card') \/ run[r].doc[i] \in failed'
      <4>1. /\ Headwords(run[r].items[i]) \subseteq Headwords(card)
            /\ Answered(Headwords(run[r].items[i]), run[r].doc[i], failed)
        BY <1>2, <3>2, <3>4, DocumentTypes, Recorded
      <4>. QED  BY <1>3, <4>1 DEF Answered
    <3>. QED  BY <3>3, <3>5 DEF SourceSound
  <2>. QED  BY <2>1, <2>2
<1>8. ASSUME NEW s \in Sources, NEW i \in Positions PROVE RowSound(chunk'[s][i], card', failed')
  <2>1. CASE chunk' = chunk
    BY <1>6, <2>1
  <2>2. CASE chunk' # chunk
    <3>. DEFINE n == run[r].unit
                row == [sha |-> CurrentUnit(r), ids |-> ChunkIds(r)]
    <3>1. run[r].pc = "chunks" /\ chunk' = [chunk EXCEPT ![run[r].source][n] = row]
      BY <2>2 DEF StoreCard, StoreChunk, StoreSource
    <3>2. /\ run[r].source \in Sources /\ n \in Positions /\ n \in 1..Len(run[r].doc)
          /\ CurrentUnit(r) \in Units /\ chunk \in [Sources -> [Positions -> Rows]]
      BY <1>2, UnitTypes DEF IInv, TypeInv
    <3>3. row \in Rows
      BY <3>2 DEF Rows, ChunkIds, Headwords
    <3>4. /\ Headwords(run[r].items[n]) \subseteq Headwords(card)
          /\ Answered(Headwords(run[r].items[n]), run[r].doc[n], failed)
      BY <1>2, <3>1, <3>2, Recorded
    <3>5. ChunkIds(r) = Headwords(run[r].items[n])
      BY <3>4 DEF ChunkIds, Headwords
    <3>6. row.sha = run[r].doc[n] /\ row.ids = Headwords(run[r].items[n])
      BY <3>5 DEF CurrentUnit
    <3>. HIDE DEF row, n
    <3>7. RowSound(row, card', failed')
      BY <1>3, <3>4, <3>6 DEF RowSound
    <3>8. chunk'[s][i] = chunk[s][i] \/ chunk'[s][i] = row
      BY <3>1, <3>2, <3>3, RowStored
    <3>. QED  BY <1>6, <3>7, <3>8
  <2>. QED  BY <2>1, <2>2
<1>. QED  BY <1>1, <1>5, <1>7, <1>8

\* What the records say follows what was found, initially.
LEMMA SyncInit == Init => SyncInv
<1>. SUFFICES ASSUME Init PROVE SyncInv
  OBVIOUS
<1>1. Fresh(IdleRun)
  BY IdleTypes DEF Fresh, IdleRun, AtRest
<1>2. \A r \in Runs : RunFacts(run[r], chunk, card, failed)
  BY <1>1, FreshFacts DEF Init
<1>3. \A k \in Uploads : UploadFacts(upload[k])
  BY DEF Init, IdleUpload, UploadFacts
<1>4. \A s \in Sources, i \in Positions : RowSound(chunk[s][i], card, failed)
  BY DEF Init, RowSound
<1>5. \A s \in Sources : SourceSound(source[s], card, failed)
  BY DEF Init, SourceSound
<1>. QED  BY <1>2, <1>3, <1>4, <1>5 DEF SyncInv

\* Every step of a lone run, and of any number of uploads, keeps it so.
LEMMA SyncStep == Serial /\ IInv /\ [Next]_vars => SyncInv'
<1>. SUFFICES ASSUME Serial, IInv, [Next]_vars PROVE SyncInv'
  OBVIOUS
<1>1. CASE UNCHANGED vars
  <2>1. UNCHANGED <<file, source, chunk, card, sheet, run, upload, failed, used>>
    BY <1>1 DEF vars, store
  <2>. QED  BY <2>1 DEF IInv, SyncInv
<1>2. CASE Next
  <2>1. Headwords(card) \subseteq Headwords(card') /\ failed \subseteq failed'
    BY <1>2, CardsStay
  <2>2. /\ \A s \in Sources, i \in Positions : RowSound(chunk[s][i], card', failed')
        /\ \A s \in Sources : SourceSound(source[s], card', failed')
        /\ \A r \in Runs : RunFacts(run[r], chunk, card', failed')
    BY <2>1, Grown DEF IInv, SyncInv
  <2>3. ASSUME NEW r \in Runs, NEW R \in RunState, run' = [run EXCEPT ![r] = R],
               RunFacts(R, chunk', card', failed')
        PROVE  \A q \in Runs : RunFacts(run[q], chunk, card, failed)'
    <3>1. ASSUME NEW q \in Runs PROVE RunFacts(run'[q], chunk', card', failed')
      <4>1. run'[q] = R
        BY <2>3 DEF Serial, IInv, TypeInv
      <4>. QED  BY <2>3, <4>1
    <3>. QED  BY <3>1
  <2>4. ASSUME \A q \in Runs : RunFacts(run[q], chunk, card, failed)', upload' = upload,
               source' = source, chunk' = chunk
        PROVE  SyncInv'
    BY <2>2, <2>4 DEF IInv, SyncInv
  <2>5. ASSUME NEW r \in Runs, FreshStep(r) PROVE SyncInv'
    <3>1. PICK R \in RunState : Fresh(R) /\ run' = [run EXCEPT ![r] = R]
      BY <2>5, FreshSteps DEF IInv
    <3>2. \A q \in Runs : RunFacts(run[q], chunk, card, failed)'
      BY <2>3, <3>1, FreshFacts
    <3>3. source' = source /\ chunk' = chunk /\ upload' = upload
      BY <2>5 DEF FreshStep, StartRun, CollectMetas, ReadLocal, CheckRevision, FetchMeta, FetchBytes,
                  EndRun, CrashRun, store
    <3>. QED  BY <2>4, <3>2, <3>3
  <2>6. ASSUME NEW r \in Runs, CheckUnit(r) PROVE SyncInv'
    <3>. DEFINE pc == IF ChunkNeedsLlm(StoredChunk(r), CurrentUnit(r)) THEN "llm" ELSE "cached"
                R == [run[r] EXCEPT !.pc = pc]
    <3>1. run' = [run EXCEPT ![r] = R] /\ run[r].pc = "check"
          /\ UNCHANGED <<source, chunk, card, upload, failed>>
      BY <2>6 DEF CheckUnit, IInv, TypeInv, store
    <3>2. /\ pc \in {"llm", "cached"}
          /\ pc = "cached" => /\ chunk[run[r].source][run[r].unit] # Absent
                              /\ chunk[run[r].source][run[r].unit].sha = run[r].doc[run[r].unit]
      BY DEF ChunkNeedsLlm, StoredChunk, CurrentUnit
    <3>. HIDE DEF pc
    <3>3. run[r] \in RunState /\ RunFacts(run[r], chunk, card, failed)
      BY DEF IInv, TypeInv, SyncInv
    <3>4. R \in RunState /\ R.pc = pc /\ R.source = run[r].source
          /\ R.doc = run[r].doc /\ R.unit = run[r].unit /\ R.items = run[r].items
      BY <3>2, <3>3 DEF RunState
    <3>. HIDE DEF R
    <3>5. RunFacts(R, chunk, card, failed)
      BY <3>2, <3>3, <3>4 DEF RunFacts
    <3>6. \A q \in Runs : RunFacts(run[q], chunk, card, failed)'
      BY <2>3, <3>1, <3>4, <3>5
    <3>. QED  BY <2>4, <3>1, <3>6
  <2>7. ASSUME NEW r \in Runs, Extract(r) \/ ExtractFails(r) \/ LoadCached(r) PROVE SyncInv'
    <3>1. \A q \in Runs : RunFacts(run[q], chunk, card, failed)'
      BY <1>2, <2>3, <2>7, ProcessFacts
    <3>2. source' = source /\ chunk' = chunk /\ upload' = upload
      BY <2>7 DEF Extract, ExtractFails, LoadCached, store
    <3>. QED  BY <2>4, <3>1, <3>2
  <2>8. ASSUME NEW r \in Runs,
               \/ \E t \in Terms : StoreCard(r, t)
               \/ StoreSource(r)
               \/ StoreChunk(r)
        PROVE  SyncInv'
    <3>1. /\ \A q \in Runs : RunFacts(run[q], chunk, card, failed)'
          /\ \A s \in Sources, i \in Positions : RowSound(chunk[s][i], card, failed)'
          /\ \A s \in Sources : SourceSound(source[s], card, failed)'
      BY <1>2, <2>3, <2>8, RecordFacts
    <3>2. upload' = upload
      BY <2>8 DEF StoreCard, StoreSource, StoreChunk
    <3>3. \A k \in Uploads : UploadFacts(upload[k])'
      BY <3>2 DEF IInv, SyncInv
    <3>. QED  BY <3>1, <3>3 DEF SyncInv
  <2>9. ASSUME run' = run, source' = source, chunk' = chunk,
               \A k \in Uploads : UploadFacts(upload[k])'
        PROVE  SyncInv'
    BY <2>2, <2>9 DEF SyncInv
  <2>10. ASSUME NEW k \in Uploads, NEW U \in UploadState, upload' = [upload EXCEPT ![k] = U],
                UploadFacts(U)
         PROVE  \A j \in Uploads : UploadFacts(upload[j])'
    <3>1. ASSUME NEW j \in Uploads PROVE UploadFacts(upload'[j])
      <4>1. upload'[j] = U \/ upload'[j] = upload[j]
        BY <2>10 DEF IInv, TypeInv
      <4>. QED  BY <2>10, <4>1 DEF IInv, SyncInv
    <3>. QED  BY <3>1
  <2>11. ASSUME NEW k \in Uploads, NEW t \in Terms, StoreUploadedCard(k, t) PROVE SyncInv'
    <3>. DEFINE U == [upload[k] EXCEPT !.left = upload[k].left \ {t}]
    <3>1. upload' = [upload EXCEPT ![k] = U]
      BY <2>11 DEF StoreUploadedCard, IInv, TypeInv
    <3>2. U \in UploadState /\ U.left = upload[k].left \ {t} /\ U.items = upload[k].items
      BY DEF IInv, TypeInv, UploadState
    <3>. HIDE DEF U
    <3>3. UploadFacts(U)
      BY <3>2 DEF IInv, SyncInv, UploadFacts
    <3>4. \A j \in Uploads : UploadFacts(upload[j])'
      BY <2>10, <3>1, <3>2, <3>3
    <3>. QED  BY <2>9, <2>11, <3>4 DEF StoreUploadedCard
  <2>12. ASSUME NEW k \in Uploads, EndUpload(k) PROVE SyncInv'
    <3>1. UploadFacts(IdleUpload)
      BY DEF UploadFacts, IdleUpload
    <3>2. \A j \in Uploads : UploadFacts(upload[j])'
      BY <2>10, <2>12, <3>1, IdleTypes DEF EndUpload
    <3>. QED  BY <2>9, <2>12, <3>2 DEF EndUpload, store
  <2>13. ASSUME NEW k \in Uploads, NEW u \in Units, BeginUpload(k, u) PROVE SyncInv'
    <3>. DEFINE U == [IdleUpload EXCEPT !.pc = "cards", !.items = Vocabulary[u],
                                        !.left = TermsOf(u)]
    <3>1. upload' = [upload EXCEPT ![k] = U]
      BY <2>13 DEF BeginUpload
    <3>2. Vocabulary[u] \in Meanings /\ TermsOf(u) \in SUBSET Terms
      BY VocabularyType DEF Meanings, TermsOf, Headwords
    <3>3. U \in UploadState /\ U.left = TermsOf(u) /\ U.items = Vocabulary[u]
      BY <3>2 DEF IdleUpload, UploadState
    <3>. HIDE DEF U
    <3>4. UploadFacts(U)
      BY <3>3 DEF UploadFacts, TermsOf
    <3>5. \A j \in Uploads : UploadFacts(upload[j])'
      BY <2>10, <3>1, <3>3, <3>4
    <3>. QED  BY <2>9, <2>13, <3>5 DEF BeginUpload, store
  <2>14. ASSUME NEW s \in Sources, NEW doc \in Documents, EditFile(s, doc) PROVE SyncInv'
    <3>1. UNCHANGED <<source, chunk, card, run, upload, failed>>
      BY <2>14 DEF EditFile, store
    <3>. QED  BY <3>1 DEF IInv, SyncInv
  <2>15. ASSUME NEW r \in Runs,
                \/ \E S \in {Sources} \cup SUBSET Drive : StartRun(r, S)
                \/ RunStep(r)
                \/ ExtractFails(r)
                \/ CrashRun(r)
         PROVE  SyncInv'
    <3>1. \/ FreshStep(r)
          \/ CheckUnit(r)
          \/ Extract(r) \/ ExtractFails(r) \/ LoadCached(r)
          \/ (\E t \in Terms : StoreCard(r, t)) \/ StoreSource(r) \/ StoreChunk(r)
      BY <2>15 DEF RunStep, FreshStep
    <3>. QED  BY <2>5, <2>6, <2>7, <2>8, <3>1
  <2>. QED  BY <1>2, <2>11, <2>12, <2>13, <2>14, <2>15 DEF Next, UploadStep
<1>. QED  BY <1>1, <1>2

\* While one run works at a time, the records follow what was found.
LEMMA SyncAlways == Serial => (Spec => []IInv)
<1>. SUFFICES ASSUME Serial PROVE Spec => []IInv
  OBVIOUS
<1>1. Init => IInv
  BY TypeInit, SyncInit DEF IInv
<1>2. IInv /\ [Next]_vars => IInv'
  BY TypeStep, SyncStep DEF IInv
<1>. QED  BY <1>1, <1>2, PTL DEF Spec

\* A document recorded as ingested has a card for every headword the LLM found
\* in its units, whatever died between the three writes and whoever edits or
\* uploads meanwhile.
THEOREM NoTermLostSerially == Serial => (Spec => []NoTermLost)
<1>1. IInv => NoTermLost
  <2>1. ASSUME IInv, NEW s \in Sources, source[s] # Absent, NEW i \in DOMAIN source[s].doc
        PROVE  \/ \A t \in TermsOf(source[s].doc[i]) : card[t] # 0
               \/ source[s].doc[i] \in failed
    BY <2>1 DEF IInv, SyncInv, SourceSound, Headwords
  <2>. QED  BY <2>1 DEF NoTermLost
<1>. QED  BY <1>1, SyncAlways, PTL

\* What the chunk table offers in place of an LLM call is what the LLM found in
\* a text of that hash, or nothing where the call failed.
THEOREM CacheSoundSerially == Serial => (Spec => []CacheSound)
<1>1. IInv => CacheSound
  <2>1. ASSUME IInv, NEW s \in Sources, NEW i \in Positions, chunk[s][i] # Absent
        PROVE  Answered(chunk[s][i].ids, chunk[s][i].sha, failed)
    BY <2>1 DEF IInv, SyncInv, RowSound
  <2>. QED  BY <2>1 DEF Answered, CacheSound
<1>. QED  BY <1>1, SyncAlways, PTL
=============================================================================
