-------------------------- MODULE ToolReads_proofs --------------------------
(***************************************************************************)
(* What the read-only tools answer, for every set of calls, configurations *)
(* the schemas let through, changes, logs, budgets and times of requests   *)
(* and tokens.                                                             *)
(***************************************************************************)
EXTENDS ToolReads, TLAPS, FiniteSetTheorems, SequenceTheorems, WellFoundedInduction

-----------------------------------------------------------------------------
(* Numbers and sequences *)

(* Every set of naturals has a least element.                              *)
LEMMA LeastNumber ==
    ASSUME NEW T, T \subseteq Nat, T # {}
    PROVE  \E n \in T : \A m \in T : n <= m
<1> DEFINE F == {0..n : n \in T}
<1>1. F \subseteq FiniteSubsetsOf(Nat)
  <2> SUFFICES ASSUME NEW n \in T PROVE 0..n \in FiniteSubsetsOf(Nat)
    OBVIOUS
  <2>1. IsFiniteSet(0..n)
    BY FS_Interval
  <2> QED
    BY <2>1 DEF FiniteSubsetsOf
<1>2. F # {}
  OBVIOUS
<1> HIDE DEF F
<1>3. \E x \in F : \A y \in F : <<y, x>> \notin StrictSubsetOrdering(Nat)
  BY <1>1, <1>2, FS_StrictSubsetOrderingWellFounded, WFMin
<1> USE DEF F
<1>4. PICK n \in T : \A y \in F : <<y, 0..n>> \notin StrictSubsetOrdering(Nat)
  BY <1>3
<1>5. ASSUME NEW m \in T, m < n
      PROVE  FALSE
  <2>1. 0..m \subseteq 0..n /\ n \in 0..n /\ n \notin 0..m
    BY <1>5
  <2>2. <<0..m, 0..n>> \in StrictSubsetOrdering(Nat)
    BY <2>1 DEF StrictSubsetOrdering
  <2> QED
    BY <1>4, <2>2
<1> QED
  BY <1>4, <1>5

(* A bounded set of naturals has a greatest one.                           *)
LEMMA GreatestNumber ==
    ASSUME NEW N \in Nat, NEW S, S \subseteq 0..N, S # {}
    PROVE  Max(S) \in S /\ \A x \in S : x <= Max(S)
<1> DEFINE T == {N - n : n \in S}
<1>1. T \subseteq Nat /\ T # {}
  <2>1. ASSUME NEW n \in S PROVE N - n \in Nat
    <3>1. n \in 0..N
      OBVIOUS
    <3> QED
      BY <3>1
  <2> QED
    BY <2>1
<1> HIDE DEF T
<1>2. PICK t \in T : \A m \in T : t <= m
  BY <1>1, LeastNumber
<1>3. PICK x \in S : t = N - x
  BY DEF T
<1>4. \A y \in S : x >= y
  <2> SUFFICES ASSUME NEW y \in S PROVE x >= y
    OBVIOUS
  <2>1. N - y \in T
    BY DEF T
  <2>2. N - x <= N - y
    BY <2>1, <1>2, <1>3
  <2> QED
    BY <2>2
<1> QED
  BY <1>4 DEF Max

(* The lesser of two numbers, as a set's least element.                    *)
LEMMA LesserOfTwo ==
    ASSUME NEW a \in Int, NEW b \in Int
    PROVE  Min({a, b}) = IF a <= b THEN a ELSE b
<1>1. \E x \in {a, b} : \A y \in {a, b} : x <= y
  OBVIOUS
<1>2. Min({a, b}) \in {a, b} /\ \A y \in {a, b} : Min({a, b}) <= y
  BY <1>1 DEF Min
<1> QED
  BY <1>2

(* The greater of two numbers, as a set's greatest element.                *)
LEMMA GreaterOfTwo ==
    ASSUME NEW a \in Int, NEW b \in Int
    PROVE  Max({a, b}) = IF a >= b THEN a ELSE b
<1>1. \E x \in {a, b} : \A y \in {a, b} : x >= y
  OBVIOUS
<1>2. Max({a, b}) \in {a, b} /\ \A y \in {a, b} : Max({a, b}) >= y
  BY <1>1 DEF Max
<1> QED
  BY <1>2

(* A prefix is as long as it is asked to be, if the sequence is.           *)
LEMMA PrefixIs ==
    ASSUME NEW S, NEW s \in Seq(S), NEW n \in Nat
    PROVE  /\ Prefix(s, n) \in Seq(S)
           /\ Len(Prefix(s, n)) = IF n <= Len(s) THEN n ELSE Len(s)
<1>1. Len(s) \in Nat
  OBVIOUS
<1>2. Min({n, Len(s)}) = IF n <= Len(s) THEN n ELSE Len(s)
  BY <1>1, LesserOfTwo
<1>3. Prefix(s, n) = SubSeq(s, 1, IF n <= Len(s) THEN n ELSE Len(s))
  BY <1>2 DEF Prefix
<1> QED
  BY <1>1, <1>3

(* Nothing is the prefix of length zero.                                   *)
LEMMA EmptyPrefix ==
    ASSUME NEW S, NEW s \in Seq(S)
    PROVE  Prefix(s, 0) = <<>>
<1> SUFFICES ASSUME NEW n \in Nat, n = 0 PROVE Prefix(s, n) = <<>>
  OBVIOUS
<1>1. Len(s) \in Nat
  OBVIOUS
<1>2. /\ Prefix(s, n) \in Seq(S)
      /\ Len(Prefix(s, n)) = IF n <= Len(s) THEN n ELSE Len(s)
  BY PrefixIs
<1>3. Len(Prefix(s, n)) = 0
  BY <1>1, <1>2
<1> QED
  BY <1>2, <1>3, EmptySeq

-----------------------------------------------------------------------------
(* Budgets *)

(* The budgets DEFAULT_SCM_BUDGET and the limits of a caller make.         *)
Budget == [maxFiles: Nat, maxHunks: Nat, maxLines: Nat, maxBytes: Nat,
           maxRequests: Nat, maxDuration: Nat]

(* The size that WithinBudget allows the files of an answer.               *)
FilesFit(files, limits) ==
    /\ Len(files) <= limits.maxFiles
    /\ SizeOf(files) <= limits.maxBytes
    /\ Headers(PatchesOf(files)) <= limits.maxHunks
    /\ BodyLines(PatchesOf(files)) <= limits.maxLines

(* What a caller gives is taken for a limit, the default for the rest      *)
(* (scm/schemas.ts 47-80).                                                 *)
LEMMA BudgetType ==
    ASSUME NEW given, \A limit \in DOMAIN given : given[limit] \in Nat
    PROVE  resolveSCMBudget(given) \in Budget
<1>1. DefaultBudget \in Budget
  BY ReadsAssumption DEF Budget
<1>2. DOMAIN DefaultBudget = {"maxFiles", "maxHunks", "maxLines", "maxBytes",
                              "maxRequests", "maxDuration"}
  BY <1>1 DEF Budget
<1>3. \A limit \in DOMAIN DefaultBudget : DefaultBudget[limit] \in Nat
  BY <1>1, <1>2 DEF Budget
<1>4. "maxItems" \in DOMAIN given => given.maxItems \in Nat
  OBVIOUS
<1>5. resolveSCMBudget(given) \in [DOMAIN DefaultBudget -> Nat]
  BY <1>3, <1>4 DEF resolveSCMBudget
<1> QED
  BY <1>2, <1>5 DEF Budget

(* An answer without files is within every budget.                         *)
LEMMA NoFilesFit ==
    ASSUME NEW limits \in Budget
    PROVE  FilesFit(<<>>, limits)
<1>1. PatchesOf(<<>>) = <<>>
  <2>1. [i \in DOMAIN <<>> |-> <<>>[i].patch] = <<>>
    OBVIOUS
  <2> QED
    BY <2>1 DEF PatchesOf, FlattenSeq
<1>2. Headers(<<>>) = 0
  <2>1. {i \in DOMAIN <<>> : <<>>[i] = "@"} = {}
    OBVIOUS
  <2> QED
    BY <2>1, FS_EmptySet DEF Headers
<1> QED
  BY <1>1, <1>2, ReadsAssumption, SMTT(30) DEF FilesFit, SizeOf, BodyLines, Budget

(* boundSCMItems keeps what fits: the longest prefix there is, of which    *)
(* the empty one fits whatever the budget (scm/context.ts).                *)
LEMMA BoundedFilesFit ==
    ASSUME NEW limits \in Budget, NEW S, NEW files \in Seq(S)
    PROVE  /\ FilesFit(boundSCMItems(files, limits), limits)
           /\ boundSCMItems(files, limits) \in Seq(S)
<1> DEFINE N == {n \in 0..Len(files) : FilesFit(Prefix(files, n), limits)}
<1>1. 0 \in N
  BY EmptyPrefix, NoFilesFit
<1>2. N \subseteq 0..Len(files) /\ N # {} /\ Len(files) \in Nat
  BY <1>1
<1>3. boundSCMItems(files, limits) = Prefix(files, Max(N))
  BY DEF boundSCMItems, Longest, FilesFit
<1> HIDE DEF N
<1>4. Max(N) \in N
  BY <1>2, GreatestNumber
<1>5. FilesFit(Prefix(files, Max(N)), limits)
  BY <1>4 DEF N
<1>6. Max(N) \in Nat
  <2>1. Max(N) \in 0..Len(files)
    BY <1>4 DEF N
  <2> QED
    BY <1>2, <2>1
<1>7. Prefix(files, Max(N)) \in Seq(S)
  BY <1>6, PrefixIs
<1> QED
  BY <1>3, <1>5, <1>7

-----------------------------------------------------------------------------
(* Answers *)

(* Of the files an adapter hands on, those the answer has are within the   *)
(* budget, and what is missing of them, or is missing of what the provider *)
(* sent, is marked (finalizeSCMEvidence).                                  *)
LEMMA FinalizedIsSound ==
    ASSUME NEW limits \in Budget, NEW T, NEW files \in Seq(T),
           NEW providerTruncated \in BOOLEAN,
           NEW e, e = finalizeSCMEvidence(files, providerTruncated, limits)
    PROVE  /\ FilesFit(e.files, limits)
           /\ Len(e.files) \in Nat
           /\ Len(e.files) < Len(files) \/ providerTruncated => e.truncated
<1> DEFINE n == Len(files)
           normalized == [i \in DOMAIN files |-> normalizeFile(files[i], limits)]
           S == {normalizeFile(files[i], limits) : i \in DOMAIN files}
           kept == boundSCMItems(normalized, limits)
<1>1. normalized \in Seq(S) /\ Len(normalized) = n
  <2>1. n \in Nat /\ DOMAIN files = 1..n
    OBVIOUS
  <2>2. normalized \in [1..n -> S]
    BY <2>1
  <2> QED
    BY <2>1, <2>2
<1>2. e.files = kept
  BY DEF finalizeSCMEvidence
<1>3. FilesFit(kept, limits)
  <2> HIDE DEF normalized, S
  <2> QED
    BY <1>1, BoundedFilesFit
<1>4. Len(kept) \in Nat
  <2> HIDE DEF normalized, S
  <2>1. kept \in Seq(S)
    BY <1>1, BoundedFilesFit
  <2> QED
    BY <2>1
<1>5. ASSUME Len(kept) < n \/ providerTruncated
      PROVE  e.truncated
  <2>1. e.truncated = (\/ providerTruncated
                      \/ Len(kept) < Len(files)
                      \/ Headers(PatchesOf(kept)) >= limits.maxHunks
                      \/ BodyLines(PatchesOf(kept)) >= limits.maxLines
                      \/ \E i \in DOMAIN files : Cut(normalized[i]))
    BY DEF finalizeSCMEvidence
  <2> QED
    BY <1>5, <2>1
<1> HIDE DEF kept
<1> QED
  BY <1>2, <1>3, <1>4, <1>5

(* The lines of a log that an answer does without are marked               *)
(* (getLogEvidence).                                                       *)
LEMMA LogCutIsMarked ==
    ASSUME NEW kd, NEW log \in Seq(Nat), NEW maxLines \in Nat,
           NEW e, e = SelectLog(kd, log, maxLines)
    PROVE  ~Whole(e.lines, log) => e.truncated
<1>1. Len(log) \in Nat /\ BigLog \in Nat
  BY ReadsAssumption
<1>2. CASE kd # "jenkins"
  <2>1. e.lines = FirstLines(log, maxLines)
    BY <1>2 DEF SelectLog
  <2>7. Len(log) > maxLines => e.truncated
    BY <1>2 DEF SelectLog
  <2>2. Min({maxLines, Len(log)}) = IF maxLines <= Len(log) THEN maxLines ELSE Len(log)
    BY <1>1, LesserOfTwo
  <2> DEFINE m == Min({maxLines, Len(log)})
  <2>5. Len(log) <= maxLines => m = Len(log)
    BY <1>1, <2>2
  <2>6. FirstLines(log, maxLines) = SubSeq(log, 1, m)
    BY DEF FirstLines
  <2> HIDE DEF m
  <2>3. Len(log) <= maxLines => FirstLines(log, maxLines) = SubSeq(log, 1, Len(log))
    BY <2>5, <2>6
  <2>4. Len(SubSeq(log, 1, Len(log))) = Len(log)
    BY <1>1
  <2> QED
    BY <1>1, <2>1, <2>3, <2>4, <2>7 DEF Whole
<1>3. CASE kd = "jenkins"
  <2>1. e.lines = LastLines(JenkinsLines(log), maxLines)
    BY <1>3 DEF SelectLog
  <2>2. CASE Len(log) > BigLog
    BY <1>3, <2>2 DEF SelectLog
  <2>3. CASE ~(Len(log) > BigLog)
    <3>1. JenkinsLines(log) = log
      BY <2>3 DEF JenkinsLines
    <3>2. Max({1, Len(log) - maxLines + 1}) =
            IF 1 >= Len(log) - maxLines + 1 THEN 1 ELSE Len(log) - maxLines + 1
      BY <1>1, GreaterOfTwo
    <3> DEFINE m == Max({1, Len(log) - maxLines + 1})
    <3>5. Len(log) <= maxLines => m = 1
      BY <1>1, <3>2
    <3>6. LastLines(log, maxLines) = SubSeq(log, m, Len(log))
      BY DEF LastLines
    <3> HIDE DEF m
    <3>3. Len(log) <= maxLines => LastLines(log, maxLines) = SubSeq(log, 1, Len(log))
      BY <3>5, <3>6
    <3>4. Len(SubSeq(log, 1, Len(log))) = Len(log)
      BY <1>1
    <3>7. Len(log) > maxLines => e.truncated
      BY <1>3, <3>1 DEF SelectLog
    <3> QED
      BY <1>1, <2>1, <3>1, <3>3, <3>4, <3>7 DEF Whole
  <2> QED
    BY <2>2, <2>3
<1> QED
  BY <1>2, <1>3

(* Of the files an adapter takes of a provider's page, at most its limit   *)
(* of them, those an answer does without are marked.                       *)
LEMMA PageCutIsMarked ==
    ASSUME NEW kd, NEW limits \in Budget, NEW page \in Seq(File),
           NEW T, NEW files \in [1..Min({limits.maxFiles, Len(page)}) -> T],
           NEW e, e = finalizeSCMEvidence(files, ProviderTruncated(kd, page, limits.maxFiles), limits)
    PROVE  /\ FilesFit(e.files, limits)
           /\ Len(e.files) < Len(page) => e.truncated
<1>1. Len(page) \in Nat /\ limits.maxFiles \in Nat
  BY DEF Budget
<1> DEFINE n == Min({limits.maxFiles, Len(page)})
<1>2. n = IF limits.maxFiles <= Len(page) THEN limits.maxFiles ELSE Len(page)
  BY <1>1, LesserOfTwo
<1>3. n \in Nat
  BY <1>1, <1>2
<1>4. files \in Seq(T) /\ Len(files) = n
  <2> HIDE DEF n
  <2>1. files \in [1..n -> T]
    BY DEF n
  <2> QED
    BY <1>3, <2>1
<1> DEFINE cut == ProviderTruncated(kd, page, limits.maxFiles)
<1>5. cut \in BOOLEAN /\ (Len(page) > limits.maxFiles => cut)
  BY DEF ProviderTruncated
<1> HIDE DEF n, cut
<1>6. e = finalizeSCMEvidence(files, cut, limits)
  BY DEF cut
<1>7. /\ FilesFit(e.files, limits)
      /\ Len(e.files) < n \/ cut => e.truncated
  BY <1>4, <1>5, <1>6, FinalizedIsSound
<1>8. ASSUME Len(e.files) < Len(page)
      PROVE  Len(e.files) < n \/ cut
  BY <1>1, <1>2, <1>5, <1>8
<1> QED
  BY <1>7, <1>8

(* The evidence of a change is that of the revisions its adapter was       *)
(* answered for: it is within the budget and says what it leaves out.      *)
LEMMA ChangeIsSound ==
    ASSUME NEW k, NEW r, r = ChangeResult(k), kind \in Kind, budget(k) \in Budget,
           k.parts \in Seq(Revision),
           Len(k.parts) = Len(SCMRequests(kind, k.ask.by))
    PROVE  /\ r.head = k.parts[1]
           /\ \A rev \in r.of : \E i \in DOMAIN k.parts : rev = k.parts[i]
           /\ r.of # {}
           /\ FilesFit(r.evidence.files, budget(k))
           /\ Len(r.evidence.files) < r.came => r.evidence.truncated
<1> DEFINE n == Len(k.parts)
           limits == budget(k)
           i == IF kind = "bitbucket" THEN n - 1 ELSE n
           page == Page(kind, k.ask.by, Change[k.parts[i]], limits)
           m == Min({limits.maxFiles, Len(page)})
           cut == ProviderTruncated(kind, page, limits.maxFiles)
           fin(raw) == finalizeSCMEvidence(raw, cut, limits)
           diff == Change[k.parts[n]]
<1>1. {i, n} \subseteq DOMAIN k.parts
  <2> SUFFICES n \in 1..3 /\ i \in 1..n
    OBVIOUS
  <2>1. CASE kind = "github"
    BY <2>1 DEF SCMRequests, githubSCMRequests
  <2>2. CASE kind = "bitbucket"
    BY <2>2 DEF SCMRequests, bitbucketSCMRequests
  <2>3. CASE kind = "jenkins"
    BY <2>3 DEF SCMRequests
  <2> QED
    BY <2>1, <2>2, <2>3 DEF Kind
<1>2. k.parts[i] \in Revision /\ k.parts[n] \in Revision
  <2>1. \A j \in DOMAIN k.parts : k.parts[j] \in Revision
    OBVIOUS
  <2> HIDE DEF i, n
  <2> QED
    BY <1>1, <2>1
<1>3. Change[k.parts[i]] \in Seq(File)
  <2>1. Change \in Seq(Seq(File))
    BY ReadsAssumption
  <2>2. \A rev \in Revision : Change[rev] \in Seq(File)
    BY <2>1 DEF Revision
  <2> HIDE DEF i
  <2> QED
    BY <1>2, <2>2
<1>4. page \in Seq(File)
  <2>1. limits.maxFiles \in Nat
    BY SMTT(30) DEF Budget
  <2> QED
    BY <1>3, <2>1, PrefixIs DEF Page
<1>5. r = [head |-> k.parts[1], of |-> {k.parts[i], k.parts[n]}, came |-> Len(page),
           evidence |-> fin(CASE kind = "bitbucket" ->
                                   bitbucketFiles(page, diff, limits.maxFiles)
                              [] kind = "jenkins" -> jenkinsFiles(page, limits.maxFiles)
                              [] OTHER -> githubFiles(page, limits.maxFiles))]
  BY <1>1 DEF ChangeResult
<1>6. \E raw, T : raw \in [1..m -> T] /\ r.evidence = fin(raw)
  <2> HIDE DEF m, limits, page, cut
  <2>1. CASE kind = "bitbucket"
    <3> DEFINE raw == bitbucketFiles(page, diff, limits.maxFiles)
               same(j) == {d \in DOMAIN diff : diff[d].path = page[j].path}
               F(j) == IF same(j) = {}
                       THEN [page[j] EXCEPT !.kind = "omitted", !.patch = <<>>]
                       ELSE diff[CHOOSE d \in same(j) : TRUE]
    <3>1. r.evidence = fin(raw)
      BY <1>5, <2>1
    <3>2. raw = [j \in 1..m |-> F(j)]
      BY DEF bitbucketFiles, m
    <3> HIDE DEF raw, F
    <3>3. raw \in [1..m -> {F(j) : j \in 1..m}]
      BY <3>2
    <3> QED
      BY <3>1, <3>3
  <2>2. CASE kind = "jenkins"
    <3> DEFINE raw == jenkinsFiles(page, limits.maxFiles)
               T == {raw[j] : j \in 1..m}
    <3>1. r.evidence = fin(raw)
      BY <1>5, <2>2
    <3>2. raw = [j \in 1..m |-> raw[j]]
      BY DEF jenkinsFiles, m
    <3> HIDE DEF raw
    <3>3. raw \in [1..m -> T]
      BY <3>2
    <3> QED
      BY <3>1, <3>3
  <2>3. CASE kind = "github"
    <3> DEFINE raw == githubFiles(page, limits.maxFiles)
               T == {raw[j] : j \in 1..m}
    <3>1. r.evidence = fin(raw)
      BY <1>5, <2>3
    <3>2. raw = [j \in 1..m |-> raw[j]]
      BY DEF githubFiles, m
    <3> HIDE DEF raw
    <3>3. raw \in [1..m -> T]
      BY <3>2
    <3> QED
      BY <3>1, <3>3
  <2> QED
    BY <2>1, <2>2, <2>3 DEF Kind
<1>7. PICK raw, T : raw \in [1..m -> T] /\ r.evidence = fin(raw)
  BY <1>6
<1> HIDE DEF page
<1>8. /\ FilesFit(r.evidence.files, limits)
      /\ Len(r.evidence.files) < Len(page) => r.evidence.truncated
  BY <1>4, <1>7, PageCutIsMarked
<1>9. /\ r.head = k.parts[1] /\ r.of = {k.parts[i], k.parts[n]} /\ r.came = Len(page)
  BY <1>5
<1> QED
  BY <1>1, <1>8, <1>9

-----------------------------------------------------------------------------
(* The invariant of a call k with its audit records t *)

Fields == {"pc", "ask", "parts", "began", "since", "expiry", "sent", "code", "result"}

IsCall(k) == DOMAIN k = Fields /\ k = [f \in Fields |-> k[f]]

Outcomes == {"success", "provider_failure", "policy_denied"}

(* Before a server is loaded nothing is asked, and what is asked then is   *)
(* one of the questions of its kind.                                       *)
Shaped(c, k) ==
    /\ IsCall(k)
    /\ k.pc \in {"new", "fetching", "waiting", "ready", "failed", "denied", "done"}
    /\ k.pc = "new" => k = NewCall
    /\ svc = Null => k.pc = "new"
    /\ k.pc # "new" => k.ask \in Asks[kind][c]
    /\ k.sent \in Nat /\ k.began \in Nat

(* The signal of a request ends it, and the token it carries lives longer  *)
(* than the signal lets it.                                                *)
Timed(k) ==
    /\ k.pc \in {"fetching", "waiting"} =>
          k.since \in Nat /\ k.since <= clock /\ clock <= k.since + Timeout
    /\ k.pc = "waiting" /\ k.expiry # Null =>
          k.expiry \in Int /\ k.expiry > k.since + Timeout

Budgeted(k) ==
    IsSCM(k) =>
        /\ k.sent <= budget(k).maxRequests
        /\ k.pc = "waiting" => clock - k.began <= budget(k).maxDuration

(* A record is written as a call is answered, and never before.            *)
Recorded(k, t) ==
    /\ k.pc # "done" => t = {} /\ k.code \notin {"content", "ci_policy_denied"}
    /\ k.pc = "done" => k.code \in Codes
    /\ t \subseteq Outcomes
    /\ k.pc = "denied" \/ "policy_denied" \in t => k.sent = 0
    /\ svc # Null /\ svc.audited =>
          /\ k.code = "content" => "success" \in t
          /\ k.code = "ci_policy_denied" => "policy_denied" \in t

(* The revisions a read of source control was answered for so far: where   *)
(* it asks for a branch or a commit, all are that of the head.             *)
Pinned(k) ==
    IsSCM(k) =>
        /\ k.parts \in Seq(Revision)
        /\ k.pc \in {"fetching", "waiting"} => Len(k.parts) < Len(Requests(k))
        /\ k.pc = "ready" => Len(k.parts) = Len(Requests(k))
        /\ k.ask.by \in {"ref", "commit"} => \A i \in DOMAIN k.parts : k.parts[i] = k.parts[1]

(* A log is the last that a read of it is answered with.                   *)
Logged(k) ==
    k.ask.tool = "log_evidence" =>
        /\ k.pc \in {"fetching", "waiting"} =>
              k.parts = <<>> \/ (kind = "github" /\ k.parts = <<"redirect">>)
        /\ k.pc = "ready" => Len(k.parts) \in {1, 2} /\ k.parts[Len(k.parts)] \in Logs

(* What WithinBudget, ChangeIsOfItsHead and CutIsMarked ask of an answer.  *)
Sound(k) ==
    k.pc = "done" /\ k.code = "content" =>
        /\ IsSCM(k) =>
              /\ k.ask.by \in {"ref", "commit"} => k.result.of = {k.result.head}
              /\ FilesFit(k.result.evidence.files, budget(k))
              /\ Len(k.result.evidence.files) < k.result.came => k.result.evidence.truncated
        /\ k.ask.tool = "log_evidence" =>
              (~Whole(k.result.evidence.lines, k.result.log) => k.result.evidence.truncated)

CallInv(c, k, t) ==
    /\ Shaped(c, k)
    /\ Timed(k)
    /\ Budgeted(k)
    /\ Recorded(k, t)
    /\ Pinned(k)
    /\ Logged(k)
    /\ Sound(k)

CallsInv ==
    /\ call = [c \in Caller |-> call[c]]
    /\ trail = [c \in Caller |-> trail[c]]
    /\ \A c \in Caller : CallInv(c, call[c], trail[c])

ServiceInv ==
    /\ config \in Deployments \cup {Null}
    /\ svc # Null =>
          /\ config = Null
          /\ kind \in Kind
          /\ "attempt" \in DOMAIN run /\ run.attempt \in DOMAIN JobsOf
    /\ svc = Null => run = Null
    /\ clock \in 0..MaxClock
    /\ head \in Revision
    /\ cache \in [Adapters -> (1..MaxClock + Lifetime) \cup {Null}]

ReadsInv == ServiceInv /\ CallsInv

-----------------------------------------------------------------------------
(* What a call does between two awaits *)

(* What Failed, Send and Proceed leave of a call.                          *)
Kept(k, r) ==
    /\ IsCall(r)
    /\ r.ask = k.ask /\ r.parts = k.parts /\ r.began = k.began /\ r.result = k.result

(* A call that fails has sent what it has sent.                            *)
LEMMA FailedIs ==
    ASSUME NEW k, IsCall(k), NEW error, NEW r, r = Failed(k, error)
    PROVE  Kept(k, r) /\ r.pc = "failed" /\ r.code = error /\ r.sent = k.sent
BY DEF Failed, IsCall, Kept, Fields

(* A request leaves within the budget, or the call fails.                  *)
LEMMA SendIs ==
    ASSUME NEW k, IsCall(k), NEW expiry, NEW r, r = Send(k, expiry)
    PROVE  /\ Kept(k, r)
           /\ \/ /\ MayBegin(k)
                 /\ r.pc = "waiting" /\ r.since = clock /\ r.expiry = expiry
                 /\ r.sent = k.sent + 1 /\ r.code = k.code
              \/ r.pc = "failed" /\ r.code = "unavailable" /\ r.sent = k.sent
<1>1. CASE MayBegin(k)
  BY <1>1 DEF Send, IsCall, Fields, Kept
<1>2. CASE ~MayBegin(k)
  BY <1>2, FailedIs DEF Send
<1> QED
  BY <1>1, <1>2

(* A call with all its answers is ready; any other goes on, with a token   *)
(* that is fresh if it carries the cached one.                             *)
LEMMA ProceedIs ==
    ASSUME NEW k, IsCall(k), NEW r, r = Proceed(k)
    PROVE  /\ Kept(k, r)
           /\ \/ /\ r.pc = "ready" /\ r.sent = k.sent /\ r.code = k.code
                 /\ Len(k.parts) = Len(Requests(k))
              \/ /\ r.pc = "waiting" /\ r.sent = k.sent + 1 /\ r.code = k.code
                 /\ r.since = clock
                 /\ MayBegin(k) /\ Len(k.parts) # Len(Requests(k))
                 /\ \/ r.expiry = Null
                    \/ r.expiry = cache[Adapter(k)] /\ Fresh(cache[Adapter(k)])
              \/ /\ r.pc = "fetching" /\ r.sent = k.sent /\ r.code = k.code
                 /\ r.since = clock
                 /\ Len(k.parts) # Len(Requests(k))
              \/ r.pc = "failed" /\ r.code = "unavailable" /\ r.sent = k.sent
<1>1. CASE Len(k.parts) = Len(Requests(k))
  <2>1. r = [k EXCEPT !.pc = "ready", !.expiry = Null]
    BY <1>1 DEF Proceed
  <2> QED
    BY <1>1, <2>1 DEF IsCall, Fields, Kept
<1>2. CASE Len(k.parts) # Len(Requests(k)) /\ r = Send(k, Null)
  BY <1>2, SendIs
<1>3. CASE /\ Len(k.parts) # Len(Requests(k))
           /\ r = Send(k, cache[Adapter(k)]) /\ Fresh(cache[Adapter(k)])
  BY <1>3, SendIs
<1>4. CASE /\ Len(k.parts) # Len(Requests(k))
           /\ r = [k EXCEPT !.pc = "fetching", !.since = clock, !.expiry = Null]
  BY <1>4 DEF IsCall, Fields, Kept
<1> QED
  BY <1>1, <1>2, <1>3, <1>4 DEF Proceed

-----------------------------------------------------------------------------
(* Steps of one call *)

(* The limits of a question to source control are a budget.                *)
LEMMA AskedBudget ==
    ASSUME NEW c \in Caller, NEW k, Shaped(c, k), k.pc # "new", svc = Null \/ kind \in Kind,
           IsSCM(k)
    PROVE  budget(k) \in Budget
<1>1. k.ask \in Asks[kind][c] /\ kind \in Kind
  BY DEF Shaped
<1>2. \A limit \in DOMAIN k.ask.given : k.ask.given[limit] \in Nat
  BY <1>1, ReadsAssumption DEF IsSCM
<1> QED
  BY <1>2, BudgetType DEF budget

(* A step of one call leaves the others as they are.                       *)
LEMMA OneCallMoves ==
    ASSUME CallsInv, NEW c \in Caller, NEW r, NEW t, CallInv(c, r, t),
           call' = [call EXCEPT ![c] = r], trail' = [trail EXCEPT ![c] = t],
           UNCHANGED <<svc, clock>>
    PROVE  CallsInv'
<1>1. /\ call' = [d \in Caller |-> IF d = c THEN r ELSE call[d]]
      /\ trail' = [d \in Caller |-> IF d = c THEN t ELSE trail[d]]
  BY DEF CallsInv
<1>2. ASSUME NEW d \in Caller
      PROVE  CallInv(d, call'[d], trail'[d])
  BY <1>1 DEF CallsInv
<1>3. ASSUME NEW d \in Caller
      PROVE  CallInv(d, call[d], trail[d])'
  <2> DEFINE k == call'[d]
             u == trail'[d]
  <2>1. Shaped(d, k) => Shaped(d, call[d])'
    BY DEF Shaped, kind
  <2>2. Timed(k) => Timed(call[d])'
    BY DEF Timed
  <2>3. Budgeted(k) => Budgeted(call[d])'
    BY DEF Budgeted, IsSCM, budget
  <2>4. Recorded(k, u) => Recorded(call[d], trail[d])'
    BY DEF Recorded
  <2>5. Pinned(k) => Pinned(call[d])'
    BY DEF Pinned, IsSCM, Requests, kind
  <2>6. Logged(k) => Logged(call[d])'
    BY DEF Logged, kind
  <2>7. Sound(k) => Sound(call[d])'
    BY DEF Sound, IsSCM, budget
  <2> QED
    BY <1>2, <2>1, <2>2, <2>3, <2>4, <2>5, <2>6, <2>7 DEF CallInv
<1> QED
  BY <1>1, <1>3 DEF CallsInv

(* A call between two awaits, whatever its pc: what it has sent and what   *)
(* it was answered so far.                                                 *)
Underway(c, k) ==
    /\ IsCall(k)
    /\ k.ask \in Asks[kind][c]
    /\ k.sent \in Nat /\ k.began \in Nat
    /\ k.code \notin {"content", "ci_policy_denied"}
    /\ IsSCM(k) =>
          /\ k.sent <= budget(k).maxRequests
          /\ k.parts \in Seq(Revision)
          /\ Len(k.parts) <= Len(Requests(k))
          /\ k.ask.by \in {"ref", "commit"} => \A i \in DOMAIN k.parts : k.parts[i] = k.parts[1]
    /\ k.ask.tool = "log_evidence" =>
          IF Len(k.parts) = Len(Requests(k))
          THEN Len(k.parts) \in {1, 2} /\ k.parts[Len(k.parts)] \in Logs
          ELSE k.parts = <<>> \/ (kind = "github" /\ k.parts = <<"redirect">>)

(* The requests of a call, and its budget, are those of its question.      *)
LEMMA SameQuestion ==
    ASSUME NEW k, NEW r, r.ask = k.ask
    PROVE  /\ IsSCM(r) = IsSCM(k)
           /\ budget(r) = budget(k)
           /\ Requests(r) = Requests(k)
BY DEF IsSCM, budget, Requests

(* An answer to source control takes one request to three.                 *)
LEMMA SomeRequests ==
    ASSUME NEW k, IsSCM(k)
    PROVE  Requests(k) = SCMRequests(kind, k.ask.by) /\ Len(Requests(k)) \in 1..3
<1>1. Requests(k) = SCMRequests(kind, k.ask.by)
  BY DEF Requests, IsSCM
<1>2. Len(SCMRequests(kind, k.ask.by)) \in 1..3
  <2>1. CASE kind = "github"
    BY <2>1 DEF SCMRequests, githubSCMRequests
  <2>2. CASE kind = "bitbucket"
    BY <2>2 DEF SCMRequests, bitbucketSCMRequests
  <2>3. CASE kind \notin {"github", "bitbucket"}
    BY <2>3 DEF SCMRequests
  <2> QED
    BY <2>1, <2>2, <2>3
<1> QED
  BY <1>1, <1>2

(* A log takes one request, on GitHub two.                                 *)
LEMMA LogRequests ==
    ASSUME NEW k, k.ask.tool = "log_evidence"
    PROVE  /\ kind = "github" => Requests(k) = <<"log", "archive">>
           /\ kind # "github" => Requests(k) = <<"log">>
BY DEF Requests, IsSCM, CIRequests, githubCIRequests, oneRequest

(* A call that waits is under way.                                         *)
LEMMA WaitingIsUnderway ==
    ASSUME NEW c \in Caller, NEW k, NEW t, CallInv(c, k, t),
           k.pc \in {"fetching", "waiting"}
    PROVE  /\ Underway(c, k)
           /\ IsSCM(k) \/ k.ask.tool = "log_evidence" => Len(k.parts) # Len(Requests(k))
           /\ t = {}
           /\ svc # Null
<1>1. /\ IsCall(k) /\ k.ask \in Asks[kind][c] /\ k.sent \in Nat /\ k.began \in Nat
      /\ svc # Null
  BY DEF CallInv, Shaped
<1>2. t = {} /\ k.code \notin {"content", "ci_policy_denied"}
  BY DEF CallInv, Recorded
<1>3. IsSCM(k) =>
          /\ k.sent <= budget(k).maxRequests
          /\ k.parts \in Seq(Revision)
          /\ Len(k.parts) < Len(Requests(k))
          /\ k.ask.by \in {"ref", "commit"} => \A i \in DOMAIN k.parts : k.parts[i] = k.parts[1]
  BY DEF CallInv, Budgeted, Pinned
<1>4. IsSCM(k) => Len(k.parts) \in Nat /\ Len(Requests(k)) \in Nat
  BY <1>3, SomeRequests
<1>5. ASSUME k.ask.tool = "log_evidence"
      PROVE  /\ k.parts = <<>> \/ (kind = "github" /\ k.parts = <<"redirect">>)
             /\ Len(k.parts) # Len(Requests(k))
  <2>1. k.parts = <<>> \/ (kind = "github" /\ k.parts = <<"redirect">>)
    BY <1>5 DEF CallInv, Logged
  <2>2. Len(k.parts) # Len(Requests(k))
    <3>1. CASE kind = "github"
      <4>1. Len(Requests(k)) = 2
        BY <1>5, <3>1, LogRequests
      <4>2. CASE k.parts = <<>>
        BY <4>1, <4>2
      <4>3. CASE k.parts = <<"redirect">>
        BY <4>1, <4>3
      <4> QED
        BY <2>1, <4>2, <4>3
    <3>2. CASE kind # "github"
      <4>1. Len(Requests(k)) = 1 /\ k.parts = <<>>
        BY <1>5, <2>1, <3>2, LogRequests
      <4> QED
        BY <4>1
    <3> QED
      BY <3>1, <3>2
  <2> QED
    BY <2>1, <2>2
<1> QED
  BY <1>1, <1>2, <1>3, <1>4, <1>5 DEF Underway

(* A call under way may fail.                                              *)
LEMMA FailedKeeps ==
    ASSUME NEW c \in Caller, NEW k, Underway(c, k), svc # Null,
           NEW error, error \notin {"content", "ci_policy_denied"},
           NEW r, r = Failed(k, error)
    PROVE  CallInv(c, r, {})
<1>1. Kept(k, r) /\ r.pc = "failed" /\ r.code = error /\ r.sent = k.sent
  BY FailedIs DEF Underway
<1>2. IsSCM(r) = IsSCM(k) /\ budget(r) = budget(k) /\ Requests(r) = Requests(k)
  BY <1>1, SameQuestion DEF Kept
<1>3. Shaped(c, r)
  BY <1>1 DEF Shaped, Kept, Underway
<1>4. Timed(r)
  BY <1>1 DEF Timed
<1>5. Budgeted(r)
  BY <1>1, <1>2 DEF Budgeted, Underway
<1>6. Recorded(r, {})
  BY <1>1 DEF Recorded
<1>7. Pinned(r)
  BY <1>1, <1>2 DEF Pinned, Underway, Kept
<1>8. Logged(r)
  BY <1>1 DEF Logged
<1>9. Sound(r)
  BY <1>1 DEF Sound
<1> QED
  BY <1>3, <1>4, <1>5, <1>6, <1>7, <1>8, <1>9 DEF CallInv

(* A call under way that waits for what it has not got.                    *)
LEMMA WaitsKeep ==
    ASSUME NEW c \in Caller, NEW k, Underway(c, k), ServiceInv, svc # Null,
           IsSCM(k) \/ k.ask.tool = "log_evidence" => Len(k.parts) # Len(Requests(k)),
           NEW r, Kept(k, r), r.code = k.code, r.since = clock,
           \/ r.pc = "fetching" /\ r.sent = k.sent
           \/ /\ r.pc = "waiting" /\ r.sent = k.sent + 1 /\ MayBegin(k)
              /\ r.expiry # Null => r.expiry \in Int /\ r.expiry > clock + Timeout
    PROVE  CallInv(c, r, {})
<1>1. clock \in Nat /\ Timeout \in Nat /\ kind \in Kind
  BY TimeAssumption DEF ServiceInv
<1>2. IsSCM(r) = IsSCM(k) /\ budget(r) = budget(k) /\ Requests(r) = Requests(k)
  BY SameQuestion DEF Kept
<1>3. Shaped(c, r)
  BY DEF Shaped, Kept, Underway
<1>4. Timed(r)
  BY <1>1 DEF Timed
<1>5. Budgeted(r)
  <2> SUFFICES ASSUME IsSCM(k)
               PROVE  /\ r.sent <= budget(k).maxRequests
                      /\ r.pc = "waiting" => clock - r.began <= budget(k).maxDuration
    BY <1>2 DEF Budgeted
  <2>1. budget(k) \in Budget
    BY <1>1, <1>2, <1>3, AskedBudget
  <2>2. budget(k).maxRequests \in Nat /\ budget(k).maxDuration \in Nat
    BY <2>1 DEF Budget
  <2>3. /\ k.sent \in Nat /\ k.began \in Nat /\ k.sent <= budget(k).maxRequests
        /\ r.began = k.began
    BY DEF Underway, Kept
  <2>4. r.pc = "waiting" => r.sent = k.sent + 1 /\ k.sent < budget(k).maxRequests
                            /\ clock - k.began <= budget(k).maxDuration
    BY DEF MayBegin, Elapsed
  <2> QED
    BY <1>1, <2>2, <2>3, <2>4
<1>6. Recorded(r, {})
  BY DEF Recorded, Underway
<1>7. Pinned(r)
  <2> SUFFICES ASSUME IsSCM(k)
               PROVE  /\ r.parts \in Seq(Revision)
                      /\ Len(r.parts) < Len(Requests(k))
                      /\ r.ask.by \in {"ref", "commit"} =>
                            \A i \in DOMAIN r.parts : r.parts[i] = r.parts[1]
    BY <1>2 DEF Pinned
  <2>1. Len(Requests(k)) \in Nat
    BY SomeRequests
  <2>2. k.parts \in Seq(Revision) /\ Len(k.parts) <= Len(Requests(k))
    BY DEF Underway
  <2>3. Len(k.parts) \in Nat
    BY <2>2
  <2>4. Len(k.parts) < Len(Requests(k))
    BY <2>1, <2>2, <2>3
  <2> QED
    BY <2>2, <2>4 DEF Underway, Kept
<1>8. Logged(r)
  BY <1>2 DEF Logged, Underway, Kept
<1>9. Sound(r)
  BY DEF Sound
<1> QED
  BY <1>3, <1>4, <1>5, <1>6, <1>7, <1>8, <1>9 DEF CallInv

(* A cached token that is fresh outlives a request that begins now.        *)
LEMMA FreshOutlives ==
    ASSUME ServiceInv, NEW adapter \in Adapters, Fresh(cache[adapter])
    PROVE  cache[adapter] \in Int /\ cache[adapter] > clock + Timeout
<1>1. /\ {Timeout, Skew, Lifetime, MaxClock} \subseteq Nat /\ Timeout < Skew
  BY TimeAssumption
<1>2. cache[adapter] \in 1..(MaxClock + Lifetime) /\ clock \in 0..MaxClock
  BY DEF ServiceInv, Fresh
<1>3. cache[adapter] - Skew > clock
  BY DEF Fresh
<1> QED
  BY <1>1, <1>2, <1>3

(* On to the next request, or the end.                                     *)
LEMMA ProceedKeeps ==
    ASSUME NEW c \in Caller, NEW k, Underway(c, k), ServiceInv, svc # Null,
           NEW r, r = Proceed(k)
    PROVE  CallInv(c, r, {})
<1>1. IsCall(k)
  BY DEF Underway
<1>2. Kept(k, r)
  BY <1>1, ProceedIs
<1>3. IsSCM(r) = IsSCM(k) /\ budget(r) = budget(k) /\ Requests(r) = Requests(k)
  BY <1>2, SameQuestion DEF Kept
<1>4. CASE r.pc = "ready" /\ r.sent = k.sent /\ r.code = k.code
           /\ Len(k.parts) = Len(Requests(k))
  <2>1. Shaped(c, r)
    BY <1>2, <1>4 DEF Shaped, Kept, Underway
  <2>2. Timed(r) /\ Sound(r)
    BY <1>4 DEF Timed, Sound
  <2>3. Budgeted(r)
    BY <1>3, <1>4 DEF Budgeted, Underway
  <2>4. Recorded(r, {})
    BY <1>4 DEF Recorded, Underway
  <2>5. Pinned(r)
    BY <1>2, <1>3, <1>4 DEF Pinned, Underway, Kept
  <2>6. Logged(r)
    BY <1>2, <1>4 DEF Logged, Underway, Kept
  <2> QED
    BY <2>1, <2>2, <2>3, <2>4, <2>5, <2>6 DEF CallInv
<1>5. CASE /\ r.pc = "waiting" /\ r.sent = k.sent + 1 /\ r.code = k.code
           /\ r.since = clock
           /\ MayBegin(k) /\ Len(k.parts) # Len(Requests(k))
           /\ \/ r.expiry = Null
              \/ r.expiry = cache[Adapter(k)] /\ Fresh(cache[Adapter(k)])
  <2>1. Adapter(k) \in Adapters
    BY DEF Adapter, Adapters
  <2>2. r.expiry # Null => r.expiry \in Int /\ r.expiry > clock + Timeout
    BY <1>5, <2>1, FreshOutlives
  <2> QED
    BY <1>2, <1>5, <2>2, WaitsKeep
<1>6. CASE /\ r.pc = "fetching" /\ r.sent = k.sent /\ r.code = k.code
           /\ r.since = clock
           /\ Len(k.parts) # Len(Requests(k))
  BY <1>2, <1>6, WaitsKeep
<1>7. CASE r.pc = "failed" /\ r.code = "unavailable" /\ r.sent = k.sent
  <2>1. Shaped(c, r)
    BY <1>2, <1>7 DEF Shaped, Kept, Underway
  <2>2. Timed(r) /\ Sound(r) /\ Logged(r) /\ Recorded(r, {})
    BY <1>7 DEF Timed, Sound, Logged, Recorded
  <2>3. Budgeted(r)
    BY <1>3, <1>7 DEF Budgeted, Underway
  <2>4. Pinned(r)
    BY <1>2, <1>3, <1>7 DEF Pinned, Underway, Kept
  <2> QED
    BY <2>1, <2>2, <2>3, <2>4 DEF CallInv
<1> QED
  BY <1>1, <1>4, <1>5, <1>6, <1>7, ProceedIs

(* A step of a call that is not answered yet.                              *)
LEMMA StepKeeps ==
    ASSUME CallsInv, NEW c \in Caller, trail[c] = {}, NEW r, CallInv(c, r, {}), Step(c, r),
           UNCHANGED <<svc, clock, trail>>
    PROVE  CallsInv'
<1>1. trail' = [trail EXCEPT ![c] = {}]
  BY DEF CallsInv
<1>2. call' = [call EXCEPT ![c] = r]
  BY DEF Step
<1> QED
  BY <1>1, <1>2, OneCallMoves

(* The next request to source control, and the revision it is answered     *)
(* for: once the head of a branch or a commit is known, that of the head.  *)
LEMMA NextRevision ==
    ASSUME NEW c \in Caller, NEW k, Underway(c, k), ServiceInv, svc # Null,
           IsSCM(k), Len(k.parts) # Len(Requests(k))
    PROVE  /\ Request(k) # "metrics"
           /\ RevisionFor(k) \in Revision
           /\ k.ask.by \in {"ref", "commit"} /\ k.parts # <<>> => RevisionFor(k) = k.parts[1]
<1> DEFINE n == Len(k.parts)
           by == k.ask.by
           pinned == {"pinned-diffstat", "pinned-diff"}
<1>1. kind \in Kind /\ head \in Revision
  BY DEF ServiceInv
<1>2. Requests(k) = SCMRequests(kind, by) /\ Len(Requests(k)) \in 1..3
  BY SomeRequests
<1>3. k.parts \in Seq(Revision) /\ n <= Len(Requests(k))
  BY DEF Underway
<1>4. n \in Nat
  BY <1>3
<1>5. n < Len(Requests(k))
  BY <1>2, <1>3, <1>4
<1>6. 1 \in Revision
  BY ReadsAssumption DEF Revision
<1>7. \A i \in 1..n : k.parts[i] \in Revision
  BY <1>3
<1>8. Request(k) = SCMRequests(kind, by)[n + 1]
  BY <1>2 DEF Request
<1>9. /\ Request(k) # "metrics"
      /\ Request(k) \in pinned => n >= 1
      /\ by \in {"ref", "commit"} /\ n >= 1 => Request(k) \in pinned
  <2> HIDE DEF n, by
  <2>1. CASE kind = "github"
    <3>1. CASE by = "pull"
      <4>1. SCMRequests(kind, by) = <<"pull", "files">>
        BY <2>1, <3>1 DEF SCMRequests, githubSCMRequests
      <4>2. n \in 0..1
        BY <1>2, <1>4, <1>5, <4>1
      <4> QED
        BY <1>8, <3>1, <4>1, <4>2
    <3>2. CASE by # "pull"
      <4>1. SCMRequests(kind, by) = <<"change">>
        BY <2>1, <3>2 DEF SCMRequests, githubSCMRequests
      <4>2. n = 0
        BY <1>2, <1>4, <1>5, <4>1
      <4> QED
        BY <1>8, <4>1, <4>2
    <3> QED
      BY <3>1, <3>2
  <2>2. CASE kind = "jenkins"
    <3>1. SCMRequests(kind, by) = <<"change">>
      BY <2>2 DEF SCMRequests
    <3>2. n = 0
      BY <1>2, <1>4, <1>5, <3>1
    <3> QED
      BY <1>8, <3>1, <3>2
  <2>3. CASE kind = "bitbucket"
    <3>1. CASE by = "pull"
      <4>1. SCMRequests(kind, by) = <<"pull", "diffstat", "diff">>
        BY <2>3, <3>1 DEF SCMRequests, bitbucketSCMRequests
      <4>2. n \in 0..2
        BY <1>2, <1>4, <1>5, <4>1
      <4> QED
        BY <1>8, <3>1, <4>1, <4>2
    <3>2. CASE by = "compare"
      <4>1. SCMRequests(kind, by) = <<"resolve", "diffstat", "diff">>
        BY <2>3, <3>2 DEF SCMRequests, bitbucketSCMRequests
      <4>2. n \in 0..2
        BY <1>2, <1>4, <1>5, <4>1
      <4> QED
        BY <1>8, <3>2, <4>1, <4>2
    <3>3. CASE by = "compare-commits"
      <4>1. SCMRequests(kind, by) = <<"diffstat", "diff">>
        BY <2>3, <3>3 DEF SCMRequests, bitbucketSCMRequests
      <4>2. n \in 0..1
        BY <1>2, <1>4, <1>5, <4>1
      <4> QED
        BY <1>8, <3>3, <4>1, <4>2
    <3>4. CASE by \notin {"pull", "compare", "compare-commits"}
      <4>1. SCMRequests(kind, by) = <<"commit", "pinned-diffstat", "pinned-diff">>
        BY <2>3, <3>4 DEF SCMRequests, bitbucketSCMRequests
      <4>2. n \in 0..2
        BY <1>2, <1>4, <1>5, <4>1
      <4> QED
        BY <1>8, <4>1, <4>2
    <3> QED
      BY <3>1, <3>2, <3>3, <3>4
  <2> QED
    BY <1>1, <2>1, <2>2, <2>3 DEF Kind
<1>10. CASE Request(k) \in pinned
  <2>1. RevisionFor(k) = k.parts[1]
    BY <1>10 DEF RevisionFor
  <2>2. 1 \in 1..n
    BY <1>4, <1>9, <1>10
  <2> QED
    BY <1>7, <1>9, <2>1, <2>2
<1>11. CASE Request(k) \notin pinned
  <2>1. RevisionFor(k) \in {1, head}
    BY <1>11 DEF RevisionFor
  <2>2. by \in {"ref", "commit"} => k.parts = <<>>
    BY <1>3, <1>4, <1>9, <1>11, EmptySeq
  <2> QED
    BY <1>1, <1>6, <1>9, <2>1, <2>2
<1> QED
  BY <1>10, <1>11

(* The answer for that revision.                                           *)
LEMMA RevisionKeeps ==
    ASSUME NEW c \in Caller, NEW k, Underway(c, k), ServiceInv, svc # Null,
           IsSCM(k), Len(k.parts) # Len(Requests(k))
    PROVE  CallInv(c, With(k, RevisionFor(k)), {})
<1> DEFINE rev == RevisionFor(k)
           j == [k EXCEPT !.parts = Append(@, rev)]
<1>1. /\ rev \in Revision
      /\ k.ask.by \in {"ref", "commit"} /\ k.parts # <<>> => rev = k.parts[1]
  BY NextRevision
<1>2. IsCall(k) /\ k.parts \in Seq(Revision) /\ Len(k.parts) <= Len(Requests(k))
  BY DEF Underway
<1> HIDE DEF rev
<1>3. /\ IsCall(j) /\ j.ask = k.ask /\ j.sent = k.sent /\ j.began = k.began
      /\ j.code = k.code /\ j.parts = Append(k.parts, rev)
  BY <1>2 DEF IsCall, Fields
<1> HIDE DEF j
<1>4. IsSCM(j) = IsSCM(k) /\ budget(j) = budget(k) /\ Requests(j) = Requests(k)
  BY <1>3, SameQuestion
<1>5. Len(Requests(k)) \in Nat /\ Len(k.parts) \in Nat
  BY <1>2, SomeRequests
<1>6. j.parts \in Seq(Revision) /\ Len(j.parts) = Len(k.parts) + 1
  BY <1>1, <1>2, <1>3
<1>7. Len(j.parts) <= Len(Requests(k))
  BY <1>2, <1>5, <1>6
<1>8. ASSUME k.ask.by \in {"ref", "commit"}, NEW i \in DOMAIN j.parts
      PROVE  j.parts[i] = j.parts[1]
  <2>1. CASE k.parts = <<>>
    BY <1>3, <1>8, <2>1
  <2>2. CASE k.parts # <<>>
    <3>1. Len(k.parts) >= 1
      BY <1>2, <1>5, <2>2, EmptySeq
    <3>2. \A m \in DOMAIN k.parts : k.parts[m] = k.parts[1]
      BY <1>8 DEF Underway
    <3>3. rev = k.parts[1]
      BY <1>1, <1>8, <2>2
    <3>4. \A m \in 1..Len(k.parts) : j.parts[m] = k.parts[m]
      BY <1>1, <1>2, <1>3
    <3>5. j.parts[Len(k.parts) + 1] = rev
      BY <1>1, <1>2, <1>3
    <3>6. i \in 1..Len(k.parts) \/ i = Len(k.parts) + 1
      BY <1>5, <1>6, <1>8
    <3> QED
      BY <1>2, <1>5, <3>1, <3>2, <3>3, <3>4, <3>5, <3>6
  <2> QED
    BY <2>1, <2>2
<1>9. Underway(c, j)
  BY <1>3, <1>4, <1>6, <1>7, <1>8 DEF Underway, IsSCM
<1>10. With(k, rev) = Proceed(j)
  BY DEF With, j
<1> QED
  BY <1>9, <1>10, ProceedKeeps DEF rev

(* The answer of a CI provider, or of telemetry.                           *)
LEMMA PartsKeep ==
    ASSUME NEW c \in Caller, NEW k, Underway(c, k), ServiceInv, svc # Null, ~IsSCM(k),
           NEW parts,
           k.ask.tool = "log_evidence" =>
              IF Len(parts) = Len(Requests(k))
              THEN Len(parts) \in {1, 2} /\ parts[Len(parts)] \in Logs
              ELSE parts = <<>> \/ (kind = "github" /\ parts = <<"redirect">>)
    PROVE  CallInv(c, Proceed([k EXCEPT !.parts = parts]), {})
<1> DEFINE j == [k EXCEPT !.parts = parts]
<1>1. /\ IsCall(j) /\ j.ask = k.ask /\ j.sent = k.sent /\ j.began = k.began
      /\ j.code = k.code /\ j.parts = parts
  BY DEF IsCall, Fields, Underway
<1> HIDE DEF j
<1>2. IsSCM(j) = IsSCM(k) /\ budget(j) = budget(k) /\ Requests(j) = Requests(k)
  BY <1>1, SameQuestion
<1>3. Underway(c, j)
  BY <1>1, <1>2 DEF Underway
<1>4. CallInv(c, Proceed(j), {})
  BY <1>3, ProceedKeeps
<1> QED
  BY <1>4 DEF j

-----------------------------------------------------------------------------
(* The steps of a call *)

(* A call that waits: what its steps need to know of it.                   *)
LEMMA WaitingCall ==
    ASSUME ReadsInv, NEW c \in Caller, Waiting(c)
    PROVE  /\ Underway(c, call[c])
           /\ IsSCM(call[c]) \/ call[c].ask.tool = "log_evidence" =>
                 Len(call[c].parts) # Len(Requests(call[c]))
           /\ trail[c] = {}
           /\ svc # Null
           /\ CallInv(c, call[c], trail[c])
<1>1. CallInv(c, call[c], trail[c])
  BY DEF ReadsInv, CallsInv
<1> QED
  BY <1>1, WaitingIsUnderway DEF Waiting

(* A question is asked of a call that was not used before.                 *)
LEMMA AskKeeps ==
    ASSUME ReadsInv, NEW c \in Caller, Ask(c)
    PROVE  CallsInv'
<1>1. PICK ask \in Asks[kind][c] :
         Step(c, LET k == [NewCall EXCEPT !.ask = ask] IN
                 IF ~Listed(k) THEN [k EXCEPT !.pc = "denied"]
                 ELSE IF Refusal(k) # "none" THEN Failed(k, Refusal(k))
                 ELSE Proceed(IF IsSCM(k) THEN [k EXCEPT !.began = clock] ELSE k))
  BY DEF Ask
<1> DEFINE k == [NewCall EXCEPT !.ask = ask]
           j == IF IsSCM(k) THEN [k EXCEPT !.began = clock] ELSE k
<1>2. /\ call[c].pc = "new" /\ svc # Null /\ UNCHANGED <<svc, clock, trail>>
      /\ kind \in Kind /\ clock \in Nat
  BY TimeAssumption DEF Ask, Serving, world, ReadsInv, ServiceInv
<1>3. trail[c] = {}
  BY <1>2 DEF ReadsInv, CallsInv, CallInv, Recorded
<1>4. /\ IsCall(k) /\ k.ask = ask /\ k.sent = 0 /\ k.began = 0 /\ k.parts = <<>>
      /\ k.code = "none"
  BY DEF NewCall, IsCall, Fields
<1>5. /\ IsCall(j) /\ j.ask = ask /\ j.sent = 0 /\ j.began \in Nat /\ j.parts = <<>>
      /\ j.code = "none"
  <2> HIDE DEF k
  <2>1. CASE IsSCM(k)
    BY <1>2, <1>4, <2>1 DEF IsCall, Fields
  <2>2. CASE ~IsSCM(k)
    BY <1>4, <2>2
  <2> QED
    BY <2>1, <2>2
<1> HIDE DEF k, j
<1>6. ASSUME NEW i, IsCall(i), i.ask = ask, i.sent = 0, i.began \in Nat, i.parts = <<>>,
             i.code = "none"
      PROVE  Underway(c, i)
  <2>1. IsSCM(i) => 0 <= budget(i).maxRequests
    <3>1. ASSUME IsSCM(i) PROVE budget(i) \in Budget
      <4>1. \A limit \in DOMAIN ask.given : ask.given[limit] \in Nat
        BY <1>1, <1>2, <1>6, <3>1, ReadsAssumption DEF IsSCM
      <4> QED
        BY <1>6, <4>1, BudgetType DEF budget
    <3> QED
      BY <3>1 DEF Budget
  <2>2. IsSCM(i) => Len(i.parts) <= Len(Requests(i)) /\ i.parts \in Seq(Revision)
    BY <1>6, SomeRequests
  <2>3. i.ask.tool = "log_evidence" => Len(i.parts) # Len(Requests(i))
    <3>1. CASE kind = "github"
      BY <1>6, <3>1, LogRequests
    <3>2. CASE kind # "github"
      BY <1>6, <3>2, LogRequests
    <3> QED
      BY <3>1, <3>2
  <2>4. \A m \in DOMAIN i.parts : i.parts[m] = i.parts[1]
    BY <1>6
  <2> QED
    BY <1>1, <1>6, <2>1, <2>2, <2>3, <2>4 DEF Underway
<1>7. Underway(c, k) /\ Underway(c, j)
  BY <1>4, <1>5, <1>6
<1>8. CASE Step(c, [k EXCEPT !.pc = "denied"])
  <2> DEFINE r == [k EXCEPT !.pc = "denied"]
  <2>1. Kept(k, r) /\ r.pc = "denied" /\ r.sent = 0 /\ r.code = "none"
    BY <1>4 DEF IsCall, Fields, Kept
  <2>2. IsSCM(r) = IsSCM(k) /\ budget(r) = budget(k) /\ Requests(r) = Requests(k)
    BY <2>1, SameQuestion DEF Kept
  <2> HIDE DEF r
  <2>3. Shaped(c, r)
    BY <1>1, <1>2, <1>4, <1>7, <2>1 DEF Shaped, Kept, Underway
  <2>4. Timed(r) /\ Logged(r) /\ Sound(r)
    BY <2>1 DEF Timed, Logged, Sound
  <2>5. Budgeted(r)
    BY <1>4, <1>7, <2>1, <2>2 DEF Budgeted, Underway
  <2>6. Recorded(r, {})
    BY <2>1 DEF Recorded
  <2>7. Pinned(r)
    BY <1>7, <2>1, <2>2 DEF Pinned, Underway, Kept
  <2>8. CallInv(c, r, {})
    BY <2>3, <2>4, <2>5, <2>6, <2>7 DEF CallInv
  <2>9. Step(c, r)
    BY <1>8 DEF r
  <2> QED
    BY <1>2, <1>3, <2>8, <2>9, StepKeeps DEF ReadsInv
<1>9. CASE Step(c, Failed(k, Refusal(k))) /\ Refusal(k) # "none"
  <2>1. Refusal(k) \notin {"content", "ci_policy_denied"}
    <3>1. SCMRefusal(kind, k.ask.by, k.ask.branch = "allowed", svc.branchKnown)
             \notin {"content", "ci_policy_denied"}
      BY DEF SCMRefusal
    <3> QED
      BY <3>1 DEF Refusal
  <2>2. CallInv(c, Failed(k, Refusal(k)), {})
    BY <1>2, <1>7, <2>1, FailedKeeps
  <2> QED
    BY <1>2, <1>3, <1>9, <2>2, StepKeeps DEF ReadsInv
<1>10. CASE Step(c, Proceed(j))
  <2>1. CallInv(c, Proceed(j), {})
    BY <1>2, <1>7, ProceedKeeps DEF ReadsInv
  <2> QED
    BY <1>2, <1>3, <1>10, <2>1, StepKeeps DEF ReadsInv
<1>11. Step(c, IF ~Listed(k) THEN [k EXCEPT !.pc = "denied"]
               ELSE IF Refusal(k) # "none" THEN Failed(k, Refusal(k))
               ELSE Proceed(j))
  BY <1>1 DEF k, j
<1> QED
  BY <1>8, <1>9, <1>10, <1>11, SMTT(30)

(* A token issued while its call was under way outlives the request that   *)
(* leaves with it.                                                         *)
LEMMA TokenGrantedKeeps ==
    ASSUME ReadsInv, NEW c \in Caller, TokenGranted(c)
    PROVE  CallsInv'
<1> DEFINE k == call[c]
<1>1. PICK issued \in k.since..clock : Step(c, Send(k, issued + Lifetime))
  BY DEF TokenGranted
<1>2. k.pc = "fetching" /\ UNCHANGED <<svc, clock, trail>>
  BY DEF TokenGranted, world
<1>3. /\ Underway(c, k) /\ trail[c] = {} /\ svc # Null
      /\ IsSCM(k) \/ k.ask.tool = "log_evidence" => Len(k.parts) # Len(Requests(k))
      /\ CallInv(c, k, {})
  BY <1>2, WaitingCall DEF Waiting
<1>4. /\ {Timeout, Lifetime} \subseteq Nat /\ 2 * Timeout < Lifetime
      /\ clock \in Nat
  BY TimeAssumption DEF ReadsInv, ServiceInv
<1>5. k.since \in Nat /\ clock <= k.since + Timeout
  BY <1>2, <1>3 DEF CallInv, Timed
<1>6. issued + Lifetime \in Int /\ issued + Lifetime > clock + Timeout
  BY <1>4, <1>5
<1> DEFINE r == Send(k, issued + Lifetime)
<1>7. IsCall(k)
  BY <1>3 DEF Underway
<1>8. /\ Kept(k, r)
      /\ \/ /\ MayBegin(k)
            /\ r.pc = "waiting" /\ r.since = clock /\ r.expiry = issued + Lifetime
            /\ r.sent = k.sent + 1 /\ r.code = k.code
         \/ r = Failed(k, "unavailable")
  <2> HIDE DEF k, r
  <2>1. r = Send(k, issued + Lifetime)
    BY DEF r
  <2>2. CASE MayBegin(k)
    <3>1. r.pc = "waiting"
      BY <1>7, <2>1, <2>2 DEF Send, IsCall, Fields
    <3> QED
      BY <1>7, <2>1, <3>1, SendIs
  <2>3. CASE ~MayBegin(k)
    <3>1. r = Failed(k, "unavailable")
      BY <2>1, <2>3 DEF Send
    <3> QED
      BY <1>7, <2>1, <3>1, SendIs
  <2> QED
    BY <2>2, <2>3
<1> HIDE DEF r
<1>9. CallInv(c, r, {})
  BY <1>3, <1>6, <1>8, WaitsKeep, FailedKeeps DEF ReadsInv
<1> QED
  BY <1>1, <1>2, <1>3, <1>9, StepKeeps DEF ReadsInv, r

(* A call under way fails.                                                 *)
LEMMA FailingKeeps ==
    ASSUME ReadsInv, NEW c \in Caller, Waiting(c),
           NEW error, error \notin {"content", "ci_policy_denied"},
           Step(c, Failed(call[c], error)), UNCHANGED <<svc, clock, trail>>
    PROVE  CallsInv'
<1>1. Underway(c, call[c]) /\ trail[c] = {} /\ svc # Null
  BY WaitingCall
<1>2. CallInv(c, Failed(call[c], error), {})
  BY <1>1, FailedKeeps
<1> QED
  BY <1>1, <1>2, StepKeeps DEF ReadsInv

(* A token is denied.                                                      *)
LEMMA TokenDeniedKeeps ==
    ASSUME ReadsInv, NEW c \in Caller, TokenDenied(c)
    PROVE  CallsInv'
<1>1. PICK error \in {"permission", "malformed", "unavailable"} :
         Step(c, Failed(call[c], IF IsSCM(call[c]) THEN "permission" ELSE error))
  BY DEF TokenDenied
<1>2. Waiting(c) /\ UNCHANGED <<svc, clock, trail>>
  BY DEF TokenDenied, world, Waiting
<1> QED
  BY <1>1, <1>2, FailingKeeps

(* A provider refuses.                                                     *)
LEMMA RefusedKeeps ==
    ASSUME ReadsInv, NEW c \in Caller, Refused(c)
    PROVE  CallsInv'
<1>1. Waiting(c) /\ UNCHANGED <<svc, clock, trail>>
  BY DEF Refused, world, Waiting
<1>2. \E error \in {"permission", "malformed", "unavailable"} : Step(c, Failed(call[c], error))
  <2>1. \A status : {providerHttpError(status), httpError(kind, status)}
                       \subseteq {"permission", "malformed", "unavailable"}
    BY DEF providerHttpError, httpError
  <2> QED
    BY <2>1 DEF Refused
<1> QED
  BY <1>1, <1>2, FailingKeeps

(* A connection is lost.                                                   *)
LEMMA LostKeeps ==
    ASSUME ReadsInv, NEW c \in Caller, Lost(c)
    PROVE  CallsInv'
<1> DEFINE k == call[c]
<1>1. Waiting(c) /\ UNCHANGED <<svc, clock, trail>>
  BY DEF Lost, world
<1>2. /\ Underway(c, k) /\ trail[c] = {} /\ svc # Null
      /\ IsSCM(k) \/ k.ask.tool = "log_evidence" => Len(k.parts) # Len(Requests(k))
      /\ CallInv(c, k, {})
  BY <1>1, WaitingCall
<1>3. CASE Request(k) = "metrics"
  <2>1. ~IsSCM(k)
    BY <1>2, <1>3, NextRevision DEF ReadsInv
  <2>2. k.ask.tool # "log_evidence"
    <3>1. SUFFICES ASSUME k.ask.tool = "log_evidence" PROVE FALSE
      OBVIOUS
    <3>2. k.parts = <<>> \/ (kind = "github" /\ k.parts = <<"redirect">>)
      BY <1>2, <3>1 DEF Underway
    <3>3. CASE kind = "github"
      <4>1. Requests(k) = <<"log", "archive">>
        BY <3>1, <3>3, LogRequests
      <4>2. CASE k.parts = <<>>
        BY <1>3, <4>1, <4>2 DEF Request
      <4>3. CASE k.parts = <<"redirect">>
        BY <1>3, <4>1, <4>3 DEF Request
      <4> QED
        BY <3>2, <4>2, <4>3
    <3>4. CASE kind # "github"
      <4>1. Requests(k) = <<"log">>
        BY <3>1, <3>4, LogRequests
      <4> QED
        BY <1>3, <3>2, <3>4, <4>1 DEF Request
    <3> QED
      BY <3>3, <3>4
  <2>3. CallInv(c, With(k, "no-metrics"), {})
    <3> HIDE DEF k
    <3>1. IsCall(k)
      BY <1>2 DEF Underway
    <3>2. CallInv(c, Proceed([k EXCEPT !.parts = Append(k.parts, "no-metrics")]), {})
      BY <1>2, <2>1, <2>2, PartsKeep DEF ReadsInv
    <3>3. [k EXCEPT !.parts = Append(@, "no-metrics")]
             = [k EXCEPT !.parts = Append(k.parts, "no-metrics")]
      BY <3>1 DEF IsCall
    <3> QED
      BY <3>2, <3>3 DEF With
  <2>4. Step(c, With(k, "no-metrics"))
    BY <1>3, <2>1 DEF Lost
  <2> QED
    BY <1>1, <1>2, <2>3, <2>4, StepKeeps DEF ReadsInv
<1>4. CASE Request(k) # "metrics"
  <2>1. \E error \in {"permission", "unavailable"} : Step(c, Failed(k, error))
    BY <1>4 DEF Lost
  <2> QED
    BY <1>1, <2>1, FailingKeeps
<1> QED
  BY <1>3, <1>4

(* Source control answers.                                                 *)
LEMMA SCMAnswerKeeps ==
    ASSUME ReadsInv, NEW c \in Caller, SCMAnswer(c)
    PROVE  CallsInv'
<1> DEFINE k == call[c]
<1>1. Waiting(c) /\ IsSCM(k) /\ UNCHANGED <<svc, clock, trail>>
  BY DEF SCMAnswer, world, Waiting
<1>2. /\ Underway(c, k) /\ trail[c] = {} /\ svc # Null
      /\ Len(k.parts) # Len(Requests(k))
  BY <1>1, WaitingCall
<1>3. CASE Step(c, Failed(k, "permission"))
  <2>1. PICK error \in {"permission"} : Step(c, Failed(k, error))
    BY <1>3
  <2> QED
    BY <1>1, <2>1, FailingKeeps
<1>4. CASE Step(c, With(k, RevisionFor(k)))
  <2>1. CallInv(c, With(k, RevisionFor(k)), {})
    BY <1>1, <1>2, RevisionKeeps DEF ReadsInv
  <2> QED
    BY <1>1, <1>2, <1>4, <2>1, StepKeeps DEF ReadsInv
<1> QED
  BY <1>3, <1>4 DEF SCMAnswer

(* CI, or telemetry, answers.                                              *)
LEMMA CIAnswerKeeps ==
    ASSUME ReadsInv, NEW c \in Caller, CIAnswer(c)
    PROVE  CallsInv'
<1> DEFINE k == call[c]
<1>1. Waiting(c) /\ ~IsSCM(k) /\ UNCHANGED <<svc, clock, trail>>
  BY DEF CIAnswer, world, Waiting
<1>2. /\ Underway(c, k) /\ trail[c] = {} /\ svc # Null
      /\ k.ask.tool = "log_evidence" => Len(k.parts) # Len(Requests(k))
  BY <1>1, WaitingCall
<1>3. IsCall(k)
  BY <1>2 DEF Underway
<1>4. ASSUME NEW parts, Step(c, Proceed([k EXCEPT !.parts = parts])),
             k.ask.tool = "log_evidence" =>
                IF Len(parts) = Len(Requests(k))
                THEN Len(parts) \in {1, 2} /\ parts[Len(parts)] \in Logs
                ELSE parts = <<>> \/ (kind = "github" /\ parts = <<"redirect">>)
      PROVE  CallsInv'
  <2> HIDE DEF k
  <2>1. CallInv(c, Proceed([k EXCEPT !.parts = parts]), {})
    BY <1>1, <1>2, <1>4, PartsKeep DEF ReadsInv
  <2> QED
    BY <1>1, <1>2, <1>4, <2>1, StepKeeps DEF ReadsInv
<1>5. ASSUME NEW part
      PROVE  With(k, part) = Proceed([k EXCEPT !.parts = Append(k.parts, part)])
  <2> HIDE DEF k
  <2>1. [k EXCEPT !.parts = Append(@, part)] = [k EXCEPT !.parts = Append(k.parts, part)]
    BY <1>3 DEF IsCall
  <2> QED
    BY <2>1 DEF With
<1>6. CASE \E error \in {"malformed"} : Step(c, Failed(k, error))
  BY <1>1, <1>6, FailingKeeps
<1>7. ASSUME k.ask.tool = "log_evidence"
      PROVE  \/ kind = "github" /\ Requests(k) = <<"log", "archive">>
                /\ k.parts \in {<<>>, <<"redirect">>}
             \/ kind # "github" /\ Requests(k) = <<"log">> /\ k.parts = <<>>
  BY <1>2, <1>7, LogRequests DEF Underway
<1>8. CASE /\ kind = "github" /\ Request(k) = "log"
           /\ Step(c, With(k, "redirect"))
  <2> DEFINE parts == Append(k.parts, "redirect")
  <2>1. ASSUME k.ask.tool = "log_evidence"
        PROVE  parts = <<"redirect">> /\ Len(parts) # Len(Requests(k))
    <3>1. Requests(k) = <<"log", "archive">> /\ k.parts \in {<<>>, <<"redirect">>}
      BY <1>7, <1>8, <2>1
    <3>2. k.parts = <<>>
      <4>1. SUFFICES ASSUME k.parts = <<"redirect">> PROVE FALSE
        BY <3>1
      <4>2. Request(k) = "archive"
        BY <3>1, <4>1 DEF Request
      <4> QED
        BY <1>8, <4>2
    <3> QED
      BY <3>1, <3>2
  <2> HIDE DEF parts, k
  <2>2. Step(c, Proceed([k EXCEPT !.parts = parts]))
    BY <1>5, <1>8 DEF parts
  <2> QED
    BY <1>4, <1>8, <2>1, <2>2
<1>9. CASE /\ kind = "github" /\ Request(k) = "log"
           /\ \E log \in Logs : Step(c, Proceed([k EXCEPT !.parts = <<"direct", log>>]))
  <2>1. PICK log \in Logs : Step(c, Proceed([k EXCEPT !.parts = <<"direct", log>>]))
    BY <1>9
  <2> DEFINE parts == <<"direct", log>>
  <2>2. Len(parts) = 2 /\ parts[Len(parts)] = log
    OBVIOUS
  <2>3. k.ask.tool = "log_evidence" => Len(Requests(k)) = 2
    BY <1>7, <1>9
  <2> HIDE DEF parts, k
  <2>4. Step(c, Proceed([k EXCEPT !.parts = parts]))
    BY <2>1 DEF parts
  <2> QED
    BY <1>4, <2>2, <2>3, <2>4
<1>10. CASE /\ ~(kind = "github" /\ Request(k) = "log")
            /\ \E part \in CIParts(k) : Step(c, With(k, part))
  <2>1. PICK part \in CIParts(k) : Step(c, With(k, part))
    BY <1>10
  <2> DEFINE parts == Append(k.parts, part)
  <2>2. ASSUME k.ask.tool = "log_evidence"
        PROVE  /\ Len(parts) = Len(Requests(k)) /\ Len(parts) \in {1, 2}
               /\ parts[Len(parts)] \in Logs
    <3>1. CASE kind = "github"
      <4>1. Requests(k) = <<"log", "archive">> /\ k.parts \in {<<>>, <<"redirect">>}
        BY <1>7, <2>2, <3>1
      <4>2. k.parts = <<"redirect">>
        BY <1>10, <3>1, <4>1 DEF Request
      <4>3. Request(k) = "archive"
        BY <4>1, <4>2 DEF Request
      <4>4. part \in Logs
        BY <2>1, <4>3 DEF CIParts
      <4>5. Len(parts) = 2 /\ parts[2] = part
        <5> DEFINE s == <<"redirect">>
                   S == {"redirect", part}
        <5>1. s \in Seq(S) /\ Len(s) = 1 /\ part \in S
          OBVIOUS
        <5> HIDE DEF s, S
        <5>3. Len(Append(s, part)) = Len(s) + 1 /\ Append(s, part)[Len(s) + 1] = part
          BY <5>1, AppendProperties
        <5>2. Len(Append(s, part)) = 2 /\ Append(s, part)[2] = part
          BY <5>1, <5>3
        <5> QED
          BY <4>2, <5>2 DEF s
      <4> QED
        BY <4>1, <4>4, <4>5
    <3>2. CASE kind # "github"
      <4>1. Requests(k) = <<"log">> /\ k.parts = <<>>
        BY <1>7, <2>2, <3>2
      <4>2. Request(k) = "log"
        BY <4>1 DEF Request
      <4>3. part \in Logs
        BY <2>1, <4>2 DEF CIParts
      <4>4. parts = <<part>>
        BY <4>1
      <4> QED
        BY <4>1, <4>3, <4>4
    <3> QED
      BY <3>1, <3>2
  <2> HIDE DEF parts, k
  <2>3. Step(c, Proceed([k EXCEPT !.parts = parts]))
    BY <1>5, <2>1 DEF parts
  <2> QED
    BY <1>4, <2>2, <2>3
<1> QED
  BY <1>6, <1>8, <1>9, <1>10 DEF CIAnswer

(* A call is answered, and what is recorded of it with the answer.         *)
LEMMA RepliesKeep ==
    ASSUME ReadsInv, NEW c \in Caller, call[c].pc \in {"denied", "ready", "failed"},
           NEW code \in Codes, NEW result, Reply(c, code, result),
           NEW records, records \subseteq Outcomes,
           trail' = [trail EXCEPT ![c] = records],
           "policy_denied" \in records => call[c].pc = "denied",
           svc.audited => /\ code = "content" => "success" \in records
                          /\ code = "ci_policy_denied" => "policy_denied" \in records,
           code = "content" => call[c].pc = "ready" /\ result = ResultOf(call[c]),
           UNCHANGED <<svc, clock>>
    PROVE  CallsInv'
<1> DEFINE k == call[c]
           r == [k EXCEPT !.pc = "done", !.code = code, !.result = result,
                          !.parts = <<>>, !.since = 0, !.began = 0]
<1>1. CallInv(c, k, trail[c])
  BY DEF ReadsInv, CallsInv
<1>2. IsCall(k) /\ svc # Null /\ k.ask \in Asks[kind][c] /\ k.sent \in Nat /\ k.pc # "new"
  BY <1>1 DEF CallInv, Shaped
<1>3. kind \in Kind
  BY <1>2 DEF ReadsInv, ServiceInv
<1>4. IsSCM(k) => budget(k) \in Budget
  BY <1>1, <1>2, <1>3, AskedBudget DEF CallInv
<1>5. Step(c, r)
  BY DEF Reply
<1> HIDE DEF k
<1>6. /\ IsCall(r) /\ r.pc = "done" /\ r.code = code /\ r.result = result
      /\ r.parts = <<>> /\ r.began = 0 /\ r.ask = k.ask /\ r.sent = k.sent
  BY <1>2 DEF IsCall, Fields
<1> HIDE DEF r
<1>7. IsSCM(r) = IsSCM(k) /\ budget(r) = budget(k) /\ Requests(r) = Requests(k)
  BY <1>6, SameQuestion
<1>8. Shaped(c, r)
  BY <1>2, <1>6 DEF Shaped
<1>9. Timed(r) /\ Logged(r)
  BY <1>6 DEF Timed, Logged
<1>10. Budgeted(r)
  BY <1>1, <1>6, <1>7 DEF CallInv, Budgeted
<1>11. Recorded(r, records)
  <2>1. k.pc = "denied" => k.sent = 0
    BY <1>1 DEF CallInv, Recorded
  <2> QED
    BY <1>6, <2>1 DEF Recorded, k
<1>12. Pinned(r)
  BY <1>6 DEF Pinned
<1>13. Sound(r)
  <2> SUFFICES ASSUME code = "content"
               PROVE  /\ IsSCM(k) =>
                            /\ k.ask.by \in {"ref", "commit"} => result.of = {result.head}
                            /\ FilesFit(result.evidence.files, budget(k))
                            /\ Len(result.evidence.files) < result.came => result.evidence.truncated
                      /\ k.ask.tool = "log_evidence" =>
                            (~Whole(result.evidence.lines, result.log) => result.evidence.truncated)
    BY <1>6, <1>7 DEF Sound
  <2>1. k.pc = "ready" /\ result = ResultOf(k)
    BY DEF k
  <2>2. ASSUME IsSCM(k)
        PROVE  /\ k.ask.by \in {"ref", "commit"} => result.of = {result.head}
               /\ FilesFit(result.evidence.files, budget(k))
               /\ Len(result.evidence.files) < result.came => result.evidence.truncated
    <3>1. result = ChangeResult(k)
      BY <2>1, <2>2 DEF ResultOf, IsSCM
    <3>2. /\ k.parts \in Seq(Revision)
          /\ Len(k.parts) = Len(SCMRequests(kind, k.ask.by))
          /\ k.ask.by \in {"ref", "commit"} => \A i \in DOMAIN k.parts : k.parts[i] = k.parts[1]
      BY <1>1, <2>1, <2>2, SomeRequests DEF CallInv, Pinned
    <3>3. /\ result.head = k.parts[1]
          /\ \A rev \in result.of : \E i \in DOMAIN k.parts : rev = k.parts[i]
          /\ result.of # {}
          /\ FilesFit(result.evidence.files, budget(k))
          /\ Len(result.evidence.files) < result.came => result.evidence.truncated
      BY <1>3, <1>4, <2>2, <3>1, <3>2, ChangeIsSound
    <3>4. k.ask.by \in {"ref", "commit"} => result.of = {result.head}
      BY <3>2, <3>3
    <3> QED
      BY <3>3, <3>4
  <2>3. ASSUME k.ask.tool = "log_evidence"
        PROVE  ~Whole(result.evidence.lines, result.log) => result.evidence.truncated
    <3> DEFINE log == k.parts[Len(k.parts)]
               e == SelectLog(kind, log, k.ask.maxLines)
    <3>1. log \in Logs
      BY <1>1, <2>1, <2>3 DEF CallInv, Logged
    <3>2. log \in Seq(Nat)
      BY <3>1, ReadsAssumption
    <3>3. k.ask.maxLines \in Nat
      BY <1>2, <1>3, <2>3, ReadsAssumption
    <3>4. result = [log |-> Last(k.parts),
                    evidence |-> SelectLog(kind, Last(k.parts), k.ask.maxLines)]
      BY <2>1, <2>3 DEF ResultOf, IsSCM
    <3>5. result.log = log /\ result.evidence = e
      BY <3>4 DEF Last
    <3> HIDE DEF log
    <3> QED
      BY <3>2, <3>3, <3>5, LogCutIsMarked
  <2> QED
    BY <2>2, <2>3
<1>14. CallInv(c, r, records)
  BY <1>8, <1>9, <1>10, <1>11, <1>12, <1>13 DEF CallInv
<1> QED
  BY <1>5, <1>14, OneCallMoves DEF Step, ReadsInv

(* A call that is about to be answered has no record yet.                  *)
LEMMA AuditedCall ==
    ASSUME ReadsInv, NEW c \in Caller, call[c].pc \in {"denied", "ready", "failed"}
    PROVE  /\ \A records : [trail EXCEPT ![c] = @ \cup records] = [trail EXCEPT ![c] = records]
           /\ trail = [trail EXCEPT ![c] = {}]
           /\ svc # Null
<1>1. /\ trail[c] = {}
      /\ trail = [d \in Caller |-> trail[d]]
      /\ svc # Null
  BY DEF ReadsInv, CallsInv, CallInv, Recorded, Shaped
<1>2. ASSUME NEW records
      PROVE  [trail EXCEPT ![c] = @ \cup records] = [trail EXCEPT ![c] = records]
  <2>1. trail[c] \cup records = records
    BY <1>1
  <2> QED
    BY <1>1, <2>1
<1> QED
  BY <1>1, <1>2

(* A failure whose record fails as well.                                   *)
LEMMA UnrecordedKeeps ==
    ASSUME ReadsInv, NEW c \in Caller, call[c].pc \in {"denied", "ready", "failed"},
           NEW records, records \subseteq Outcomes,
           "policy_denied" \in records => call[c].pc = "denied",
           Unrecorded(c, records), UNCHANGED <<svc, clock>>
    PROVE  CallsInv'
<1>1. \E code \in Codes : \E result : /\ code = "ci_audit_unavailable"
                                      /\ Reply(c, code, result)
  BY DEF Unrecorded, Codes
<1>2. trail' = [trail EXCEPT ![c] = records]
  BY AuditedCall DEF Unrecorded
<1> QED
  BY <1>1, <1>2, RepliesKeep

(* What the policy denies was never asked.                                 *)
LEMMA DenyKeeps ==
    ASSUME ReadsInv, NEW c \in Caller, Deny(c)
    PROVE  CallsInv'
<1>1. call[c].pc = "denied" /\ UNCHANGED <<svc, clock>>
  BY DEF Deny, world
<1>2. CASE \E records \in SUBSET {"policy_denied"} : Unrecorded(c, records)
  BY <1>1, <1>2, UnrecordedKeeps DEF Outcomes
<1>3. CASE /\ Reply(c, "ci_policy_denied", Null)
           /\ trail' = IF svc.audited THEN [trail EXCEPT ![c] = @ \cup {"policy_denied"}]
                       ELSE trail
  <2>1. PICK code \in Codes : code = "ci_policy_denied" /\ code # "content"
    BY DEF Codes
  <2>2. PICK records \in SUBSET {"policy_denied"} :
           trail' = [trail EXCEPT ![c] = records] /\ (svc.audited => "policy_denied" \in records)
    <3>1. CASE svc.audited
      BY <1>1, <1>3, <3>1, AuditedCall
    <3>2. CASE ~svc.audited
      BY <1>1, <1>3, <3>2, AuditedCall
    <3> QED
      BY <3>1, <3>2
  <2>3. Reply(c, code, Null) /\ records \subseteq Outcomes
    BY <1>3, <2>1 DEF Outcomes
  <2> QED
    BY <1>1, <2>1, <2>2, <2>3, RepliesKeep
<1> QED
  BY <1>2, <1>3 DEF Deny, Audited

(* Evidence leaves once its record is written, where it is to be.          *)
LEMMA AnswerKeeps ==
    ASSUME ReadsInv, NEW c \in Caller, Answer(c)
    PROVE  CallsInv'
<1>1. call[c].pc = "ready" /\ UNCHANGED <<svc, clock>>
  BY DEF Answer, world
<1>2. ASSUME NEW before \in SUBSET {"success"}, CaughtAfter(c, "ci_unavailable", before)
      PROVE  CallsInv'
  <2>1. CASE \E records \in SUBSET {"success", "provider_failure"} : Unrecorded(c, records)
    BY <1>1, <2>1, UnrecordedKeeps DEF Outcomes
  <2>2. CASE /\ Reply(c, "ci_unavailable", Null)
             /\ trail' = [trail EXCEPT ![c] = @ \cup before \cup {"provider_failure"}]
    <3>1. PICK code \in Codes : code = "ci_unavailable"
      BY DEF Codes
    <3> DEFINE records == before \cup {"provider_failure"}
    <3>2. trail' = [trail EXCEPT ![c] = records]
      <4>1. trail' = [trail EXCEPT ![c] = @ \cup records]
        <5>1. trail[c] \cup before \cup {"provider_failure"} = trail[c] \cup records
          OBVIOUS
        <5> QED
          BY <2>2, <5>1
      <4> HIDE DEF records
      <4> QED
        BY <1>1, <4>1, AuditedCall
    <3>3. records \subseteq Outcomes /\ "policy_denied" \notin records
      BY DEF Outcomes
    <3> HIDE DEF records
    <3> QED
      BY <1>1, <2>2, <3>1, <3>2, <3>3, RepliesKeep
  <2>3. /\ before \in SUBSET {"success", "provider_failure"}
        /\ before \cup {"provider_failure"} \in SUBSET {"success", "provider_failure"}
    OBVIOUS
  <2> QED
    BY <1>2, <2>1, <2>2, <2>3 DEF CaughtAfter
<1>3. CASE \E before \in SUBSET {"success"} : CaughtAfter(c, "ci_unavailable", before)
  BY <1>2, <1>3
<1>4. CASE /\ Reply(c, "content", ResultOf(call[c]))
           /\ trail' = IF svc.audited THEN [trail EXCEPT ![c] = @ \cup {"success"}]
                       ELSE trail
  <2>1. PICK code \in Codes : code = "content" /\ code # "ci_policy_denied"
    BY DEF Codes
  <2>2. PICK records \in SUBSET {"success"} :
           trail' = [trail EXCEPT ![c] = records] /\ (svc.audited => "success" \in records)
    <3>1. CASE svc.audited
      BY <1>1, <1>4, <3>1, AuditedCall
    <3>2. CASE ~svc.audited
      BY <1>1, <1>4, <3>2, AuditedCall
    <3> QED
      BY <3>1, <3>2
  <2>3. Reply(c, code, ResultOf(call[c]))
    BY <1>4, <2>1
  <2>4. records \subseteq Outcomes /\ "policy_denied" \notin records
    BY DEF Outcomes
  <2> QED
    BY <1>1, <2>1, <2>2, <2>3, <2>4, RepliesKeep
<1> QED
  BY <1>3, <1>4 DEF Answer, Audited

(* A failure is answered with the code of its error.                       *)
LEMMA FailKeeps ==
    ASSUME ReadsInv, NEW c \in Caller, Fail(c)
    PROVE  CallsInv'
<1>1. call[c].pc = "failed" /\ UNCHANGED <<svc, clock>>
  BY DEF Fail, world
<1>2. CASE \E records \in SUBSET {"provider_failure"} : Unrecorded(c, records)
  BY <1>1, <1>2, UnrecordedKeeps DEF Outcomes
<1>3. CASE /\ Reply(c, ciProviderError(call[c].ask.tool, call[c].code), Null)
           /\ trail' = IF svc.audited THEN [trail EXCEPT ![c] = @ \cup {"provider_failure"}]
                       ELSE trail
  <2>1. PICK code \in Codes : /\ code = ciProviderError(call[c].ask.tool, call[c].code)
                              /\ code \notin {"content", "ci_policy_denied"}
    BY DEF Codes, ciProviderError
  <2>2. PICK records \in SUBSET {"provider_failure"} : trail' = [trail EXCEPT ![c] = records]
    <3>1. CASE svc.audited
      BY <1>1, <1>3, <3>1, AuditedCall
    <3>2. CASE ~svc.audited
      BY <1>1, <1>3, <3>2, AuditedCall
    <3> QED
      BY <3>1, <3>2
  <2> QED
    BY <1>1, <1>3, <2>1, <2>2, RepliesKeep DEF Outcomes
<1> QED
  BY <1>2, <1>3 DEF Fail, Audited

-----------------------------------------------------------------------------
(* The world *)

(* What is loaded is the service of the selected provider, whose type is   *)
(* one of the three the schema knows.                                      *)
LEMMA LoadedService ==
    ASSUME NEW d \in Deployments, NEW s,
           s = loadRuntimeConfiguration(d.document, d.files), s # Null
    PROVE  /\ RuntimeConfigSchema(d.document) /\ Enabled(d.document.ci)
           /\ s = buildCIConfiguration(d.document)
           /\ s.provider.kind = resolveCIProvider(d.document.ci).type
           /\ resolveCIProvider(d.document.ci).type \in Kind
<1> DEFINE ci == d.document.ci
<1>1. /\ RuntimeConfigSchema(d.document) /\ Enabled(ci)
      /\ s = buildCIConfiguration(d.document)
  BY DEF loadRuntimeConfiguration
<1>2. s.provider.kind = resolveCIProvider(ci).type
  BY <1>1 DEF buildCIConfiguration
<1>3. ci # Null
  BY <1>1 DEF Enabled
<1>4. /\ ci.own.type \in Kind
      /\ ci.providers # Null => \A p \in Range(ci.providers) : p.type \in Kind
  BY <1>3, ReadsAssumption
<1>5. CASE ci.providers = Null
  BY <1>1, <1>2, <1>4, <1>5 DEF resolveCIProvider, resolveCIProviders, SelectedName
<1>6. CASE ci.providers # Null
  <2>1. ci.provider_name \in DOMAIN ci.providers
    BY <1>1, <1>3, <1>6 DEF RuntimeConfigSchema
  <2>2. resolveCIProvider(ci) = ci.providers[ci.provider_name]
    BY <1>6 DEF resolveCIProvider, resolveCIProviders, SelectedName
  <2>3. resolveCIProvider(ci) \in Range(ci.providers)
    BY <2>1, <2>2 DEF Range
  <2> QED
    BY <1>1, <1>2, <1>4, <1>6, <2>3
<1> QED
  BY <1>1, <1>2, <1>5, <1>6

(* A call that was not used yet is as good with any service.               *)
LEMMA LoadKeeps ==
    ASSUME ReadsInv, Load
    PROVE  ReadsInv'
<1>1. config \in Deployments /\ config' = Null /\ svc = Null
  BY DEF Load, ReadsInv, ServiceInv
<1>2. /\ svc' = loadRuntimeConfiguration(config.document, config.files)
      /\ run' \in IF svc' = Null THEN {Null} ELSE RawRuns[svc'.provider.kind]
      /\ UNCHANGED <<clock, head, cache, call, trail>>
  BY DEF Load
<1>3. svc' # Null => kind' \in Kind
  BY <1>1, <1>2, LoadedService DEF kind
<1>4. svc' # Null => "attempt" \in DOMAIN run' /\ run'.attempt \in DOMAIN JobsOf
  <2>1. svc' # Null => run' \in RawRuns[kind']
    BY <1>2 DEF kind
  <2> QED
    BY <1>3, <2>1, ReadsAssumption
<1>5. ServiceInv'
  BY <1>1, <1>2, <1>3, <1>4 DEF ReadsInv, ServiceInv
<1>6. ASSUME NEW c \in Caller
      PROVE  CallInv(c, call[c], trail[c])'
  <2>1. call[c] = NewCall /\ trail[c] = {} /\ IsCall(call[c])
    BY <1>1 DEF ReadsInv, CallsInv, CallInv, Shaped, Recorded
  <2>2. call'[c] = NewCall /\ trail'[c] = {} /\ IsCall(call'[c])
    BY <1>2, <2>1 DEF IsCall
  <2>3. /\ call'[c].pc = "new" /\ call'[c].sent = 0 /\ call'[c].began = 0
        /\ call'[c].code = "none" /\ call'[c].ask.tool = "none"
    BY <2>2 DEF NewCall, NoAsk
  <2>4. ~IsSCM(call'[c])
    BY <2>3 DEF IsSCM
  <2>5. Shaped(c, call[c])'
    BY <2>2, <2>3 DEF Shaped, IsCall
  <2>6. Timed(call[c])' /\ Recorded(call[c], trail[c])' /\ Logged(call[c])' /\ Sound(call[c])'
    BY <2>2, <2>3 DEF Timed, Recorded, Logged, Sound
  <2>7. Budgeted(call[c])' /\ Pinned(call[c])'
    BY <2>4 DEF Budgeted, Pinned, IsSCM
  <2> QED
    BY <2>5, <2>6, <2>7 DEF CallInv
<1>7. CallsInv'
  BY <1>2, <1>6 DEF ReadsInv, CallsInv
<1> QED
  BY <1>5, <1>7 DEF ReadsInv

(* A read of source control waits no longer than a request may take, and   *)
(* not beyond its budget.                                                  *)
LEMMA PatienceIs ==
    ASSUME NEW k, IsSCM(k), k.pc = "waiting", budget(k) \in Budget,
           k.began \in Nat, k.since \in Nat
    PROVE  /\ Patience(k) \in Int /\ Patience(k) <= Timeout
           /\ budget(k).maxDuration \in Nat
           /\ k.since + Patience(k) <= k.began + budget(k).maxDuration
<1> DEFINE left == k.began + budget(k).maxDuration - k.since
<1>1. budget(k).maxDuration \in Nat /\ Timeout \in Nat
  BY TimeAssumption DEF Budget
<1>2. left \in Int
  BY <1>1
<1>3. Patience(k) = Min({Timeout, left})
  BY DEF Patience
<1> HIDE DEF left
<1>4. Patience(k) = IF Timeout <= left THEN Timeout ELSE left
  BY <1>1, <1>2, <1>3, LesserOfTwo
<1>5. Patience(k) \in Int /\ Patience(k) <= Timeout /\ Patience(k) <= left
  BY <1>1, <1>2, <1>4
<1> QED
  BY <1>1, <1>5 DEF left

(* Time passes for calls that have some left.                              *)
LEMMA TickKeeps ==
    ASSUME ReadsInv, Tick
    PROVE  ReadsInv'
<1>1. /\ svc # Null /\ clock \in Nat /\ clock < MaxClock /\ clock' = clock + 1
      /\ MaxClock \in Nat /\ Timeout \in Nat
      /\ UNCHANGED <<config, svc, head, run, cache, call, trail>>
  BY TimeAssumption DEF Tick, Serving, world, ReadsInv, ServiceInv
<1>2. ServiceInv'
  BY <1>1 DEF ReadsInv, ServiceInv, kind
<1>3. ASSUME NEW c \in Caller
      PROVE  CallInv(c, call[c], trail[c])'
  <2> DEFINE k == call[c]
  <2>1. CallInv(c, k, trail[c])
    BY DEF ReadsInv, CallsInv
  <2>2. k.pc \in {"fetching", "waiting"} => clock < k.since + Patience(k)
    <3> SUFFICES ASSUME k.pc \in {"fetching", "waiting"}
                 PROVE  clock < k.since + Patience(k)
      OBVIOUS
    <3>1. ~Overdue(k)
      BY DEF Tick, Waiting
    <3>2. k.since \in Nat
      BY <2>1 DEF CallInv, Timed
    <3>3. Patience(k) \in Int
      <4>1. CASE IsSCM(k) /\ k.pc = "waiting"
        <5>1. budget(k) \in Budget /\ k.began \in Nat
          BY <2>1, <4>1, AskedBudget DEF CallInv, Shaped, ReadsInv, ServiceInv
        <5> HIDE DEF k
        <5> QED
          BY <3>2, <4>1, <5>1, PatienceIs
      <4>2. CASE ~(IsSCM(k) /\ k.pc = "waiting")
        BY <1>1, <4>2 DEF Patience
      <4> QED
        BY <4>1, <4>2
    <3> QED
      BY <1>1, <3>1, <3>2, <3>3 DEF Overdue
  <2>3. ASSUME IsSCM(k), k.pc = "waiting"
        PROVE  /\ Patience(k) \in Int /\ Patience(k) <= Timeout
               /\ budget(k).maxDuration \in Nat
               /\ k.since + Patience(k) <= k.began + budget(k).maxDuration
               /\ k.began \in Nat /\ k.since \in Nat
    <3>1. budget(k) \in Budget
      BY <2>1, <2>3, AskedBudget DEF CallInv, ReadsInv, ServiceInv
    <3>2. k.began \in Nat /\ k.since \in Nat
      BY <2>1, <2>3 DEF CallInv, Shaped, Timed
    <3> HIDE DEF k
    <3> QED
      BY <2>3, <3>1, <3>2, PatienceIs
  <2>4. Timed(k) => Timed(call[c])'
    <3>1. ASSUME k.pc \in {"fetching", "waiting"}, Timed(k)
          PROVE  clock + 1 <= k.since + Timeout
      <4>1. Patience(k) <= Timeout /\ Patience(k) \in Int
        <5>1. CASE IsSCM(k) /\ k.pc = "waiting"
          BY <2>3, <5>1
        <5>2. CASE ~(IsSCM(k) /\ k.pc = "waiting")
          BY <1>1, <5>2 DEF Patience
        <5> QED
          BY <5>1, <5>2
      <4>2. k.since \in Nat
        BY <3>1 DEF Timed
      <4> QED
        BY <1>1, <2>2, <3>1, <4>1, <4>2
    <3>2. Timed(k) => /\ k.pc \in {"fetching", "waiting"} => clock + 1 >= k.since
                      /\ k.pc \in {"fetching", "waiting"} => k.since \in Nat
      BY <1>1 DEF Timed
    <3> QED
      BY <1>1, <3>1, <3>2 DEF Timed
  <2>5. Budgeted(k) => Budgeted(call[c])'
    <3>1. ASSUME IsSCM(k), k.pc = "waiting"
          PROVE  clock' - k.began <= budget(k).maxDuration
      BY <1>1, <2>2, <2>3, <3>1
    <3>2. Budgeted(call[c])' <=>
             (IsSCM(k) => /\ k.sent <= budget(k).maxRequests
                          /\ k.pc = "waiting" => clock' - k.began <= budget(k).maxDuration)
      BY <1>1 DEF Budgeted, IsSCM, budget
    <3> QED
      BY <3>1, <3>2 DEF Budgeted
  <2>6. /\ Shaped(c, k) => Shaped(c, call[c])'
        /\ Recorded(k, trail[c]) => Recorded(call[c], trail[c])'
        /\ Logged(k) => Logged(call[c])'
    BY <1>1 DEF Shaped, Recorded, Logged, kind
  <2>7. Pinned(k) => Pinned(call[c])'
    BY <1>1 DEF Pinned, IsSCM, Requests, kind
  <2>8. Sound(k) => Sound(call[c])'
    BY <1>1 DEF Sound, IsSCM, budget
  <2> QED
    BY <2>1, <2>4, <2>5, <2>6, <2>7, <2>8 DEF CallInv
<1>4. CallsInv'
  BY <1>1, <1>3 DEF ReadsInv, CallsInv
<1> QED
  BY <1>2, <1>4 DEF ReadsInv

(* What neither loads nor calls leaves the calls as they are.              *)
LEMMA SameCalls ==
    ASSUME CallsInv, UNCHANGED <<svc, clock, call, trail>>
    PROVE  CallsInv'
<1> SUFFICES ASSUME NEW c \in Caller PROVE CallInv(c, call[c], trail[c])'
  BY DEF CallsInv
<1>1. CallInv(c, call[c], trail[c])
  BY DEF CallsInv
<1>2. /\ call' = [call EXCEPT ![c] = call[c]]
      /\ trail' = [trail EXCEPT ![c] = trail[c]]
  BY DEF CallsInv
<1>3. CallsInv'
  BY <1>1, <1>2, OneCallMoves
<1> QED
  BY <1>3 DEF CallsInv

(* A branch is pushed to, a run is started again.                          *)
LEMMA WorldKeeps ==
    ASSUME ReadsInv, Push \/ Restart
    PROVE  ReadsInv'
<1>1. /\ svc # Null
      /\ UNCHANGED <<config, svc, clock, cache, call, trail>>
  BY DEF Push, Restart, Serving
<1>2. CASE Push
  BY <1>1, <1>2, SameCalls DEF Push, ReadsInv, ServiceInv, kind
<1>3. CASE Restart
  <2>1. /\ "attempt" \in DOMAIN run
        /\ run' = [run EXCEPT !.attempt = @ + 1, !.status = "in_progress", !.conclusion = Null]
        /\ run.attempt + 1 \in DOMAIN JobsOf
        /\ UNCHANGED head
    BY <1>1, <1>3 DEF Restart, ReadsInv, ServiceInv
  <2>2. "attempt" \in DOMAIN run' /\ run'.attempt \in DOMAIN JobsOf
    BY <2>1
  <2>3. ServiceInv'
    BY <1>1, <2>1, <2>2 DEF ReadsInv, ServiceInv, kind
  <2> QED
    BY <1>1, <2>3, SameCalls DEF ReadsInv
<1> QED
  BY <1>2, <1>3

(* A call's step caches at most the token it was granted.                  *)
LEMMA CallsKeepService ==
    ASSUME ReadsInv, NEW c \in Caller,
           Ask(c) \/ TokenGranted(c) \/ TokenDenied(c) \/ CIAnswer(c) \/ SCMAnswer(c)
           \/ Refused(c) \/ Lost(c) \/ Deny(c) \/ Answer(c) \/ Fail(c)
    PROVE  ServiceInv'
<1>1. UNCHANGED <<config, svc, head, run, clock>>
  BY DEF world, Ask, TokenGranted, TokenDenied, CIAnswer, SCMAnswer, Refused, Lost,
         Deny, Answer, Fail
<1>2. cache' = cache \/ TokenGranted(c)
  BY DEF Ask, TokenDenied, CIAnswer, SCMAnswer, Refused, Lost, Deny, Answer, Fail
<1>3. cache' \in [Adapters -> (1..MaxClock + Lifetime) \cup {Null}]
  <2>1. CASE cache' = cache
    BY <2>1 DEF ReadsInv, ServiceInv
  <2>2. CASE TokenGranted(c)
    <3>1. PICK issued \in call[c].since..clock :
              cache' = [cache EXCEPT ![Adapter(call[c])] = issued + Lifetime]
      BY <2>2 DEF TokenGranted
    <3>2. call[c].since \in Nat
      <4>1. CallInv(c, call[c], trail[c]) /\ call[c].pc = "fetching"
        BY <2>2 DEF ReadsInv, CallsInv, TokenGranted
      <4> QED
        BY <4>1 DEF CallInv, Timed
    <3>3. clock \in 0..MaxClock
      BY DEF ReadsInv, ServiceInv
    <3>4. /\ {Timeout, Skew, Lifetime, MaxClock} \subseteq Nat
          /\ Timeout < Skew /\ Skew < Lifetime
      BY TimeAssumption
    <3>5. issued + Lifetime \in 1..MaxClock + Lifetime
      BY <3>1, <3>2, <3>3, <3>4
    <3> QED
      BY <3>1, <3>5 DEF ReadsInv, ServiceInv
  <2> QED
    BY <1>2, <2>1, <2>2
<1> QED
  BY <1>1, <1>3, SMTT(30) DEF ReadsInv, ServiceInv, kind

-----------------------------------------------------------------------------
(* Theorems *)

(* Before a configuration is loaded, nothing is asked.                     *)
LEMMA InitIsFine ==
    ASSUME Init
    PROVE  ReadsInv
<1>1. ServiceInv
  <2>1. 1 \in Revision
    BY ReadsAssumption DEF Revision
  <2> QED
    BY <2>1, TimeAssumption DEF Init, ServiceInv
<1>2. ASSUME NEW c \in Caller
      PROVE  CallInv(c, call[c], trail[c])
  <2>1. call[c] = NewCall /\ trail[c] = {} /\ svc = Null
    BY <1>2 DEF Init
  <2>2. /\ IsCall(NewCall) /\ NewCall.pc = "new" /\ NewCall.sent = 0 /\ NewCall.began = 0
        /\ NewCall.code = "none" /\ NewCall.ask.tool = "none"
    BY DEF NewCall, NoAsk, IsCall, Fields
  <2>3. ~IsSCM(NewCall)
    BY <2>2 DEF IsSCM
  <2>4. /\ Shaped(c, NewCall) /\ Timed(NewCall) /\ Budgeted(NewCall) /\ Recorded(NewCall, {})
        /\ Pinned(NewCall) /\ Logged(NewCall) /\ Sound(NewCall)
    BY <2>1, <2>2, <2>3 DEF Shaped, Timed, Budgeted, Recorded, Pinned, Logged, Sound
  <2> QED
    BY <2>1, <2>4 DEF CallInv
<1>3. CallsInv
  BY <1>2 DEF Init, CallsInv
<1> QED
  BY <1>1, <1>3 DEF ReadsInv

(* Every step of the server, its callers and the world keeps the           *)
(* invariant.                                                              *)
LEMMA NextKeeps ==
    ASSUME ReadsInv, [Next]_vars
    PROVE  ReadsInv'
<1>1. CASE UNCHANGED vars
  BY <1>1, SameCalls DEF vars, ReadsInv, ServiceInv, kind
<1>2. ASSUME NEW c \in Caller,
             Ask(c) \/ TokenGranted(c) \/ TokenDenied(c) \/ CIAnswer(c) \/ SCMAnswer(c)
             \/ Refused(c) \/ Lost(c) \/ Deny(c) \/ Answer(c) \/ Fail(c)
      PROVE  ReadsInv'
  <2>1. CallsInv'
    BY <1>2, AskKeeps, TokenGrantedKeeps, TokenDeniedKeeps, CIAnswerKeeps, SCMAnswerKeeps,
       RefusedKeeps, LostKeeps, DenyKeeps, AnswerKeeps, FailKeeps
  <2>2. ServiceInv'
    BY <1>2, CallsKeepService
  <2> QED
    BY <2>1, <2>2 DEF ReadsInv
<1>3. CASE Load
  BY <1>3, LoadKeeps
<1>4. CASE Push \/ Restart
  BY <1>4, WorldKeeps
<1>5. CASE Tick
  BY <1>5, TickKeeps
<1> QED
  BY <1>1, <1>2, <1>3, <1>4, <1>5 DEF Next

(* The invariant that the promises of the read-only tools follow from: the *)
(* service is the one that was loaded, and every call stays within its     *)
(* time, its budget and its records, and keeps to the head it was answered *)
(* for.                                                                    *)
THEOREM ReadsAreConsistent == Spec => []ReadsInv
<1>1. Init => ReadsInv
  BY InitIsFine
<1>2. ReadsInv /\ [Next]_vars => ReadsInv'
  BY NextKeeps
<1> QED
  BY <1>1, <1>2, PTL DEF Spec

(* The types of the server's state, its calls and their records.           *)
THEOREM ReadsTypeCorrect == Spec => []TypeOK
<1>1. ReadsInv => TypeOK
  <2> SUFFICES ASSUME ReadsInv PROVE TypeOK
    OBVIOUS
  <2>1. ASSUME NEW c \in Caller
        PROVE  /\ call[c].pc \in {"new", "fetching", "waiting", "ready", "failed", "denied", "done"}
               /\ call[c].pc = "done" => call[c].code \in Codes
               /\ trail[c] \subseteq {"success", "provider_failure", "policy_denied"}
    BY DEF ReadsInv, CallsInv, CallInv, Shaped, Recorded, Outcomes
  <2> QED
    BY <2>1 DEF TypeOK, ReadsInv, ServiceInv, kind
<1> QED
  BY <1>1, ReadsAreConsistent, PTL

(* However long a token was under way or in the cache, it does not expire  *)
(* while a request that carries it may still be served: its lifetime is    *)
(* more than two requests, and cached tokens are given up a skew before    *)
(* their end (github-app-token-provider.ts getToken).                      *)
THEOREM TokensOutliveRequests == Spec => []TokenOutlivesRequest
<1>1. ReadsInv => TokenOutlivesRequest
  <2> SUFFICES ASSUME ReadsInv, NEW c \in Caller,
                      call[c].pc = "waiting", call[c].expiry # Null
               PROVE  call[c].expiry > clock
    BY DEF TokenOutlivesRequest
  <2>1. Timed(call[c]) /\ clock \in Nat /\ Timeout \in Nat
    BY TimeAssumption DEF ReadsInv, ServiceInv, CallsInv, CallInv
  <2> QED
    BY <2>1 DEF Timed
<1> QED
  BY <1>1, ReadsAreConsistent, PTL

(* Nothing leaves an audited server without its record, and what was       *)
(* denied was never asked of a provider (ciRead, scmRead).                 *)
THEOREM AnswersAreRecorded == Spec => []AnswersAreOnRecord
<1>1. ReadsInv => AnswersAreOnRecord
  BY DEF AnswersAreOnRecord, Serving, ReadsInv, CallsInv, CallInv, Recorded
<1> QED
  BY <1>1, ReadsAreConsistent, PTL

(* Whatever limits a caller gives, a read of source control stays within   *)
(* the requests, the time and the size of its budget (createSCMBudgetGuard,*)
(* boundSCMItems).                                                         *)
THEOREM BudgetsAreKept == Spec => []WithinBudget
<1>1. ReadsInv => WithinBudget
  <2> SUFFICES ASSUME ReadsInv, NEW c \in Caller, IsSCM(call[c])
               PROVE  LET k == call[c] IN
                      /\ k.sent <= budget(k).maxRequests
                      /\ k.pc = "waiting" => Elapsed(k) <= budget(k).maxDuration
                      /\ Answered(c, "scm_change_evidence") =>
                            LET files == Evidence(c).files IN
                            /\ Len(files) <= budget(k).maxFiles
                            /\ SizeOf(files) <= budget(k).maxBytes
                            /\ Headers(PatchesOf(files)) <= budget(k).maxHunks
                            /\ BodyLines(PatchesOf(files)) <= budget(k).maxLines
    BY DEF WithinBudget
  <2>1. CallInv(c, call[c], trail[c])
    BY DEF ReadsInv, CallsInv
  <2>2. /\ call[c].sent <= budget(call[c]).maxRequests
        /\ call[c].pc = "waiting" => Elapsed(call[c]) <= budget(call[c]).maxDuration
    BY <2>1 DEF CallInv, Budgeted, Elapsed
  <2>3. Answered(c, "scm_change_evidence") => FilesFit(Evidence(c).files, budget(call[c]))
    BY <2>1 DEF CallInv, Sound, Answered, Evidence
  <2> QED
    BY <2>2, <2>3 DEF FilesFit
<1> QED
  BY <1>1, ReadsAreConsistent, PTL

(* A change asked for by branch or commit is that of the head the answer   *)
(* names, whatever is pushed while its adapter asks (the pinned requests   *)
(* of bitbucket-scm-provider.ts).                                          *)
THEOREM ChangesAreOfTheirHead == Spec => []ChangeIsOfItsHead
<1>1. ReadsInv => ChangeIsOfItsHead
  <2> SUFFICES ASSUME ReadsInv, NEW c \in Caller, Answered(c, "scm_change_evidence"),
                      call[c].ask.by \in {"ref", "commit"}
               PROVE  call[c].result.of = {call[c].result.head}
    BY DEF ChangeIsOfItsHead
  <2>1. Sound(call[c])
    BY DEF ReadsInv, CallsInv, CallInv
  <2> QED
    BY <2>1 DEF Sound, Answered, IsSCM
<1> QED
  BY <1>1, ReadsAreConsistent, PTL

(* What an answer leaves out of the log or the files a provider sent is    *)
(* marked (getLogEvidence, finalizeSCMEvidence).                           *)
THEOREM CutsAreMarked == Spec => []CutIsMarked
<1>1. ReadsInv => CutIsMarked
  <2> SUFFICES ASSUME ReadsInv, NEW c \in Caller
               PROVE  /\ Answered(c, "log_evidence")
                         /\ ~Whole(Evidence(c).lines, call[c].result.log)
                         => Evidence(c).truncated
                      /\ Answered(c, "scm_change_evidence")
                         /\ Len(Evidence(c).files) < call[c].result.came
                         => Evidence(c).truncated
    BY DEF CutIsMarked
  <2>1. Sound(call[c])
    BY DEF ReadsInv, CallsInv, CallInv
  <2> QED
    BY <2>1 DEF Sound, Answered, IsSCM, Evidence
<1> QED
  BY <1>1, ReadsAreConsistent, PTL

(* The tools of a service are those its configuration asks for.            *)
LEMMA ToolsAreThoseAskedFor ==
    ASSUME NEW d, RuntimeConfigSchema(d), Enabled(d.ci),
           resolveCIProvider(d.ci).type \in Kind
    PROVE  LET p == resolveCIProvider(d.ci)
               tools == ToolsOf(buildCIConfiguration(d))
           IN /\ ReadTools \subseteq tools
              /\ "scm_change_evidence" \in tools <=> WantsSCM(p)
              /\ "telemetry_correlation" \in tools <=> WantsTelemetry(p)
              /\ "rerun_failed_workflow" \in tools <=>
                    p.type = "github" /\ p.settings["github"].rerun /\ d.ci.approval
<1> DEFINE p == resolveCIProvider(d.ci)
           s == buildCIConfiguration(d)
           tools == ToolsOf(s)
           m == metadataOf(p)
<1>1. m \in [kind: Kind, capabilities: [read: BOOLEAN, rerun: BOOLEAN], approvalRequired: BOOLEAN]
  BY DEF metadataOf
<1>2. /\ m.kind = p.type /\ m.capabilities.read
      /\ m.capabilities = CapabilitiesOf(p.type)
      /\ m.capabilities.rerun <=> p.type = "github"
      /\ m.approvalRequired <=> p.type = "github"
  BY DEF metadataOf, CapabilitiesOf
<1>3. m # Null
  BY <1>1, NullAssumption
<1>4. /\ s.provider = [kind |-> p.type, capabilities |-> CapabilitiesOf(p.type),
                       readPorts |-> TRUE, rerunPort |-> TRUE]
      /\ s.metadata = m
      /\ s.audited <=> m.approvalRequired
      /\ s.rerunEnabled <=> p.settings[p.type].rerun
      /\ s.scm <=> WantsSCM(p)
      /\ s.forensics = (IF WantsSCM(p) THEN {"scm"} ELSE {})
                       \cup (IF WantsTelemetry(p) THEN {"telemetry"} ELSE {})
  BY DEF buildCIConfiguration, providerRerunOptIn
<1>5. p.type = "github" => d.ci.approval
  BY DEF RuntimeConfigSchema
<1> HIDE DEF m, s, p
<1>6. /\ s.provider.kind = p.type /\ s.provider.readPorts /\ s.provider.rerunPort
      /\ s.provider.capabilities = m.capabilities
  BY <1>2, <1>4
<1>7. validRuntimeMetadata(s)
  BY <1>2, <1>3, <1>4, <1>6 DEF validRuntimeMetadata, Registrable
<1>8. ASSUME NEW tool \in {"workflow_status", "failed_job_analysis", "log_evidence",
                           "remediation_plan", "failure_analysis", "scm_change_evidence",
                           "telemetry_correlation", "rerun_failed_workflow"}
      PROVE  tool \in tools <=>
                /\ s.metadata.capabilities.read
                /\ tool = "failure_analysis" => s.forensics # {}
                /\ tool = "scm_change_evidence" => s.scm \/ "scm" \in s.forensics
                /\ tool = "telemetry_correlation" => "telemetry" \in s.forensics
                /\ tool = "rerun_failed_workflow" =>
                      /\ s.rerunEnabled
                      /\ s.metadata.capabilities.rerun
                      /\ s.metadata.kind = "github"
                      /\ s.audited
  BY <1>7 DEF ToolsOf
<1> HIDE DEF tools
<1>9. ReadTools \subseteq tools
  BY <1>2, <1>4, <1>8 DEF ReadTools
<1>10. "scm_change_evidence" \in tools <=> WantsSCM(p)
  <2>1. "scm" \in s.forensics <=> WantsSCM(p)
    BY <1>4
  <2> QED
    BY <1>2, <1>4, <1>8, <2>1
<1>11. "telemetry_correlation" \in tools <=> WantsTelemetry(p)
  <2>1. "telemetry" \in s.forensics <=> WantsTelemetry(p)
    BY <1>4
  <2> QED
    BY <1>2, <1>4, <1>8, <2>1
<1>12. "rerun_failed_workflow" \in tools <=>
          p.type = "github" /\ p.settings["github"].rerun /\ d.ci.approval
  BY <1>2, <1>4, <1>5, <1>8
<1> QED
  BY <1>9, <1>10, <1>11, <1>12 DEF tools, s, p

(* Whatever the configuration, what is served of it is what it asks for:   *)
(* by the provider it selects, with the tools of that provider's sections, *)
(* a re-run only on GitHub, where it is told to and has an approval        *)
(* (loadRuntimeConfiguration, the provider registry, registerCITools).     *)
THEOREM ConfigurationsAreServedAsLoaded == Spec => ServesWhatIsLoaded
<1> DEFINE A == config # Null /\ config' = Null /\ svc' # Null =>
         LET p == resolveCIProvider(config.document.ci)
             tools == ToolsOf(svc')
         IN /\ svc'.provider.kind = p.type
            /\ ReadTools \subseteq tools
            /\ "scm_change_evidence" \in tools <=> WantsSCM(p)
            /\ "telemetry_correlation" \in tools <=> WantsTelemetry(p)
            /\ "rerun_failed_workflow" \in tools <=>
                  p.type = "github" /\ p.settings["github"].rerun /\ config.document.ci.approval
<1>1. ReadsInv /\ [Next]_vars => [A]_vars
  <2> SUFFICES ASSUME ReadsInv, Next, config # Null, config' = Null, svc' # Null
               PROVE  A
    OBVIOUS
  <2>1. Load
    <3>1. ASSUME NEW c \in Caller,
                 Ask(c) \/ TokenGranted(c) \/ TokenDenied(c) \/ CIAnswer(c) \/ SCMAnswer(c)
                 \/ Refused(c) \/ Lost(c) \/ Deny(c) \/ Answer(c) \/ Fail(c)
          PROVE  config' = config
      BY <3>1 DEF world, Ask, TokenGranted, TokenDenied, CIAnswer, SCMAnswer, Refused, Lost,
                  Deny, Answer, Fail
    <3>2. Push \/ Restart \/ Tick => config' = config
      BY DEF Push, Restart, Tick, world
    <3> QED
      BY <3>1, <3>2, SMTT(30) DEF Next
  <2>2. config \in Deployments
    BY DEF ReadsInv, ServiceInv
  <2>3. svc' = loadRuntimeConfiguration(config.document, config.files)
    BY <2>1 DEF Load
  <2>4. /\ RuntimeConfigSchema(config.document) /\ Enabled(config.document.ci)
        /\ svc' = buildCIConfiguration(config.document)
        /\ svc'.provider.kind = resolveCIProvider(config.document.ci).type
        /\ resolveCIProvider(config.document.ci).type \in Kind
    BY <2>2, <2>3, LoadedService
  <2> QED
    BY <2>4, ToolsAreThoseAskedFor
<1> QED
  BY <1>1, ReadsAreConsistent, PTL DEF Spec, ServesWhatIsLoaded
=============================================================================
