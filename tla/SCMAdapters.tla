------------------------------ MODULE SCMAdapters ------------------------------
(***************************************************************************)
(* The pure part of the source-control adapters: the requests one answer   *)
(* takes (github-scm-provider.ts, bitbucket-scm-provider.ts,               *)
(* jenkins-scm-provider.ts), and how a change is cut to the caller's       *)
(* budget (scm-adapter-helpers.ts, scm/context.ts, scm/schemas.ts).        *)
(*                                                                         *)
(* A patch is the sequence of its lines, "@" for the header of a hunk and  *)
(* "." for any other; a line is one unit of size, its text is ASCII.  A    *)
(* file is text, binary, or came without its patch.                        *)
(***************************************************************************)
EXTENDS Integers, SequencesExt

CONSTANTS
    DefaultBudget,      \* DEFAULT_SCM_BUDGET
    FileOverhead        \* the size of a file's record without its patch

File == [path: Nat, kind: {"text", "binary", "omitted"}, patch: Seq({"@", "."})]

Prefix(s, n) == SubSeq(s, 1, Min({n, Len(s)}))

Headers(patch) == Cardinality({i \in DOMAIN patch : patch[i] = "@"})

BodyLines(patch) == Len(patch) - Headers(patch)

Added(s) == FoldSeq(LAMBDA a, b : a + b, 0, s)

(* The largest n with the first n elements within what Fits admits.        *)
Longest(s, Fits(_)) == Max({n \in 0..Len(s) : Fits(Prefix(s, n))})

-----------------------------------------------------------------------------
(* Budgets *)

(* maxItems stands in for maxFiles; maxTokens is accepted and dropped.     *)
resolveSCMBudget(given) ==
    [limit \in DOMAIN DefaultBudget |->
        IF limit \in DOMAIN given THEN given[limit]
        ELSE IF limit = "maxFiles" /\ "maxItems" \in DOMAIN given THEN given.maxItems
        ELSE DefaultBudget[limit]]

(* The patch of one file; the cap of 32 KiB is out of the instances' reach. *)
PatchBudget(budget) == Max({1, budget.maxBytes \div 4})

-----------------------------------------------------------------------------
(* One file *)

boundedPatchLines(patch, budget) ==
    LET kept == Longest(patch, LAMBDA p : /\ Headers(p) <= budget.maxHunks
                                          /\ BodyLines(p) <= budget.maxLines)
        cut == kept < Len(patch)
    IN [text |-> Prefix(patch, kept),
        hunks |-> cut /\ patch[kept + 1] = "@",
        lines |-> cut /\ patch[kept + 1] = "."]

(* redactText cuts the text to its first argument's limit before           *)
(* redactSCMText compares sizes, which then finds nothing to report: only  *)
(* what lies beyond eight patch budgets is marked.                         *)
normalizeFile(file, budget) ==
    LET input == Prefix(file.patch, 8 * PatchBudget(budget))
        beyond == Len(input) < Len(file.patch)
        selected == boundedPatchLines(Prefix(input, PatchBudget(budget)), budget)
    IN IF file.kind # "text"
       THEN [path |-> file.path, patch |-> <<>>,
             suppressed |-> IF file.kind = "binary" THEN "binary" ELSE "provider-omitted",
             hunks |-> FALSE, lines |-> FALSE, bytes |-> FALSE]
       ELSE [path |-> file.path, patch |-> selected.text,
             suppressed |-> IF beyond \/ selected.hunks \/ selected.lines
                            THEN "budget" ELSE "none",
             hunks |-> selected.hunks, lines |-> selected.lines, bytes |-> beyond]

-----------------------------------------------------------------------------
(* All files *)

PatchesOf(files) == FlattenSeq([i \in DOMAIN files |-> files[i].patch])

SizeOf(files) == Len(files) * FileOverhead + Len(PatchesOf(files))

boundSCMItems(files, budget) ==
    Prefix(files, Longest(files, LAMBDA some :
        /\ Len(some) <= budget.maxFiles
        /\ SizeOf(some) <= budget.maxBytes
        /\ Headers(PatchesOf(some)) <= budget.maxHunks
        /\ BodyLines(PatchesOf(some)) <= budget.maxLines))

(* Some file has its flag raised.                                          *)
Flagged(files, flag) == \E i \in DOMAIN files : files[i][flag]

(* Is anything of a file marked as cut?                                    *)
Cut(file) == file.hunks \/ file.lines \/ file.bytes

(* Hunks and lines count as cut as soon as they reach their limit.         *)
finalizeSCMEvidence(files, providerTruncated, budget) ==
    LET normalized == [i \in DOMAIN files |-> normalizeFile(files[i], budget)]
        kept == boundSCMItems(normalized, budget)
    IN [files |-> kept,
        truncated |-> \/ providerTruncated
                      \/ Len(kept) < Len(files)
                      \/ Headers(PatchesOf(kept)) >= budget.maxHunks
                      \/ BodyLines(PatchesOf(kept)) >= budget.maxLines
                      \/ \E i \in DOMAIN files : Cut(normalized[i])]

-----------------------------------------------------------------------------
(* What a provider sends of a change, and what the adapter makes of it *)

(* Pages hold as many files as the adapter asks for; a comparison on       *)
(* GitHub and a build on Jenkins come whole.                               *)
Page(kind, by, change, budget) ==
    IF kind = "jenkins" \/ (kind = "github" /\ by \in {"compare", "compare-commits"})
    THEN change
    ELSE Prefix(change, budget.maxFiles)

(* GitHub takes a file without a patch for a binary one. *)
githubFiles(page, maxFiles) ==
    [i \in 1..Min({maxFiles, Len(page)}) |->
        [page[i] EXCEPT !.kind = IF @ = "text" THEN "text" ELSE "binary"]]

(* Bitbucket lists the files of one answer with the patches of another.    *)
bitbucketFiles(stats, diff, maxFiles) ==
    [i \in 1..Min({maxFiles, Len(stats)}) |->
        LET same == {k \in DOMAIN diff : diff[k].path = stats[i].path}
        IN IF same = {}
           THEN [stats[i] EXCEPT !.kind = "omitted", !.patch = <<>>]
           ELSE diff[CHOOSE k \in same : TRUE]]

(* Jenkins names the files only. *)
jenkinsFiles(page, maxFiles) ==
    [i \in 1..Min({maxFiles, Len(page)}) |->
        [page[i] EXCEPT !.kind = IF @ = "binary" THEN "binary" ELSE "omitted",
                        !.patch = <<>>]]

(* More than the limit; on Jenkins, the limit itself as well.              *)
ProviderTruncated(kind, page, maxFiles) ==
    \/ Len(page) > maxFiles
    \/ kind = "jenkins" /\ Len(page) >= maxFiles

-----------------------------------------------------------------------------
(* The requests of one answer, in order *)

(* GitHub sends a commit, or a comparison, with its files.                 *)
githubSCMRequests(by) == IF by = "pull" THEN <<"pull", "files">> ELSE <<"change">>

(* Mutant: the difference is asked for by the selector, not by the head it *)
(* was resolved to.                                                        *)
bitbucketSCMRequestsUnpinned(by) ==
    CASE by = "pull" -> <<"pull", "diffstat", "diff">>
      [] by = "compare" -> <<"resolve", "diffstat", "diff">>
      [] by = "compare-commits" -> <<"diffstat", "diff">>
      [] OTHER -> <<"commit", "diffstat", "diff">>

(* A branch of a comparison is resolved on its own, a commit is not.       *)
(* "pinned" requests name the head that the first answer gave.             *)
bitbucketSCMRequests(by) ==
    CASE by = "pull" -> <<"pull", "diffstat", "diff">>
      [] by = "compare" -> <<"resolve", "diffstat", "diff">>
      [] by = "compare-commits" -> <<"diffstat", "diff">>
      [] OTHER -> <<"commit", "pinned-diffstat", "pinned-diff">>

(* On Jenkins the last build of the branch says it all.                    *)
SCMRequests(kind, by) ==
    CASE kind = "github" -> githubSCMRequests(by)
      [] kind = "bitbucket" -> bitbucketSCMRequests(by)
      [] OTHER -> <<"change">>

(* What an adapter refuses before its first request: a branch that is not  *)
(* allowed, a comparison on Jenkins, a Jenkins job with no branch to name. *)
SCMRefusal(kind, by, branchAllowed, branchKnown) ==
    CASE by \in {"ref", "compare"} /\ ~branchAllowed -> "permission"
      [] kind = "jenkins" /\ (by = "compare-commits" \/ (by = "compare" /\ branchAllowed)) ->
            "unsupported"
      [] kind = "jenkins" /\ by \in {"commit", "pull"} ->
            IF ~branchKnown THEN "malformed"
            ELSE IF ~branchAllowed THEN "permission" ELSE "none"
      [] OTHER -> "none"

(* The error of a status line; CI adapters of Jenkins and Bitbucket use    *)
(* the same table.                                                         *)
providerHttpError(status) ==
    CASE status \in {401, 403} -> "permission"
      [] status = 404 -> "malformed"
      [] OTHER -> "unavailable"
================================================================================
