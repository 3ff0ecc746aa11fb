-------------------------------- MODULE MCReads --------------------------------
(* Values TLC gives to the constants of ToolReads.                            *)
EXTENDS ToolReads

Owner(r) == "org"

AllFiles == {"mcp", "grafana", "app-id", "installation", "pem", "approval-key",
             "bitbucket-token", "scm-token"}

App == [installation |-> TRUE, installations |-> Null]

Mapping(selectors) == [installation |-> FALSE, installations |-> selectors]

Github(app, rerun) == [given |-> {"api_base_url"}, origin |-> "github", app |-> app, rerun |-> rerun]

Jenkins(given, origin, insecure) ==
    [given |-> given, origin |-> origin, insecure |-> insecure, rerun |-> FALSE]

Bitbucket(origin) == [given |-> {"endpoint"}, origin |-> origin, rerun |-> TRUE]

Only(k, settings) == [[x \in Kind |-> Null] EXCEPT ![k] = settings]

SCM(given, branch) ==
    [enabled |-> TRUE, provider |-> Null, given |-> given, origin |-> "https",
     token |-> FALSE, username |-> FALSE, job |-> TRUE, branch |-> branch]

Forensics(scm, query) ==
    [scm |-> scm,
     telemetry |-> IF query = Null THEN Null ELSE [enabled |-> TRUE, query |-> query]]

Entry(k, settings, forensics) ==
    [type |-> k, settings |-> Only(k, settings), forensics |-> forensics]

GithubEntry == Entry("github", Github(App, TRUE), Forensics(SCM({}, FALSE), "errors"))

JenkinsEntry(branch) ==
    Entry("jenkins", Jenkins({"endpoint"}, "https", FALSE), Forensics(SCM({}, branch), Null))

BitbucketEntry ==
    Entry("bitbucket", Bitbucket("https"), Forensics([SCM({}, FALSE) EXCEPT !.token = TRUE], Null))

CI(entry) ==
    [enabled |-> TRUE, own |-> entry, providers |-> Null, provider_name |-> Null,
     allowlist |-> {"org/app", "org/lib"}, approval |-> entry.type = "github"]

Named(selected) ==
    [CI(Entry("github", Null, Null)) EXCEPT
        !.providers = [build |-> JenkinsEntry(TRUE), code |-> GithubEntry],
        !.provider_name = selected, !.approval = TRUE]

Document(profile, ci) ==
    [profile |-> profile, providers |-> profile # "ci-only",
     policy |-> IF profile = "ci-only" THEN Null
                ELSE [queries |-> {"errors"}, health |-> {"errors"}],
     ci |-> ci]

Combined(ci) == Document("combined", ci)

(* What is served: every kind, GitHub also chosen by name and with a query    *)
(* nobody configured, Jenkins also without a branch of its own.               *)
Served ==
    {Combined(CI(GithubEntry)), Combined(Named("code")), Combined(Named("build")),
     Combined(CI(Entry("github", Github(Mapping(<<"org">>), FALSE), Forensics(Null, "other")))),
     Document("ci-only", CI(JenkinsEntry(FALSE))),
     Document("ci-only", CI(Entry("jenkins", Jenkins({"endpoint"}, "https", FALSE),
                                  Forensics([SCM({}, TRUE) EXCEPT !.token = TRUE, !.username = TRUE], Null)))),
     Document("ci-only", CI(BitbucketEntry))}

(* What is refused, or has no CI: a document with one thing wrong.            *)
Unserved ==
    LET github == CI(GithubEntry)
        jenkins(settings) == CI(Entry("jenkins", settings, Null))
        mapped(selectors) == CI(Entry("github", Github(Mapping(selectors), FALSE), Null))
    IN {Document("observability-only", Null),
        Document("observability-only", github),
        Document("combined", [github EXCEPT !.enabled = FALSE]),
        Document("ci-only", github),
        [Combined(github) EXCEPT !.policy.health = {"other"}],
        [Combined(github) EXCEPT !.providers = FALSE]}
       \cup {Combined(ci) : ci \in
           {[github EXCEPT !.approval = FALSE], [github EXCEPT !.allowlist = {}],
            [github EXCEPT !.provider_name = "code"], Named("third"), Named(Null),
            CI(Entry("github", [Github(App, TRUE) EXCEPT !.given = {}],
                     Forensics(SCM({}, FALSE), Null))),
            CI(Entry("github", Github(Null, TRUE), Null)),
            CI(Entry("github", Github([App EXCEPT !.installations = <<"org">>], TRUE), Null)),
            mapped(<<"org/app">>), mapped(<<"org", "org">>), mapped(<<"org", "else">>),
            jenkins(Jenkins({"base_url", "endpoint"}, "https", FALSE)),
            jenkins(Jenkins({"base_url"}, "loopback", FALSE)),
            jenkins(Jenkins({"base_url"}, "http", TRUE)),
            CI(Entry("bitbucket", Bitbucket("http"), Null)),
            CI(Entry("jenkins", Jenkins({"endpoint"}, "https", FALSE),
                     Forensics([SCM({}, TRUE) EXCEPT !.token = TRUE], Null))),
            CI(Entry("jenkins", Jenkins({"endpoint"}, "loopback", TRUE),
                     Forensics(SCM({}, TRUE), Null)))}}

AllDeployments ==
    {[document |-> d, files |-> AllFiles] : d \in Served \cup Unserved}
    \cup {[document |-> d, files |-> AllFiles \ {f}] :
             d \in {Combined(CI(GithubEntry)), Combined(CI(BitbucketEntry))},
             f \in AllFiles}

Unlimited == [maxFiles |-> 4, maxHunks |-> 4, maxLines |-> 6, maxBytes |-> 40,
              maxRequests |-> 4, maxDuration |-> 1]

(* Two requests of the three some answers take; few files; a small answer.    *)
Given == {[maxRequests |-> 2, maxDuration |-> 2], [maxItems |-> 1], [maxBytes |-> 8],
          [maxHunks |-> 1, maxLines |-> 2]}

CIAsk(tool, workflow) == [tool |-> tool, workflow |-> workflow, maxLines |-> 2]

SCMAsk(by, branch, given) ==
    [tool |-> "scm_change_evidence", workflow |-> "listed", by |-> by,
     branch |-> branch, given |-> given]

CIAsks(k) ==
    {CIAsk("workflow_status", w) :
        w \in IF k = "github" THEN {"listed"} ELSE {"listed", "branch-of-listed", "other"}}
    \cup {CIAsk(t, "listed") : t \in 
          IF k = "github"
          THEN {"failed_job_analysis", "log_evidence", "telemetry_correlation"}
          ELSE {"failed_job_analysis", "remediation_plan", "log_evidence"}}

(* Budgets matter most where an answer takes three requests or lists a whole  *)
(* build.                                                                     *)
SCMAsks(k) ==
    IF k = "github"
    THEN {SCMAsk(by, "allowed", <<>>) : by \in {"ref", "compare"}}
         \cup {SCMAsk("pull", branch, [maxItems |-> 1]) : branch \in {"allowed", "other"}}
    ELSE {SCMAsk(by, "allowed", given) : by \in {"ref", "pull"}, given \in Given}
         \cup {SCMAsk(by, branch, <<>>) : by \in {"ref", "commit", "pull", "compare"},
                                          branch \in {"allowed", "other"}}
         \cup {SCMAsk("compare-commits", "allowed", <<>>)}
         \cup {[SCMAsk("ref", "allowed", <<>>) EXCEPT !.workflow = "other-repository"]}

AllAsks(k) == CIAsks(k) \cup SCMAsks(k)

(* The second caller's request shares a token cache with what the first       *)
(* caller asks of GitHub as a CI provider; other calls share nothing.         *)
FirstCaller == CHOOSE c \in Caller : TRUE

AsksOf ==
    [k \in Kind |-> [c \in Caller |->
        CASE c = FirstCaller -> AllAsks(k)
          [] c # FirstCaller /\ k = "github" -> {CIAsk("workflow_status", "listed")}
          [] OTHER -> {}]]

Raw(status, conclusion) == [attempt |-> 1, status |-> status, conclusion |-> conclusion]

AllRawRuns ==
    [k \in Kind |->
        CASE k = "github" -> {Raw("completed", "failure"), Raw("completed", "startup_failure")}
          [] k = "jenkins" -> {[attempt |-> 1, building |-> b, result |-> Null] : b \in BOOLEAN}
                              \cup {[attempt |-> 1, building |-> FALSE, result |-> "UNSTABLE"]}
          [] OTHER -> {[attempt |-> 1, state |-> "COMPLETED", result |-> "FAILED"],
                       [attempt |-> 1, state |-> "SUCCESSFUL", result |-> Null],
                       [attempt |-> 1, state |-> "PAUSED", result |-> Null]}]

(* The second attempt has a job that is not over yet.                         *)
Jobs ==
    <<<<[id |-> 1, conclusion |-> "success", category |-> "build"],
        [id |-> 2, conclusion |-> "failure", category |-> "test"]>>,
      <<[id |-> 1, conclusion |-> Null, category |-> "build"]>>>>

Lines(n) == [i \in 1..n |-> i]

AllLogs == {Lines(n) : n \in {1, 3, 5}}

Text(path, patch) == [path |-> path, kind |-> "text", patch |-> patch]

(* The second revision has a long patch and a file without one.               *)
Changes ==
    <<<<Text(1, <<"@", ".">>), Text(2, <<"@", ".", "@", ".", ".">>)>>,
      <<Text(1, <<"@", ".", ".", ".">>), [path |-> 3, kind |-> "omitted", patch |-> <<>>],
        Text(2, <<"@", ".", ".">>)>>>>
===============================================================================
