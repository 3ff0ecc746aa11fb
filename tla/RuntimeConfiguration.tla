-------------------------- MODULE RuntimeConfiguration --------------------------
(***************************************************************************)
(* From a configuration to a server's CI service                           *)
(* (runtime/load-runtime-configuration.ts): what the schemas refuse, what  *)
(* the builders refuse, and the service they build of the selected         *)
(* provider.                                                               *)
(*                                                                         *)
(* A section that is left out is Null.  An address is where it was given   *)
(* ("base_url", "endpoint", both or none) and the class of its origin:     *)
(* "github" for https://api.github.com, "https" for another host,          *)
(* "loopback" and "http" for cleartext.  A secret file is named by its     *)
(* use; files has those that are there, private, and long enough, the      *)
(* token of Bitbucket with a user to go with it.                           *)
(***************************************************************************)
EXTENDS CIAdapters, Functions

CONSTANT OwnerOf(_)     \* the owner of a repository

-----------------------------------------------------------------------------
(* Sections *)

(* Either one app's installation, or a mapping of installations.           *)
GitHubAppSchema(app) == app.installation <=> app.installations = Null

GitHubConfigSchema(github) ==
    /\ Cardinality(github.given) <= 1
    /\ github.given # {} => github.origin = "github"
    /\ github.app # Null => GitHubAppSchema(github.app)

JenkinsConfigSchema(jenkins) ==
    /\ Cardinality(jenkins.given) = 1
    /\ jenkins.origin \notin {"https", "github"} =>
          jenkins.insecure /\ jenkins.origin = "loopback"

BitbucketConfigSchema(bitbucket) ==
    /\ Cardinality(bitbucket.given) = 1
    /\ bitbucket.origin \in {"https", "github"}

SCMForensicsSchema(scm) == Cardinality(scm.given) <= 1

(* Every section of a provider, whichever its type.                        *)
SectionsParse(p) ==
    /\ p.settings["github"] # Null => GitHubConfigSchema(p.settings["github"])
    /\ p.settings["jenkins"] # Null => JenkinsConfigSchema(p.settings["jenkins"])
    /\ p.settings["bitbucket"] # Null => BitbucketConfigSchema(p.settings["bitbucket"])
    /\ p.forensics # Null /\ p.forensics.scm # Null => SCMForensicsSchema(p.forensics.scm)

NamedCIProviderSchema(p) == SectionsParse(p) /\ p.settings[p.type] # Null

CIConfigSchema(ci) ==
    /\ SectionsParse(ci.own)
    /\ ci.providers # Null => \A p \in Range(ci.providers) : NamedCIProviderSchema(p)

-----------------------------------------------------------------------------
(* The providers of a configuration *)

Enabled(ci) == ci # Null /\ ci.enabled

(* Named providers stand in for the one provider of the section itself.    *)
resolveCIProviders(ci) ==
    IF ci.providers # Null THEN ci.providers ELSE [type \in {ci.own.type} |-> ci.own]

SelectedName(ci) == IF ci.providers = Null THEN ci.own.type ELSE ci.provider_name

resolveCIProvider(ci) == resolveCIProviders(ci)[SelectedName(ci)]

RuntimeConfigSchema(c) ==
    /\ c.profile # "ci-only" => c.providers /\ c.policy # Null
    /\ Enabled(c.ci) <=> c.profile # "observability-only"
    /\ c.ci # Null =>
          /\ CIConfigSchema(c.ci)
          /\ IF c.ci.providers = Null THEN c.ci.provider_name = Null
             ELSE c.ci.provider_name \in DOMAIN c.ci.providers
    /\ Enabled(c.ci) =>
          /\ \A p \in Range(resolveCIProviders(c.ci)) :
                /\ p.settings[p.type] # Null
                /\ p.type = "github" => p.settings["github"].app # Null
          /\ resolveCIProvider(c.ci).type = "github" => c.ci.approval
    /\ c.policy # Null => c.policy.health \subseteq c.policy.queries

-----------------------------------------------------------------------------
(* Builders *)

(* A mapping names repositories or owners, each of them once, none that no *)
(* repository needs, and leaves no repository out.                         *)
MappedInstallations(selectors, repositories) ==
    /\ IsInjective(selectors)
    /\ \A s \in Range(selectors) : \E r \in repositories : s \in {r, OwnerOf(r)}
    /\ \A r \in repositories : {r, OwnerOf(r)} \cap Range(selectors) # {}

(* Built twice, to read and to write, from the same files.                 *)
TokenProviderBuilds(app, repositories, files) ==
    /\ {"app-id", "installation", "pem"} \subseteq files
    /\ app.installations # Null => MappedInstallations(app.installations, repositories)

buildGitHubProvider(github, repositories, files) ==
    github.app # Null /\ TokenProviderBuilds(github.app, repositories, files)

(* Jenkins is read anonymously.                                            *)
buildCIProvider(p, repositories, files) ==
    CASE p.type = "github" -> buildGitHubProvider(p.settings["github"], repositories, files)
      [] p.type = "bitbucket" -> "bitbucket-token" \in files
      [] OTHER -> TRUE

(* The address of the CI provider, where that of source control is not     *)
(* given; GitHub's own default is not known here.                          *)
providerBaseUrl(settings) == IF settings.given = {} THEN Null ELSE settings.origin

(* The adapter of source control takes no address in cleartext; a token    *)
(* file of its own comes before that of the CI provider.  Jenkins wants a  *)
(* user name and a token, or neither.                                      *)
SCMBuilds(p, repositories, files) ==
    LET scm == p.forensics.scm
        secure == {"https", "github"}
        origin == IF scm.given # {} THEN scm.origin ELSE providerBaseUrl(p.settings[p.type])
    IN /\ scm.provider \in {Null, p.type}
       /\ CASE p.type = "github" ->
                  /\ origin = "github"
                  /\ TokenProviderBuilds(p.settings["github"].app, repositories, files)
            [] p.type = "jenkins" ->
                  /\ origin \in secure /\ scm.job
                  /\ scm.token <=> scm.username
                  /\ scm.token => "scm-token" \in files
            [] OTHER ->
                  origin \in secure /\ (IF scm.token THEN "scm-token" ELSE "bitbucket-token") \in files

WantsSCM(p) == p.forensics # Null /\ p.forensics.scm # Null /\ p.forensics.scm.enabled

WantsTelemetry(p) ==
    p.forensics # Null /\ p.forensics.telemetry # Null /\ p.forensics.telemetry.enabled

(* The query a telemetry section names need not be one of the policy's.    *)
buildForensics(p, repositories, files, observed) ==
    /\ WantsSCM(p) => SCMBuilds(p, repositories, files)
    /\ WantsTelemetry(p) => observed

(* Mutant: GitHub needs an approval only where it may re-run.              *)
metadataOfOptIn(p) ==
    [kind |-> p.type, capabilities |-> [read |-> TRUE, rerun |-> p.type = "github"],
     approvalRequired |-> p.type = "github" /\ p.settings["github"].rerun]

metadataOf(p) ==
    [kind |-> p.type, capabilities |-> [read |-> TRUE, rerun |-> p.type = "github"],
     approvalRequired |-> p.type = "github"]

providerRerunOptIn(p) == p.settings[p.type].rerun

(* Every provider is built, and one that cannot be refuses them all.       *)
ServiceBuilds(c, files) ==
    /\ c.ci.allowlist # {}
    /\ \A p \in Range(resolveCIProviders(c.ci)) :
          /\ buildCIProvider(p, c.ci.allowlist, files)
          /\ buildForensics(p, c.ci.allowlist, files, c.profile # "ci-only")
    /\ metadataOf(resolveCIProvider(c.ci)).approvalRequired =>
          c.ci.approval /\ "approval-key" \in files

(* The service of the selected provider; reads are on record where it has  *)
(* an approval service to record them.                                     *)
buildCIConfiguration(c) ==
    LET p == resolveCIProvider(c.ci) IN
    [provider |-> [kind |-> p.type, capabilities |-> CapabilitiesOf(p.type),
                   readPorts |-> TRUE, rerunPort |-> TRUE],
     metadata |-> metadataOf(p),
     registry |-> TRUE,
     scm |-> WantsSCM(p),
     forensics |-> (IF WantsSCM(p) THEN {"scm"} ELSE {})
                   \cup (IF WantsTelemetry(p) THEN {"telemetry"} ELSE {}),
     rerunEnabled |-> providerRerunOptIn(p),
     audited |-> metadataOf(p).approvalRequired,
     branchKnown |-> WantsSCM(p) /\ p.forensics.scm.branch,
     queryKnown |-> WantsTelemetry(p) /\ p.forensics.telemetry.query \in c.policy.queries]

(* Null when the configuration is refused, or has no CI.                   *)
loadRuntimeConfiguration(c, files) ==
    IF /\ "mcp" \in files
       /\ RuntimeConfigSchema(c)
       /\ c.profile # "ci-only" => "grafana" \in files
       /\ Enabled(c.ci) /\ ServiceBuilds(c, files)
    THEN buildCIConfiguration(c)
    ELSE Null
================================================================================
