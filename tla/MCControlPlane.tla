---------------------------- MODULE MCControlPlane ----------------------------
(*****************************************************************************)
(* Accounts and login, remote clusters, agent credentials and telemetry,     *)
(* model-checked side by side: a behaviour chooses one of the components,    *)
(* which share no state, and runs it alone.                                  *)
(*****************************************************************************)
EXTENDS AccountsAndLogin, Clusters, AgentCredentials, Telemetry, TLC

(* Values of constants. *)
MCReports == {[key |-> 1, sent |-> 0], [key |-> 1, sent |-> 1], [key |-> 1, sent |-> 2], [key |-> 1, sent |-> 6], [key |-> 2, sent |-> 1]}

VARIABLE part    \* the component this behaviour is about
suiteVars == <<part, accountVars, registryVars, clusterVars, clusterHealthVars, keyVars, certVars,
               telemetryVars, ingestVars>>

Parts == {"Accounts", "ProviderRegistry", "ClusterRegistration", "ClusterHealth", "ManagementKey", "AgentCerts",
          "TelemetryReporter", "ReportIngest"}
\* A component that is not the chosen one rests in one of its initial states.
SuiteInit ==
    /\ part \in Parts
    /\ AccountInit
    /\ RegistryInit /\ (part # "ProviderRegistry" => ~externalUrl)
    /\ ClusterInit /\ (part # "ClusterRegistration" => ~standalone)
    /\ ClusterHealthInit /\ (part # "ClusterHealth" => \A g \in 1..Generations : credentialOf[g] = "good")
    /\ KeyInit /\ (part # "ManagementKey" => ~provided /\ generated = 0 /\ keyRow.key = 0)
    /\ CertInit
    /\ TelemetryInit /\ (part # "TelemetryReporter" => choice = "default")
    /\ IngestInit
OthersRest ==
    /\ UNCHANGED part
    /\ part # "Accounts" => UNCHANGED accountVars
    /\ part # "ProviderRegistry" => UNCHANGED registryVars
    /\ part # "ClusterRegistration" => UNCHANGED clusterVars
    /\ part # "ClusterHealth" => UNCHANGED clusterHealthVars
    /\ part # "ManagementKey" => UNCHANGED keyVars
    /\ part # "AgentCerts" => UNCHANGED certVars
    /\ part # "TelemetryReporter" => UNCHANGED telemetryVars
    /\ part # "ReportIngest" => UNCHANGED ingestVars
SuiteNext ==
    \/ part = "Accounts" /\ OthersRest /\ AccountNext
    \/ part = "ProviderRegistry" /\ OthersRest /\ RegistryNext
    \/ part = "ClusterRegistration" /\ OthersRest /\ ClusterNext
    \/ part = "ClusterHealth" /\ OthersRest /\ ClusterHealthNext
    \/ part = "ManagementKey" /\ OthersRest /\ KeyNext
    \/ part = "AgentCerts" /\ OthersRest /\ CertNext
    \/ part = "TelemetryReporter" /\ OthersRest /\ TelemetryNext
    \/ part = "ReportIngest" /\ OthersRest /\ IngestNext

SuiteSpec == SuiteInit /\ [][SuiteNext]_suiteVars

\* Accounts and login: however requests overlap, somebody can always manage users, a role bound over a
\* remote cluster carries nothing wider, and a login uses the stored provider or, for a bounded time
\* only, its predecessor.
AccountsSafe ==
    /\ AccountTypeOK /\ SomeoneManages /\ RemoteWideLimited
    /\ RegistryTypeOK /\ ClientMatchesRow /\ StaleSecretBounded

\* Remote clusters and the keys of agents: a registered credential exists and is readable under the
\* active key, none is stranded, a removed cluster stays removed, a health verdict is about what was
\* observed, and a handshake uses one unexpired generation.
ClustersSafe ==
    /\ [](/\ ClusterTypeOK /\ PointedCredentialExists /\ NoStrandedCredential /\ ForgottenStaysForgotten
          /\ ClusterHealthTypeOK /\ VerdictIsAboutObserved
          /\ KeyTypeOK /\ CredentialsReadable /\ ActiveKeySurvives
          /\ CertTypeOK /\ OneGeneration /\ CertNeverExpires)
    /\ DoneMeansRotated

\* Telemetry: reports are spaced and claimed with consent by one replica, and the receiver counts an
\* installation once a day, a report once, and every lapse.
TelemetrySafe ==
    /\ [](/\ TelemetryTypeOK
          /\ IngestTypeOK /\ ActiveOncePerDay)
    /\ SpacedReports
    /\ ClaimedWithConsent
    /\ TalliedOnce
    /\ LapseRecorded
=============================================================================
