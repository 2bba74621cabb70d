------------------------------- MODULE Commands -------------------------------
(***************************************************************************)
(* pigeon commands beside each other on one host: the keyring's (add, modify, *)
(* delete, list; commands/keyring/wizard.rs) and the jobs' (commands/job: the  *)
(* wizards, shared_wizard.rs, report_upload.rs; core/wizard.rs).  A command is  *)
(* a program, the steps its dispatch function takes in that order, and a step   *)
(* that fails ends it with FAILURE_EXIT_CODE.  What a job's run does is left to  *)
(* the other modules, but for how it ends.                                   *)
(*                                                                         *)
(* The commands share keyring.toml and, beside it, rclone.conf.  fs::write       *)
(* truncates a file and then writes it, and others may read it in between or     *)
(* the process be killed there.                                              *)
(***************************************************************************)
EXTENDS Keyring, Sequences

CONSTANTS Processes,
          Keyrings,    \* keyring.toml as earlier commands have left it
          MaxCommands  \* bound: commands ever started

\* What an alias may have in a keyring.
Entries ==
  {Nothing}
  \cup {Bucket(secret, tried, injected) :
          secret \in Secrets, tried \in Secrets \cup Injections \cup {"untried"},
          injected \in Injections \cup {"unset"}}
  \cup {Email(provider, port, security, secret, tried) :
          provider \in Providers, port \in Ports, security \in {"default", "tls", "starttls"},
          secret \in Secrets, tried \in {<<>>} \cup (Ports \X {"tls", "starttls"} \X Secrets)}

ASSUME CommandsAssumption ==
  /\ MaxCommands \in Nat
  /\ \A k \in Keyrings : k \in [Aliases -> Entries] /\ \A a \in Aliases : Sound(k[a])

VARIABLES
  keyring, conf,   \* keyring.toml; rclone.conf
  probe,           \* rclone-probe-<pid>.conf, by process id
  started,         \* commands so far
  \* Of each process: its command, whether stdin is a terminal and whether
  \* --non-interactive is given, its environment, the steps it still has to take.
  command, terminal, nonInteractive, environment, todo,
  \* The store it loaded, the alias and the entry it is about.
  store, about, candidate,
  \* How its run ended, and its exit code.
  outcome, exit

files == <<keyring, conf, probe>>
session == <<command, terminal, nonInteractive, environment>>
invocation == <<started, session>>
subject == <<store, about, candidate>>
vars == <<files, invocation, todo, subject, outcome, exit>>

-----------------------------------------------------------------------------
(* The programs. *)

Save == <<"truncate", "write">>
AddEmail == <<"load", "ask email", "login", "cap">> \o Save
AddBucket == <<"load", "ask bucket", "probe", "list bucket">> \o Save
ModifyEmail == <<"load", "edit email", "login", "cap">> \o Save
ModifyBucket == <<"load", "edit bucket", "probe", "list bucket">> \o Save
Delete == <<"load", "agree">> \o Save
List == <<"load", "done">>

\* load_keyring, then prepare_rclone; the inputs, one after the other, and then
\* the run, from its local output and transcript to upload_run_artifacts.
Prepare == <<"load", "available", "truncate conf", "write conf">>
Finish == <<"begin", "run", "send">>

CopyJob == Prepare \o <<"target", "rest", "confirm">> \o Finish
DeleteJob == CopyJob
TransformAsks == <<"kind", "converter">> \o Prepare \o <<"target", "rest", "confirm">>
TransformRuns == <<"begin", "gather", "run", "send">>
DeduplicateAsks == Prepare \o <<"bucket", "gather", "pending", "rest", "confirm">>
UploadOnly == Prepare \o <<"gather", "bucket", "rest", "confirm">> \o Finish
ImportAsks == Prepare \o <<"identity", "target", "rest">>
ImportRuns == <<"gather", "pending", "confirm">> \o Finish
ScanJob == Prepare \o <<"identity", "target", "rest">> \o Finish

Programs ==
  [add_email |-> AddEmail, add_bucket |-> AddBucket, modify_email |-> ModifyEmail,
   modify_bucket |-> ModifyBucket, delete |-> Delete, list |-> List,
   rclone_copy |-> CopyJob, rclone_delete |-> DeleteJob,
   transform |-> TransformAsks \o TransformRuns,
   deduplicate |-> DeduplicateAsks \o Finish, upload_only |-> UploadOnly,
   email_import |-> ImportAsks \o ImportRuns, email_scan |-> ScanJob]

KeyringCommands == {"add_email", "add_bucket", "modify_email", "modify_bucket", "delete", "list"}
Jobs == DOMAIN Programs \ KeyringCommands

Unset == [a \in Aliases |-> "unset"]

Init ==
  /\ keyring \in Keyrings /\ conf = EmptyConfig
  /\ probe = [p \in Processes |-> EmptyConfig]
  /\ started = 0
  /\ command = [p \in Processes |-> "none"]
  /\ terminal = [p \in Processes |-> FALSE] /\ nonInteractive = [p \in Processes |-> FALSE]
  /\ environment = [p \in Processes |-> Unset]
  /\ todo = [p \in Processes |-> <<>>]
  /\ store = [p \in Processes |-> Empty]
  /\ about = [p \in Processes |-> "none"] /\ candidate = [p \in Processes |-> Nothing]
  /\ outcome = [p \in Processes |-> "none"] /\ exit = [p \in Processes |-> "none"]

Running(p) == todo[p] # <<>>

At(p, step) == Running(p) /\ Head(todo[p]) = step

Proceed(p) == todo' = [todo EXCEPT ![p] = Tail(@)] /\ UNCHANGED exit

Passed(p) == Proceed(p) /\ UNCHANGED <<session, subject>>

\* Mistake: a failure is told and not returned.
ToldOnly(p, code) ==
  /\ todo' = [todo EXCEPT ![p] = Tail(@)]
  /\ exit' = [exit EXCEPT ![p] = code]
  /\ UNCHANGED <<session, subject>>

\* The process is gone.
Exit(p, code) ==
  /\ todo' = [todo EXCEPT ![p] = <<>>]
  /\ exit' = [exit EXCEPT ![p] = code]
  /\ command' = [command EXCEPT ![p] = "none"]
  /\ terminal' = [terminal EXCEPT ![p] = FALSE]
  /\ nonInteractive' = [nonInteractive EXCEPT ![p] = FALSE]
  /\ environment' = [environment EXCEPT ![p] = Unset]
  /\ store' = [store EXCEPT ![p] = Empty]
  /\ about' = [about EXCEPT ![p] = "none"]
  /\ candidate' = [candidate EXCEPT ![p] = Nothing]

\* A process starts a command; its earlier one has ended.  A keyring command has
\* no --non-interactive.
Begin(p) ==
  /\ ~Running(p)
  /\ started < MaxCommands
  /\ started' = started + 1
  /\ \E c \in DOMAIN Programs, there, told \in BOOLEAN, env \in Environments :
       /\ c \in KeyringCommands => ~told
       /\ command' = [command EXCEPT ![p] = c]
       /\ terminal' = [terminal EXCEPT ![p] = there]
       /\ nonInteractive' = [nonInteractive EXCEPT ![p] = told]
       /\ environment' = [environment EXCEPT ![p] = env]
       /\ todo' = [todo EXCEPT ![p] = Programs[c]]
  /\ outcome' = [outcome EXCEPT ![p] = "none"] /\ exit' = [exit EXCEPT ![p] = "none"]
  /\ UNCHANGED <<files, subject>>

\* A step without effect beyond this process: it is passed, or it fails.
\* check_available, the converter's own check, creating the local output and
\* its transcript, listing what is to be done.
Preliminary == {"available", "converter", "begin", "gather"}

Passes(p) ==
  /\ \E step \in Preliminary : At(p, step)
  /\ Proceed(p)
  /\ UNCHANGED <<files, invocation, subject, outcome>>

\* What may return fail(...): all but the end of a job, list's table, and what
\* needs the user.
CanFail == Preliminary \cup
  {"load", "login", "probe", "list bucket", "truncate", "truncate conf", "write", "write conf"}

Fails(p) ==
  /\ \E step \in CanFail : At(p, step)
  /\ Exit(p, "failure")
  /\ UNCHANGED <<files, started, outcome>>

\* SIGKILL, a panic, the host.
Crash(p) ==
  /\ Running(p)
  /\ Exit(p, "killed")
  /\ UNCHANGED <<files, started, outcome>>

-----------------------------------------------------------------------------
(* Files. *)

\* Store::load; a file being written reads as empty.
Load(p) ==
  /\ At(p, "load")
  /\ store' = [store EXCEPT ![p] = keyring]
  /\ Proceed(p)
  /\ UNCHANGED <<files, invocation, about, candidate, outcome>>

\* Store::save, of the store loaded before every prompt.
Truncate(p) ==
  /\ At(p, "truncate")
  /\ keyring' = Empty
  /\ Proceed(p)
  /\ UNCHANGED <<conf, probe, invocation, subject, outcome>>

\* When the file is written its chmod may fail, and with it the command.
Write(p) ==
  /\ At(p, "write")
  /\ keyring' = [store[p] EXCEPT ![about[p]] = candidate[p]]
  /\ \/ Exit(p, "success") /\ outcome' = [outcome EXCEPT ![p] = "saved"]
     \/ Exit(p, "failure") /\ outcome' = [outcome EXCEPT ![p] = "unprotected"]
  /\ UNCHANGED <<conf, probe, started>>

\* write_sandboxed_config, which may refuse.
TruncateConf(p) ==
  /\ At(p, "truncate conf")
  /\ ~Collides(store[p])
  /\ conf' = EmptyConfig
  /\ Proceed(p)
  /\ UNCHANGED <<keyring, probe, invocation, subject, outcome>>

WriteConf(p) ==
  /\ At(p, "write conf")
  /\ conf' = Sections(store[p], environment[p])
  /\ Passed(p) \/ Exit(p, "failure")
  /\ UNCHANGED <<keyring, probe, started, outcome>>

\* Mistake: the probe's file does not carry the process id.
OneProbeFile(p) == CHOOSE q \in Processes : TRUE

\* probe_config_path.
ProbeFile(p) == p

\* check_bucket_reachable writes a config of the candidate alone ...
Probe(p) ==
  /\ At(p, "probe")
  /\ probe' = [probe EXCEPT ![ProbeFile(p)] =
       Sections([Empty EXCEPT ![about[p]] = candidate[p]], environment[p])]
  /\ Proceed(p)
  /\ UNCHANGED <<keyring, conf, invocation, subject, outcome>>

\* ... and lists the bucket with it, then removes it.
ListBucket(p) ==
  LET tried == probe[ProbeFile(p)][about[p]].secret IN
  /\ At(p, "list bucket")
  /\ tried # "none"
  /\ candidate' = [candidate EXCEPT ![p].tried = tried]
  /\ probe' = [probe EXCEPT ![ProbeFile(p)] = EmptyConfig]
  /\ Proceed(p)
  /\ UNCHANGED <<keyring, conf, invocation, store, about, outcome>>

\* imap_client::verify_login, with what the identity is to be stored with.
LogIn(p) ==
  LET c == candidate[p] IN
  /\ At(p, "login")
  /\ candidate' = [candidate EXCEPT ![p] =
       Email(c.provider, c.port, StoredSecurity(c.provider, c.port, c.security), c.secret,
             Login(c.port, c.security, c.secret))]
  /\ Proceed(p)
  /\ UNCHANGED <<files, invocation, store, about, outcome>>

-----------------------------------------------------------------------------
(* What a keyring command asks.  Its user may give up, or name an alias it     *)
(* cannot use.  A secret or a yes may be piped in, where a line may be missing  *)
(* or late; the other prompts fail without a terminal.                       *)

Asks == {"ask email", "ask bucket", "edit email", "edit bucket", "cap", "agree"}

Describes(p, a, entry) ==
  /\ about' = [about EXCEPT ![p] = a]
  /\ candidate' = [candidate EXCEPT ![p] = entry]
  /\ Proceed(p)
  /\ UNCHANGED <<files, invocation, store, outcome>>

\* The address may be a flag's, the security is one's or the provider's default.
AskEmail(p) ==
  /\ At(p, "ask email")
  /\ \E a \in Aliases, provider \in Providers, port \in Ports, secret \in Secrets,
        security \in {"tls", "starttls"} :
       /\ ~Has(store[p], a)
       /\ Describes(p, a, Email(provider, port, security, secret, <<>>))

AskBucket(p) ==
  /\ At(p, "ask bucket") /\ terminal[p]
  /\ \E a \in Aliases, secret \in Secrets :
       ~Has(store[p], a) /\ Describes(p, a, Bucket(secret, "untried", environment[p][a]))

\* An empty answer keeps the current secret.
EditEmail(p) ==
  /\ At(p, "edit email") /\ terminal[p]
  /\ \E a \in Aliases, provider \in Providers, port \in Ports,
        security \in {"tls", "starttls"} :
       /\ store[p][a].kind = "email"
       /\ \E secret \in Secrets \cup {store[p][a].secret} :
            Describes(p, a, Email(provider, port, security, secret, <<>>))

EditBucket(p) ==
  /\ At(p, "edit bucket") /\ terminal[p]
  /\ \E a \in Buckets(store[p]) : \E secret \in Secrets \cup {store[p][a].secret} :
       Describes(p, a, Bucket(secret, "untried", environment[p][a]))

\* The connection cap, after the login.
Cap(p) ==
  /\ At(p, "cap")
  /\ Proceed(p)
  /\ UNCHANGED <<files, invocation, subject, outcome>>

Cancels(p) ==
  /\ Exit(p, "success")
  /\ outcome' = [outcome EXCEPT ![p] = "cancelled"]
  /\ UNCHANGED <<files, started>>

\* delete's confirm, of an alias that is there; the default is no.
Agree(p) ==
  /\ At(p, "agree")
  /\ \E a \in Aliases : Has(store[p], a) /\ (Describes(p, a, Nothing) \/ Cancels(p))

GivesUp(p) ==
  /\ \E step \in Asks : At(p, step)
  /\ Exit(p, "failure")
  /\ UNCHANGED <<files, started, outcome>>

\* The table of list.
Done(p) ==
  /\ At(p, "done")
  /\ Exit(p, "success")
  /\ outcome' = [outcome EXCEPT ![p] = "listed"]
  /\ UNCHANGED <<files, started>>

-----------------------------------------------------------------------------
(* What a job asks. *)

\* WizardInput::resolve, where no flag is given.
Prompts(p) == terminal[p] /\ ~nonInteractive[p]

\* InputFileTypeInput.
Kind(p) == At(p, "kind") /\ UNCHANGED about

\* RemoteTarget::parse takes an alias of either kind.
Target(p) ==
  /\ At(p, "target")
  /\ \E a \in Aliases : Has(store[p], a) /\ about' = [about EXCEPT ![p] = a]

\* resolve_bucket and UploadTargetInput take a bucket-config's.
BucketConfig(p) ==
  /\ At(p, "bucket")
  /\ \E a \in Buckets(store[p]) : about' = [about EXCEPT ![p] = a]

\* IdentitiesInput.
Identities(p) ==
  /\ At(p, "identity")
  /\ \E a \in Aliases : store[p][a].kind = "email"
  /\ UNCHANGED about

\* The numbers, which have defaults, and --debug-log-bucket, which has none.
Rest(p) == At(p, "rest") /\ Buckets(store[p]) # {} /\ UNCHANGED about

Resolves(p) ==
  /\ Kind(p) \/ Target(p) \/ BucketConfig(p) \/ Identities(p) \/ Rest(p)
  /\ Proceed(p)
  /\ UNCHANGED <<files, invocation, store, candidate, outcome>>

Inputs == {"kind", "target", "bucket", "identity", "rest"}

\* An invalid flag, a required value without one, a prompt that fails.
Refuses(p) ==
  /\ \E step \in Inputs : At(p, step)
  /\ Exit(p, "failure")
  /\ UNCHANGED <<files, started, outcome>>

\* ConfirmInput.
Confirms(p) ==
  /\ At(p, "confirm")
  /\ IF nonInteractive[p] THEN Passed(p) ELSE Exit(p, "failure")
  /\ UNCHANGED <<files, started, outcome>>

\* Without a user.
FallsBack(p) == ~Prompts(p) /\ (Resolves(p) \/ Refuses(p) \/ Confirms(p))

\* With one, who may take any time.
Answers(p) ==
  /\ Prompts(p)
  /\ \/ Resolves(p) \/ Refuses(p)
     \/ /\ At(p, "confirm")
        /\ \/ Passed(p) /\ UNCHANGED <<files, started, outcome>>
           \/ Cancels(p)

-----------------------------------------------------------------------------
(* What a job runs. *)

\* Nothing is pending: "Everything is already up to date."
Pending(p) ==
  /\ At(p, "pending")
  /\ \/ Passed(p) /\ UNCHANGED outcome
     \/ Exit(p, "success") /\ outcome' = [outcome EXCEPT ![p] = "nothing"]
  /\ UNCHANGED <<files, started>>

\* Job::run, by its summary: without failures, with some, or without but for
\* the last ledger upload of an import; or it returns an error.  A scan has its
\* identities' failures only.  rclone finds an alias in rclone.conf as it is now.
Run(p) ==
  /\ At(p, "run")
  /\ \E result \in {"whole", "failures", "ledger behind", "error"} :
       /\ result = "whole" => conf[about[p]] # NoSection
       /\ result = "ledger behind" => command[p] = "email_import"
       /\ result = "error" => command[p] # "email_scan"
       /\ outcome' = [outcome EXCEPT ![p] = result]
  /\ Proceed(p)
  /\ UNCHANGED <<files, invocation, subject>>

\* Mistake: only an import's failures count.
ExitOfFailures(result) == IF result \in {"failures", "error"} THEN "failure" ELSE "success"

ExitOf(result) == IF result = "whole" THEN "success" ELSE "failure"

\* The report, the log and the transcript are uploaded or not: the exit code is
\* the run's.
Send(p) ==
  /\ At(p, "send")
  /\ Exit(p, ExitOf(outcome[p]))
  /\ UNCHANGED <<files, started, outcome>>

-----------------------------------------------------------------------------
Step(p) ==
  \/ Passes(p) \/ Fails(p) \/ Load(p) \/ Truncate(p) \/ Write(p) \/ TruncateConf(p) \/ WriteConf(p)
  \/ Probe(p) \/ ListBucket(p) \/ LogIn(p) \/ Done(p)
  \/ FallsBack(p) \/ Pending(p) \/ Run(p) \/ Send(p)

User(p) ==
  \/ AskEmail(p) \/ AskBucket(p) \/ EditEmail(p) \/ EditBucket(p) \/ Cap(p) \/ Agree(p) \/ GivesUp(p)
  \/ Answers(p)

Next == \E p \in Processes : Begin(p) \/ Step(p) \/ User(p) \/ Crash(p)

Spec == Init /\ [][Next]_vars

-----------------------------------------------------------------------------
(* Properties. *)

\* The state's types.
TypeOK ==
  /\ \A a \in Aliases : keyring[a] \in Entries
  /\ \A p \in Processes, a \in Aliases : store[p][a] \in Entries
  /\ \A p \in Processes :
       /\ candidate[p] \in Entries
       /\ about[p] \in Aliases \cup {"none"}
       /\ command[p] \in DOMAIN Programs \cup {"none"}
       /\ {todo[p][i] : i \in DOMAIN todo[p]} \subseteq
            Preliminary \cup CanFail \cup Asks \cup
            Inputs \cup {"confirm", "pending", "run", "send", "done"}
       /\ outcome[p] \in {"none", "saved", "listed", "cancelled", "nothing",
                          "unprotected", "whole", "failures", "ledger behind", "error"}
       /\ exit[p] \in {"none", "success", "failure", "killed"}
       /\ exit[p] # "none" => ~Running(p)
  /\ started \in 0..MaxCommands

\* What the keyring and rclone.conf hold has been tried, whichever commands
\* overlap with whatever environments and wherever one is killed: an identity's
\* secret and the security it will be read back with are those the server
\* accepted; a bucket was listed with the stored secret, or with what stood for
\* it in the environment of the command that stored it; and a secret in
\* rclone.conf that is in neither way an environment's was listed with.
OnlyVerifiedIsUsed ==
  /\ \A a \in Aliases : Sound(keyring[a])
  /\ \A a \in Aliases : SoundSection(conf[a])

\* A command that exits with success has done what it was asked, found nothing to
\* do, or was told not to; one that exits with failure has not, but for a save
\* whose chmod failed; and no job runs past ConfirmInput without its user or
\* --non-interactive.
OutcomeIsTrue ==
  \A p \in Processes :
    LET good == outcome[p] \in {"saved", "listed", "cancelled", "nothing", "whole"} IN
    /\ exit[p] = "success" => good
    /\ exit[p] = "failure" => ~good
    /\ At(p, "send") /\ command[p] \in Jobs \ {"email_scan"} => terminal[p] \/ nonInteractive[p]
=============================================================================
