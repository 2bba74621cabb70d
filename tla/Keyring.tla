-------------------------------- MODULE Keyring --------------------------------
(***************************************************************************)
(* What keyring.toml and rclone.conf hold (commands/keyring: store.rs,       *)
(* wizard.rs, email/; core/keyring/credentials.rs; core/rclone/config.rs).    *)
(* An entry is an e-mail identity or a bucket-config, and is stored after a    *)
(* login, or a listing, with it has succeeded.  What was tried then is kept    *)
(* with the entry as "tried", and what PIGEON_SECRET_<ALIAS> was in the command  *)
(* that stored it as "injected"; the program has neither.                    *)
(***************************************************************************)
EXTENDS Naturals

CONSTANTS Aliases,
          Providers, Ports,
          Secrets,      \* as typed at a prompt
          BackendOf,    \* [Aliases -> Aliases \cup {"none"}]: is a + ".s3" an alias too
          Injections,   \* values of a PIGEON_SECRET_<ALIAS>
          Environments  \* what they may be in a process, by alias; or "unset"

ASSUME KeyringAssumption ==
  /\ BackendOf \in [Aliases -> Aliases \cup {"none"}]
  /\ Environments \subseteq [Aliases -> Injections \cup {"unset"}]

Nothing == [kind |-> "none"]
Empty == [a \in Aliases |-> Nothing]

Email(provider, port, security, secret, tried) ==
  [kind |-> "email", provider |-> provider, port |-> port, security |-> security,
   secret |-> secret, tried |-> tried]

Bucket(secret, tried, injected) ==
  [kind |-> "bucket", secret |-> secret, tried |-> tried, injected |-> injected]

\* Provider::default_security.
DefaultSecurity(provider, port) ==
  IF provider = "proton" \/ (provider = "custom" /\ port = 143) THEN "starttls" ELSE "tls"

\* stored_security.
StoredSecurity(provider, port, chosen) ==
  IF chosen = DefaultSecurity(provider, port) THEN "default" ELSE chosen

\* Identity::security.
SecurityOf(e) ==
  IF e.security = "default" THEN DefaultSecurity(e.provider, e.port) ELSE e.security

\* credentials::resolve_secret, with what the variable is in this process.
SecretFor(injected, secret) == IF injected = "unset" THEN secret ELSE injected

\* What a login with an identity's own secret tries.
Login(port, security, secret) == <<port, security, secret>>

\* Store::contains_alias: either kind.
Has(store, a) == store[a] # Nothing

Buckets(store) == {a \in Aliases : store[a].kind = "bucket"}

\* write_sandboxed_config refuses a keyring in which a backend section's name
\* is an alias.
Collides(store) ==
  \E a \in Buckets(store) : BackendOf[a] # "none" /\ Has(store, BackendOf[a])

\* The sections it writes: of the buckets alone, with the environment of the
\* process that writes them, of which "by" is kept.
Section(by, e) ==
  [secret |-> SecretFor(by, e.secret), by |-> by, tried |-> e.tried, injected |-> e.injected]
NoSection == [secret |-> "none", by |-> "unset", tried |-> "none", injected |-> "unset"]
EmptyConfig == [a \in Aliases |-> NoSection]
Sections(store, environment) ==
  [a \in Aliases |-> IF a \in Buckets(store) THEN Section(environment[a], store[a]) ELSE NoSection]

\* What is stored is what was tried.  A bucket is listed with what the
\* environment of the command has in the secret's place; an identity logs in
\* with the secret that was typed.
Sound(e) ==
  /\ e.kind = "bucket" => SecretFor(e.injected, e.secret) = e.tried
  /\ e.kind = "email" => Login(e.port, SecurityOf(e), e.secret) = e.tried

\* Of a section in which no environment stands for the stored secret, neither
\* where it was stored nor where it was written, the secret was listed with.
SoundSection(s) == s.by = "unset" /\ s.injected = "unset" => s.secret = s.tried
=============================================================================
