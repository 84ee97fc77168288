------------------------------- MODULE Checkout --------------------------------
(***************************************************************************)
(* PrepareRepo (services/getter/internal/git/clone.go) and what the        *)
(* dispatcher does with it: a local repository is verified in place, a     *)
(* remote one is cloned into a directory of its own, with its credentials  *)
(* in tempfiles that live as long as git clone runs.                       *)
(***************************************************************************)
EXTENDS Naturals, FiniteSets

VARIABLES
  source,    \* the request's source
  phase,     \* "start", "dest", "auth", "clone", "ready", "failed", "done", "killed"
  dest,      \* the clone directory exists
  secrets    \* credential tempfiles that exist: "askpass", "key", "hosts"

checkoutVars == <<source, phase, dest, secrets>>

\* authMode: by transport first, then by the credentials that are set.
AuthMode(src) ==
  IF src.scheme = "ssh"
    THEN IF "key" \in src.creds THEN "ssh key" ELSE "ssh agent"
    ELSE CASE "token" \in src.creds  -> "bearer"
           [] "token" \notin src.creds /\ "basic" \in src.creds  -> "basic"
           [] src.creds \cap {"token", "basic"} = {} /\ "header" \in src.creds -> "header"
           [] OTHER -> "none"

\* The tempfiles buildCloneCommand writes, in the order it writes them.
TempFiles(src) ==
  CASE AuthMode(src) \in {"bearer", "basic"}     -> {"askpass"}
    [] AuthMode(src) \in {"ssh key", "ssh agent"} -> src.creds \cap {"key", "hosts"}
    [] OTHER -> {}

\* injectURLUser: a user can be put into an http(s) URL only.
UrlTakesUser(src) == AuthMode(src) \in {"bearer", "basic"} => src.scheme = "https"

CheckoutInit(src) ==
  source = src /\ phase = "start" /\ dest = FALSE /\ secrets = {}

-----------------------------------------------------------------------------

\* LocalSource: verifyGitRepo.
Verify ==
  /\ phase = "start" /\ source.local
  /\ phase' \in {"ready", "failed"}
  /\ UNCHANGED <<source, dest, secrets>>

\* MkdirAll of the clone directory, or its error.
MakeDest ==
  /\ phase = "start" /\ ~source.local
  /\ dest' \in BOOLEAN
  /\ phase' = IF dest' THEN "auth" ELSE "failed"
  /\ UNCHANGED <<source, secrets>>

\* Failing, with the clone directory removed again.
FailClean ==
  /\ dest' = FALSE /\ phase' = "failed"
  /\ UNCHANGED source

\* One credential file more: the key before the known hosts.
WriteSecret ==
  /\ phase = "auth" /\ UrlTakesUser(source)
  /\ \E s \in TempFiles(source) \ secrets :
       /\ s = "hosts" => "key" \notin TempFiles(source) \ secrets
       /\ secrets' = secrets \cup {s}
  /\ UNCHANGED <<source, phase, dest>>

\* Mutant: what was already written is forgotten.
BuildForgets ==
  /\ phase = "auth"
  /\ ~UrlTakesUser(source) \/ TempFiles(source) # secrets
  /\ FailClean
  /\ UNCHANGED secrets

\* buildCloneCommand fails before or after creating a file, removes its own, and
\* PrepareRepo the directory.
BuildFails ==
  /\ phase = "auth"
  /\ ~UrlTakesUser(source) \/ TempFiles(source) # secrets
  /\ secrets' = {}
  /\ FailClean

\* git clone starts.
StartClone ==
  /\ phase = "auth" /\ UrlTakesUser(source) /\ secrets = TempFiles(source)
  /\ phase' = "clone"
  /\ UNCHANGED <<source, dest, secrets>>

\* git clone ends; the credentials are removed whatever its outcome.
CloneDone ==
  /\ phase = "clone"
  /\ phase' = "ready" /\ secrets' = {}
  /\ UNCHANGED <<source, dest>>

\* It failed, timed out or was cancelled.
CloneFails ==
  /\ phase = "clone"
  /\ secrets' = {}
  /\ FailClean

\* The dispatcher's deferred cleanup, once the scan has run.
Leave ==
  /\ phase = "ready"
  /\ phase' = "done"
  /\ dest' = (dest /\ ~source.cleanup)
  /\ UNCHANGED <<source, secrets>>

\* The process is killed: what is on disk stays there.
Kill ==
  /\ phase \in {"auth", "clone"}
  /\ phase' = "killed"
  /\ UNCHANGED <<source, dest, secrets>>

Prepare ==
  \/ Verify \/ MakeDest \/ WriteSecret \/ BuildFails \/ StartClone \/ CloneDone
  \/ CloneFails \/ Kill

===============================================================================
