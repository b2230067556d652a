--------------------------- MODULE Authenticators ---------------------------
(***************************************************************************)
(* internal/auth: what each authenticator finds in a request and what it   *)
(* says of it.  A user, a key, a token or a certificate is only told apart *)
(* by whether it is there and whether it is accepted.                      *)
(***************************************************************************)
EXTENDS Sequences

Method == {"mtls", "basic", "apikey", "oidc"}

\* What a request holds for one method: nothing, or a credential that the
\* method accepts or does not.
Credential == {"absent", "bad", "good"}

\* Basic and OIDC read the same header, Authorization.
Credentials ==
  {c \in [Method -> Credential] : "absent" \in {c["basic"], c["oidc"]}}

InvalidError ==
  [mtls   |-> "invalid_certificate",
   basic  |-> "invalid_credentials",
   apikey |-> "invalid_api_key",
   oidc   |-> "invalid_token"]

AuthError == {"unauthenticated"} \cup {InvalidError[m] : m \in Method}

\* What a table of keys or users, or the TLS of the connection, says.
Verdict(m, credential) ==
  CASE credential = "absent" -> "unauthenticated"
    [] credential = "bad"    -> InvalidError[m]
    [] credential = "good"   -> "nil"

\* JwksCache in brief: a good token is refused as well while its key is out of
\* reach or replaced, or when it expires on the way.
TokenVerdicts(credential) ==
  {Verdict("oidc", credential)}
    \cup (IF credential = "good" THEN {InvalidError["oidc"]} ELSE {})

\* The errors that Authenticate may return.
Verdicts(m, credential) ==
  IF m = "oidc" THEN TokenVerdicts(credential) ELSE {Verdict(m, credential)}
=============================================================================
