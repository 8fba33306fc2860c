------------------------------ MODULE CacheKey ------------------------------
(***************************************************************************)
(* The key under which get_config caches a config (pool.rs:33-41): the     *)
(* region, the access key, the secret, the session token, the profile and  *)
(* the endpoint, joined with colons.  An endpoint is a URL and has colons  *)
(* of its own; nothing keeps them out of the other five.                   *)
(*                                                                         *)
(* A text is a sequence of characters; an absent argument counts as the    *)
(* empty text, which build_client never passes otherwise.                  *)
(***************************************************************************)
EXTENDS Integers, Sequences

CONSTANTS
  Chars,      \* characters
  Colon       \* the separator

ASSUME CharsAssumption == Colon \in Chars

\* The arguments of get_config.
Fields ==
  [region : Seq(Chars), access_key_id : Seq(Chars),
   secret_access_key : Seq(Chars), session_token : Seq(Chars),
   profile : Seq(Chars), endpoint : Seq(Chars)]

\* Faulty variant: fields joined without a separator.
PrefixBare(text, rest) == text \o rest

\* One field and its separator in front of the rest of the key.
Prefix(text, rest) == text \o (<<Colon>> \o rest)

Key(f) ==
  Prefix(f.region,
    Prefix(f.access_key_id,
      Prefix(f.secret_access_key,
        Prefix(f.session_token,
          Prefix(f.profile, f.endpoint)))))

NoColon(text) == \A i \in DOMAIN text : text[i] # Colon

\* Only the endpoint of f has colons.
Plain(f) ==
  /\ NoColon(f.region)
  /\ NoColon(f.access_key_id)
  /\ NoColon(f.secret_access_key)
  /\ NoColon(f.session_token)
  /\ NoColon(f.profile)
=============================================================================
