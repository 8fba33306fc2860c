----------------------------- MODULE Connection -----------------------------
(***************************************************************************)
(* How a connection becomes the arguments of get_config                    *)
(* (handlers/connection.rs): normalized_params maps the generic form of    *)
(* the host and the extra fields of the connection onto AWS fields and     *)
(* resolves the region, build_client validates what results.  ExecuteQuery *)
(* has the handlers that connect.                                          *)
(*                                                                         *)
(* A field is Absent, Blank (null or white space) or a value.  What a host *)
(* name holds is given by RegionOf; an endpoint is its name and port, and  *)
(* whether it is reached by TLS.                                           *)
(***************************************************************************)
EXTENDS Integers

CONSTANTS
  Absent, Blank,
  Inputs,       \* connections to explore
  RegionOf,     \* [host name -> the region in it, or Absent]
  Defaults,     \* plugin-level default regions, or Absent
  Profiles      \* profiles in the AWS files

AwsFields == {"region", "endpoint", "access_key_id", "secret_access_key",
              "session_token", "profile"}
GenericFields == {"host", "port", "username", "password"}
ExtraFields == {"region", "profile", "session_token"}

ASSUME InputAssumption ==
  \A p \in Inputs : /\ DOMAIN p = AwsFields \union GenericFields \union {"extra"}
                    /\ DOMAIN p.extra = ExtraFields
                    /\ p.host \notin {Absent, Blank} => p.host \in DOMAIN RegionOf
                    /\ p.endpoint \notin {Absent, Blank} =>
                         p.endpoint.name \in DOMAIN RegionOf

\* What stands for a missing or blank field is no value of one.
ASSUME MarkerAssumption ==
  /\ Absent # Blank
  /\ "us-east-1" \notin {Absent, Blank}
  /\ Blank \notin Defaults
  /\ \A host \in DOMAIN RegionOf : RegionOf[host] # Blank

VARIABLES
  params,         \* the connection of the requests
  default_region  \* what the settings hold

(***************************************************************************)
(* normalized_params, a step for each field it fills                       *)
(***************************************************************************)
has_non_blank(p, key) == p[key] \notin {Absent, Blank}

\* A key that is present, be it blank, keeps the generic field out.
Missing(p, key) == p[key] = Absent

Endpoint(host, port) ==
  [name |-> host, port |-> port,
   tls |-> port = 443 \/ RegionOf[host] # Absent]

ASSUME EndpointAssumption ==
  \A p \in Inputs :
    p.host \notin {Absent, Blank} => Endpoint(p.host, p.port) \notin {Absent, Blank}

FillEndpoint(p) ==
  IF Missing(p, "endpoint") /\ has_non_blank(p, "host") /\ has_non_blank(p, "port")
    THEN [p EXCEPT !.endpoint = Endpoint(p.host, p.port)]
    ELSE p

FillKey(p, key, generic) ==
  IF Missing(p, key) /\ has_non_blank(p, generic)
    THEN [p EXCEPT ![key] = p[generic]]
    ELSE p

Promote(p, key) ==
  IF ~has_non_blank(p, key) /\ p.extra[key] \notin {Absent, Blank}
    THEN [p EXCEPT ![key] = p.extra[key]]
    ELSE p

Filled(p) ==
  Promote(
    Promote(
      FillKey(FillKey(FillEndpoint(p), "access_key_id", "username"),
              "secret_access_key", "password"),
      "profile"),
    "session_token")

region_from_endpoint(p) ==
  IF has_non_blank(p, "endpoint") THEN RegionOf[p.endpoint.name] ELSE Absent

HasKeys(p) ==
  has_non_blank(p, "access_key_id") /\ has_non_blank(p, "secret_access_key")

\* Faulty variant: the fallbacks apply to profiles, too.
FallbackForAll(p) ==
  IF ~(has_non_blank(p, "endpoint") \/ HasKeys(p) \/ has_non_blank(p, "profile"))
    THEN Absent
  ELSE IF default_region # Absent THEN default_region
  ELSE "us-east-1"

\* The region of a connection that says nothing itself; a profile has its own.
Fallback(p) ==
  IF has_non_blank(p, "profile") \/ ~(has_non_blank(p, "endpoint") \/ HasKeys(p))
    THEN Absent
  ELSE IF default_region # Absent THEN default_region
  ELSE "us-east-1"

\* Faulty variant: a profile gets a region of no fallback, the connection's own
\* included, as README.md:99 has it; only an explicit region stays.
FillUnlessProfile(p) ==
  IF has_non_blank(p, "profile") \/ has_non_blank(p, "region") THEN p
  ELSE LET region == IF p.extra.region \notin {Absent, Blank} THEN p.extra.region
                     ELSE IF region_from_endpoint(p) # Absent THEN region_from_endpoint(p)
                     ELSE Fallback(p)
       IN IF region # Absent THEN [p EXCEPT !.region = region] ELSE p

FillRegion(p) ==
  LET named ==
        IF has_non_blank(p, "region") THEN p.region
        ELSE IF p.extra.region \notin {Absent, Blank} THEN p.extra.region
        ELSE region_from_endpoint(p)
      region == IF named # Absent THEN named ELSE Fallback(p)
  IN IF region # Absent THEN [p EXCEPT !.region = region] ELSE p

normalized_params(p) == FillRegion(Filled(p))

(***************************************************************************)
(* build_client                                                            *)
(***************************************************************************)
read_param(p, key) == IF has_non_blank(p, key) THEN p[key] ELSE Absent

Arguments(p) == [key \in AwsFields |-> read_param(p, key)]

\* Faulty variant: one half of a key pair is enough.
TargetedByHalf(a) ==
  \/ a.endpoint # Absent
  \/ a.region # Absent /\ a.access_key_id # Absent
  \/ a.profile # Absent

Targeted(a) ==
  \/ a.endpoint # Absent
  \/ a.region # Absent /\ a.access_key_id # Absent /\ a.secret_access_key # Absent
  \/ a.profile # Absent

profile_exists(name) == name \in Profiles

build_client(p) ==
  LET a == Arguments(normalized_params(p))
  IN IF Targeted(a) /\ (a.profile # Absent => profile_exists(a.profile))
       THEN <<"config", a>>
       ELSE <<"invalid">>

(***************************************************************************)
(* What the documents say of it                                            *)
(***************************************************************************)
Supplied(v) == v \notin {Absent, Blank}

\* The first value supplied in a chain of fallbacks.
FirstSupplied(chain) ==
  LET hits == {i \in DOMAIN chain : Supplied(chain[i])}
  IN IF hits = {} THEN Absent
     ELSE chain[CHOOSE i \in hits : \A j \in hits : i <= j]

DocumentedEndpoint ==
  FirstSupplied(<<params.endpoint,
                  IF Supplied(params.host) /\ Supplied(params.port)
                    THEN Endpoint(params.host, params.port) ELSE Absent>>)

\* The chains of regions.  A connection the plugin signs itself: the explicit
\* region, that of the connection, that of its endpoint, the default of the
\* plugin, us-east-1 (README.md:77-91).  A profile connection: only the first
\* three, which are choices of the connection (CHANGELOG.md:51-54,
\* connection.rs:162-170); if it makes none the region is the SDK's.  README.md:99
\* says that the whole chain is skipped for profiles, which was so before the
\* change that CHANGELOG.md:43-54 reports.
DocumentedRegion(profile) ==
  LET hosted == IF DocumentedEndpoint = Absent THEN Absent
                ELSE RegionOf[DocumentedEndpoint.name]
  IN IF profile = Absent
       THEN FirstSupplied(<<params.region, params.extra.region, hosted,
                            default_region, "us-east-1">>)
       ELSE FirstSupplied(<<params.region, params.extra.region, hosted>>)

\* Explicit AWS fields come first, then the generic form and the extra
\* fields; refused is what names nothing to connect to or a profile that is
\* not there, and never is a connection left to the credentials of the
\* environment because half of a pair was filled in (connection.rs:321-331).
DocumentedClient ==
  LET profile == FirstSupplied(<<params.profile, params.extra.profile>>)
      config ==
        [region |-> DocumentedRegion(profile),
         endpoint |-> DocumentedEndpoint,
         access_key_id |-> FirstSupplied(<<params.access_key_id, params.username>>),
         secret_access_key |->
           FirstSupplied(<<params.secret_access_key, params.password>>),
         session_token |->
           FirstSupplied(<<params.session_token, params.extra.session_token>>),
         profile |-> profile]
      target == \/ config.endpoint # Absent
                \/ /\ config.access_key_id # Absent
                   /\ config.secret_access_key # Absent
                \/ profile # Absent
  IN IF target /\ (profile # Absent => profile \in Profiles)
       THEN <<"config", config>> ELSE <<"invalid">>

\* The connection with its blank fields left out.
Unblanked ==
  [key \in DOMAIN params |->
     IF key # "extra" /\ params[key] = Blank THEN Absent ELSE params[key]]
=============================================================================
