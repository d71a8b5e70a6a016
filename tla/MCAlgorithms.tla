----------------------------- MODULE MCAlgorithms -----------------------------
(***************************************************************************)
(* The parts of OCIHood that compute a value, in one instance: discovery   *)
(* over small inventories, the layers of the configuration, and the        *)
(* backoffs of MCBackoff.  They have nothing to do with each other: where  *)
(* one moves, the others rest.                                             *)
(***************************************************************************)
EXTENDS MCBackoff, Discovery, Configuration

CONSTANTS t1, t2   \* page tokens

MCPageTokens == {t1, t2}

\* Ubuntu images of one version, two of them of one day; an older and a
\* newer version; a newer image of something else; one of another compartment.
MCImages == { [id |-> 1, usable |-> TRUE,  version |-> 2, created |-> 1],
              [id |-> 2, usable |-> TRUE,  version |-> 2, created |-> 2],
              [id |-> 3, usable |-> TRUE,  version |-> 2, created |-> 2],
              [id |-> 4, usable |-> TRUE,  version |-> 1, created |-> 3],
              [id |-> 5, usable |-> TRUE,  version |-> 0, created |-> 3],
              [id |-> 6, usable |-> FALSE, version |-> 3, created |-> 1] }

Named(ids, fits) == {[id |-> i, fits |-> fits] : i \in ids}
Subnet(id, vcn, fits) == [id |-> id, vcn |-> vcn, fits |-> fits]
Shape(id, fits, architecture) == [id |-> id, fits |-> fits, architecture |-> architecture]

Base == [domains   |-> {1},
         shapes    |-> {Shape(1, TRUE, TRUE), Shape(2, FALSE, TRUE)},
         images    |-> {x \in MCImages : x.id = 2},
         vcns      |-> Named({1}, TRUE) \cup Named({2}, FALSE),
         subnets   |-> {Subnet(1, 1, TRUE), Subnet(2, 1, FALSE)},
         instances |-> {1, 2, 3}]

MCInventories ==
    {[Base EXCEPT !.images = s] : s \in {x \in SUBSET MCImages : Cardinality(x) <= 3}}
    \cup {[Base EXCEPT !.vcns = Named(s, TRUE), !.subnets = n] :
             s \in SUBSET {1, 2},
             n \in SUBSET {Subnet(1, 1, TRUE), Subnet(2, 2, TRUE), Subnet(3, 1, TRUE)}}
    \cup {[Base EXCEPT !.shapes = s] : s \in {{}, {Shape(1, TRUE, FALSE)},
             {Shape(1, TRUE, TRUE), Shape(2, TRUE, TRUE)}}}
    \cup {[Base EXCEPT !.domains = {}]}

MCWanted == {Alias, 2, 6}

-----------------------------------------------------------------------------
\* Layers that set the fields of s, at most.
Layers(s) == {[f \in Settings |-> IF f \in DOMAIN g THEN g[f] ELSE Unset] : g \in s}

Account(fields, overrides) == [f \in AccountFields \cup {"overrides"} |->
    CASE f = "overrides" -> overrides
      [] f \in DOMAIN fields -> fields[f]
      [] OTHER -> IF f \in {"compartment_id", "image_id"} THEN "ocid" ELSE ""]

Flags(s) == [f \in Settings \cup AccountFields |-> IF f \in DOMAIN s THEN s[f] ELSE Unset]

\* One group of settings in the file's defaults, the overrides and the flags.
Group(inFile, asFlags) ==
    {[defaults |-> d, account |-> Account(<< >>, o), flags |-> Flags(g)] :
        d \in Layers(inFile), o \in Layers(inFile), g \in asFlags}

\* Bounds beyond each other and beyond the built-in ones; limits of ranges.
Retries == [retry_min : {Unset, 0, 20, 1000}, retry_max : {Unset, 20, 1000}]
Sizes   == [ocpus : {Unset, 0, 2, 4}, max_ocpus : {Unset, 0, 4}, allow_exceed : {Unset, TRUE}]
Shapes  == [shape : {Unset, "", " ", "A1", "E2"},
            allowed_shapes : {Unset, << >>, <<"A1", "A1">>, <<"A1", "E2">>}]
Chats   == [enabled : {Unset, TRUE, FALSE}, telegram_chat_id : {Unset, " ", "me"},
            telegram_token_env : {Unset, "TOKEN"}]
Ranges  == [failures : {Unset, 0, 100, 101}, open_timeout : {Unset, 3600, 3601}]

Networks == {"vcn_id", "vcn_name", "subnet_id", "subnet_name"}

MCCases == Group(Retries, Retries)
           \cup Group(Sizes, [ocpus : {Unset, 0, 2, 4}])
           \cup Group(Shapes, [shape : {Unset, "", " ", "A1", "E2"}])
           \cup Group(Chats, {<< >>}) \cup Group(Ranges, {<< >>})
           \cup {[defaults |-> NoSettings, account |-> Account(fields, NoSettings),
                  flags |-> Flags(g)] :
                    fields \in [Networks -> {"", "x"}], g \in [Networks -> {Unset, "", "y"}]}

-----------------------------------------------------------------------------
backoffVars == <<minimum, maximum, retry>>

BackoffRests == minimum = 1 /\ maximum = 1 /\ retry = Width + 2
DiscoveryRests == /\ inventory = Base /\ imageID = Alias /\ stage = "domains"
                  /\ page = FirstPage /\ got = << >> /\ seen = {} /\ outcome = "idle"
                  /\ picked = [image |-> 0, vcn |-> 0, subnet |-> 0, instances |-> {}]
ConfigurationRests == /\ defaults = NoSettings /\ account = Account(<< >>, NoSettings)
                      /\ flags = Nothing /\ effective = Nothing /\ step = "refused"

AlgorithmsInit == \/ Init /\ DiscoveryRests /\ ConfigurationRests
                  \/ DiscoveryInit /\ BackoffRests /\ ConfigurationRests
                  \/ ConfigurationInit /\ BackoffRests /\ DiscoveryRests

AlgorithmsNext == \/ Next /\ UNCHANGED <<discoveryVars, configurationVars>>
                  \/ DiscoveryNext /\ UNCHANGED <<backoffVars, configurationVars>>
                  \/ ConfigurationNext /\ UNCHANGED <<backoffVars, discoveryVars>>

AlgorithmsSpec == /\ AlgorithmsInit
                  /\ [][AlgorithmsNext]_<<backoffVars, discoveryVars, configurationVars>>
                  /\ WF_discoveryVars(DiscoveryNext)
=============================================================================
