------------------------------ MODULE Discovery ------------------------------
(***************************************************************************)
(* One call of discovery.Discover (internal/discovery/discovery.go): the   *)
(* paginated listings, one after the other, and the selection of shape,    *)
(* image, VCN and subnet that make up the target.                          *)
(*                                                                         *)
(* The inventory stands still; the provider cuts it into pages and orders  *)
(* them as it likes, and may even send the reader round in circles.  The   *)
(* filters by compartment, id and name are folded into `fits`.             *)
(***************************************************************************)
EXTENDS Integers, Sequences, SequencesExt

CONSTANTS Inventories,  \* what the provider may hold
          PageTokens,   \* tokens of follow-up pages
          FirstPage,    \* the empty token
          Wanted        \* values of image_id: an image, or Alias
Alias == 0              \* image_id: ubuntu

\* An image's `version` is 0 if it is no "<major>.<minor>" of Canonical
\* Ubuntu, and grows with the version otherwise.
Images == [id : Nat, usable : BOOLEAN, version : Nat, created : Nat]

\* The listings that come in pages.
Lists == {"shapes", "images", "vcns", "subnets", "instances"}

\* Listings end, and no two images have the same id.
ASSUME DiscoveryAssumption ==
    \A held \in Inventories :
        /\ \A list \in Lists : IsFiniteSet(held[list])
        /\ held.images \subseteq Images
        /\ \A x, y \in held.images : x.id = y.id => x = y

\* The provider hands out finitely many tokens; all itself has no limit of pages.
ASSUME TokensAssumption == IsFiniteSet(PageTokens)

VARIABLES inventory, imageID,
          stage,      \* the listing that is being read
          page,       \* all: page
          got,        \* all: result
          seen,       \* all: seen
          picked,     \* what has been selected so far
          outcome     \* "running", "found" or the Kind of the error

discoveryVars == <<inventory, imageID, stage, page, got, seen, picked, outcome>>

DiscoveryInit == /\ inventory \in Inventories
                 /\ imageID \in Wanted
                 /\ stage = "domains"
                 /\ page = FirstPage
                 /\ got = << >>
                 /\ seen = {}
                 /\ picked = [image |-> 0, vcn |-> 0, subnet |-> 0, instances |-> {}]
                 /\ outcome = "running"

Running(s) == stage = s /\ outcome = "running"

Ends(kind) == outcome' = kind /\ UNCHANGED <<stage, page, got, seen, picked>>

\* The next listing starts over.
Continue(next) == /\ stage' = next
                  /\ page' = FirstPage
                  /\ got' = << >>
                  /\ seen' = {}
                  /\ UNCHANGED outcome

-----------------------------------------------------------------------------
(* all: one listing, page by page.                                         *)

\* The subnets are asked for by VCN.
Offered == IF stage = "subnets" THEN {s \in inventory.subnets : s.vcn = picked.vcn}
           ELSE inventory[stage]

Rest == Offered \ ToSet(got)

\* The whole listing, once its last page has come in.
Completed == {got \o items : items \in SetToSeqs(Rest)}

\* Faulty: the token is not remembered.
NextPage_Forgets ==
    /\ outcome = "running" /\ stage \in Lists
    /\ \E token \in PageTokens \ seen, items \in SetToAllKPermutations(Rest) :
          /\ page' = token
          /\ got' = got \o items
          /\ seen' = seen
    /\ UNCHANGED <<stage, picked, outcome>>

NextPage == /\ outcome = "running" /\ stage \in Lists
            /\ \E token \in PageTokens \ seen, items \in SetToAllKPermutations(Rest) :
                  /\ page' = token
                  /\ got' = got \o items
                  /\ seen' = seen \cup {token}
            /\ UNCHANGED <<stage, picked, outcome>>

RepeatedPage == /\ outcome = "running" /\ stage \in Lists
                /\ seen # {}
                /\ Ends("provider")

\* A request fails, or the context is done.
RequestFails == /\ outcome = "running"
                /\ \E kind \in {"provider", "canceled"} : Ends(kind)

-----------------------------------------------------------------------------
(* The selections.                                                         *)

\* The places of a listing at which there is a candidate.
Fits(read) == {i \in DOMAIN read : read[i].fits}

OfVCN(read) == {i \in Fits(read) : read[i].vcn = picked.vcn}

\* one: the only candidate of a listing.
One(read, places, field, next) ==
    CASE places = {} -> Ends("not_found")
      [] \E i, j \in places : i # j -> Ends("ambiguous")
      [] OTHER -> /\ \E i \in places : picked' = [picked EXCEPT ![field] = read[i].id]
                  /\ Continue(next)

\* ListImages: newest first, then by id; sort.Slice may yield any such order.
Before(x, y) == \/ x.created > y.created
                \/ x.created = y.created /\ x.id < y.id

\* Faulty: relies on the order in which the pages came in.
NewestFirst_AsListed(read) == {read}

NewestFirst(read) == {images \in SetToSeqs(ToSet(read)) :
                         \A i, j \in DOMAIN images : i < j => ~Before(images[j], images[i])}

\* The place of the image, 0 if there is none: a later image replaces an earlier
\* one only if its version is higher.
SelectImage(images) ==
    IF imageID = Alias
    THEN SelectInSeq(images, LAMBDA x :
             x.version > 0 /\ \A y \in ToSet(images) : y.version <= x.version)
    ELSE SelectInSeq(images, LAMBDA x : x.id = imageID /\ x.usable)

DomainsRead == /\ Running("domains")
               /\ IF inventory.domains = {} THEN Ends("not_found")
                  ELSE Continue("shapes") /\ UNCHANGED picked

ShapesRead == /\ Running("shapes")
              /\ \E read \in Completed :
                    LET places == Fits(read)
                    IN  CASE places = {} -> Ends("not_found")
                          [] \E i, j \in places : i # j -> Ends("ambiguous")
                          [] OTHER -> IF \E i \in places : read[i].architecture
                                      THEN Continue("images") /\ UNCHANGED picked
                                      ELSE Ends("provider")

ImagesRead == /\ Running("images")
              /\ \E read \in Completed : \E images \in NewestFirst(read) :
                    One(images, {SelectImage(images)} \ {0}, "image", "vcns")

VCNsRead == /\ Running("vcns")
            /\ \E read \in Completed : One(read, Fits(read), "vcn", "subnets")

SubnetsRead == /\ Running("subnets")
               /\ \E read \in Completed : One(read, OfVCN(read), "subnet", "instances")

InstancesRead == /\ Running("instances")
                 /\ \E read \in Completed :
                       picked' = [picked EXCEPT !.instances = ToSet(read)]
                 /\ outcome' = "found"
                 /\ UNCHANGED <<stage, page, got, seen>>

Select == DomainsRead \/ ShapesRead \/ ImagesRead \/ VCNsRead \/ SubnetsRead \/ InstancesRead

DiscoveryNext == /\ NextPage \/ RepeatedPage \/ RequestFails \/ Select
                 /\ UNCHANGED <<inventory, imageID>>

DiscoverySpec == /\ DiscoveryInit
                 /\ [][DiscoveryNext]_discoveryVars
                 /\ WF_discoveryVars(DiscoveryNext)

-----------------------------------------------------------------------------
\* What the inventory determines.
Fitting(list) == {x \in inventory[list] : x.fits}
Newest ==
    LET ubuntu == {x \in inventory.images : x.version > 0}
        latest == {x \in ubuntu : \A y \in ubuntu : y.version <= x.version}
        newest == {x \in latest : \A y \in latest : y.created <= x.created}
    IN  {x \in newest : \A y \in newest : x.id <= y.id}
Meant == IF imageID = Alias THEN Newest ELSE {x \in inventory.images : x.id = imageID /\ x.usable}
Within(vcn) == {x \in Fitting("subnets") : x.vcn = vcn}
Sought == CASE stage = "domains" -> inventory.domains
            [] stage = "images" -> Meant
            [] stage = "subnets" -> Within(picked.vcn)
            [] OTHER -> Fitting(stage)

(* discovery.go:1, "deterministically resolves": the target, and with it   *)
(* the record and the lock of a run, depend on it.  However the listings   *)
(* were cut and ordered, what has been selected is what the inventory      *)
(* determines, nothing is missing from the list of instances, and a        *)
(* selection fails only if there is no candidate or more than one.         *)
AsInventoried ==
    /\ outcome = "not_found" => Sought = {}
    /\ outcome = "ambiguous" => \E x, y \in Sought : x # y
    /\ outcome = "found" =>
          /\ {x.id : x \in Meant} = {picked.image}
          /\ {x.id : x \in Fitting("vcns")} = {picked.vcn}
          /\ {x.id : x \in Within(picked.vcn)} = {picked.subnet}
          /\ picked.instances = inventory.instances

(* README: "paginates every OCI list operation"; all: "provider repeated a *)
(* pagination token".  No circle of tokens, of whatever length and entered *)
(* anywhere, keeps a discovery reading: it ends, given TokensAssumption.   *)
DiscoveryEnds == <>(outcome # "running")
=============================================================================
