--------------------------- MODULE RouterConfig ----------------------------
(***************************************************************************)
(* The router's configuration, skrouterd.json in the config map            *)
(* iofog-router: createConfigMap and mergeConfigs                          *)
(* (controllers/controlplanes/k8s.go:532-701).                             *)
(*                                                                         *)
(* The operator's binary embeds a configuration with a version of its own  *)
(* (pot-config).  A pass merges it into the stored one when the versions   *)
(* differ, that is once after an upgrade or a downgrade of the operator.   *)
(* Others customise the stored configuration meanwhile.                    *)
(***************************************************************************)
EXTENDS Naturals, SequencesExt

CONSTANTS Releases,      \* the versions embedded in releases of the operator
          MaxVersions    \* bound: others write, and the operator is replaced,
                         \* up to this version of the config map

ASSUME ReleasesAssumption == Releases \subseteq Nat \ {0}
ASSUME VersionsAssumption == MaxVersions \in Nat

VARIABLES
  release,   \* the version embedded in the operator that runs
  maps,      \* the config map, from the informer's copy to the stored one
  pc,        \* where createConfigMap is
  found      \* existingConfigMap

vars == <<release, maps, pc, found>>

(***************************************************************************)
(* An entry of the configuration has a type, a name and a content, of      *)
(* which only the release it comes from is kept, 0 for any other origin.   *)
(* The entry "router" carries the version of the whole in its metadata.    *)
(***************************************************************************)
Types == {"router", "sslProfile", "listener", "address", "connector"}
EntryNames == {"default-router", "system-default", "router-site-server",
               "amqps", "mc", "other"}
Entry == [type : Types, name : EntryNames, from : Releases \cup {0}]

\* rv is 0 for a config map that does not exist.
ConfigMap == [rv : Nat, entries : Seq(Entry)]

map == maps[Len(maps)]

\* What release v embeds.  One entry stands for all that are treated alike:
\* "router" for "site", "router-site-server" for "router-local-server", "amqps"
\* for the other listeners, "mc" for "log".
Template(v) ==
  <<[type |-> "router", name |-> "default-router", from |-> v],
    [type |-> "sslProfile", name |-> "system-default", from |-> v],
    [type |-> "sslProfile", name |-> "router-site-server", from |-> v],
    [type |-> "listener", name |-> "amqps", from |-> v],
    [type |-> "address", name |-> "mc", from |-> v]>>

\* What others add: entries of a type the template has, or of another one.
Customs == {[type |-> t, name |-> "other", from |-> 0] :
              t \in {"sslProfile", "listener", "address", "connector"}}

TypeOK ==
  /\ release \in Releases
  /\ maps \in Seq(ConfigMap) /\ maps # << >>
  /\ pc \in {"idle", "put", "done"}
  /\ found \in ConfigMap

\* At first there is no config map, or one without a version.
Init ==
  /\ release \in Releases
  /\ maps \in {<<[rv |-> 0, entries |-> << >>]>>,
               <<[rv |-> 1, entries |-> Template(0)]>>}
  /\ pc = "idle"
  /\ found = map
-----------------------------------------------------------------------------
\* Mutant: the listeners of the template are forgotten.
MutShouldUpdate(e) ==
  \/ e.type \in {"router", "address"}
  \/ e.type = "sslProfile" /\ e.name = "router-site-server"

\* The entries an upgrade overwrites.
ShouldUpdate(e) ==
  \/ e.type \in {"router", "address"}
  \/ e.type = "sslProfile" /\ e.name = "router-site-server"
  \/ e.type = "listener" /\ e.name = "amqps"

\* The version in the metadata of the first router entry that has one, or 0.
ConfigVersion(entries) ==
  LET first == SelectInSeq(entries, LAMBDA e : e.type = "router" /\ e.from # 0)
  IN  IF first = 0 THEN 0 ELSE entries[first].from

\* existingMap: the last entry of a type, if there is one.
Existing(entries, type) ==
  LET last == SelectLastInSeq(entries, LAMBDA e : e.type = type)
  IN  IF last = 0 THEN << >> ELSE <<entries[last]>>

\* The entries that are not among those dropped, in their order.
Without(entries, dropped) ==
  LET kept[i \in 0..Len(entries)] ==
        IF i = 0 THEN << >>
        ELSE IF entries[i] \in dropped THEN kept[i - 1]
        ELSE Append(kept[i - 1], entries[i])
  IN  kept[Len(entries)]

\* Entries of new are taken over, or replaced by the existing one of their
\* type; all existing ones that are not overwritten follow.
Overlay(existing, new) ==
  FlattenSeq([i \in DOMAIN new |->
                IF ShouldUpdate(new[i]) THEN <<new[i]>>
                                        ELSE Existing(existing, new[i].type)])
    \o Without(existing, {e \in ToSet(existing) : ShouldUpdate(e)})

\* Mutant: the versions are not compared.
MutMergeConfigs(existing, new) == Overlay(existing, new)

MergeConfigs(existing, new) ==
  LET version == ConfigVersion(existing)
  IN  IF version # 0 /\ version = ConfigVersion(new)
        THEN existing ELSE Overlay(existing, new)
-----------------------------------------------------------------------------
PutEntries(entries) ==
  maps' = IF entries = map.entries
            THEN maps
            ELSE Append(maps, [rv |-> map.rv + 1, entries |-> entries])

\* A pass comes to createConfigMap: the Get.
Find ==
  /\ pc \in {"idle", "done"}
  /\ found' = Head(maps)
  /\ pc' = "put"
  /\ UNCHANGED <<release, maps>>

\* Mutant: the Update does not carry the version that was found.
MutInTime == (found.rv = 0) = (map.rv = 0)

\* The Create finds no config map, the Update the version it was made from.
InTime == found.rv = map.rv

\* The Create or the Update.
Put ==
  /\ pc = "put"
  /\ InTime
  /\ PutEntries(IF found.rv = 0
                  THEN Template(release)
                  ELSE MergeConfigs(found.entries, Template(release)))

PutSucceeds ==
  /\ Put
  /\ pc' = "done"
  /\ UNCHANGED <<release, found>>

\* A conflict, or a config map that exists already: the error requeues.
Refused ==
  /\ pc = "put"
  /\ ~InTime
  /\ pc' = "idle"
  /\ UNCHANGED <<release, maps, found>>

\* The call fails, on its way there or with its effect done.
PutFails ==
  /\ pc = "put"
  /\ Put \/ UNCHANGED maps
  /\ pc' = "idle"
  /\ UNCHANGED <<release, found>>

Deliver ==
  /\ Len(maps) > 1
  /\ maps' = Tail(maps)
  /\ UNCHANGED <<release, pc, found>>

\* Mutant: a release may embed a configuration without a version.
MutReplace ==
  /\ map.rv < MaxVersions
  /\ release' \in Releases \cup {0}
  /\ pc' = "idle"
  /\ maps' = <<map>>
  /\ UNCHANGED found

\* The operator's process is replaced, by the same release or another one.
Replace ==
  /\ map.rv < MaxVersions
  /\ release' \in Releases
  /\ pc' = "idle"
  /\ maps' = <<map>>
  /\ UNCHANGED found

\* Others add an entry of theirs at the end, or take it out.  What an upgrade is
\* to overwrite anyway they leave alone, but for adding an address.
Customise ==
  /\ map.rv \in 1..(MaxVersions - 1)
  /\ \E e \in Customs :
        PutEntries(IF Contains(map.entries, e)
                     THEN Without(map.entries, {e})
                     ELSE Append(map.entries, e))
  /\ UNCHANGED <<release, pc, found>>

Next ==
  \/ Find \/ PutSucceeds \/ Refused \/ PutFails
  \/ Deliver \/ Replace \/ Customise

Spec == Init /\ [][Next]_vars
-----------------------------------------------------------------------------
(***************************************************************************)
(* Properties.                                                             *)
(***************************************************************************)
EntriesOf(m) == ToSet(m.entries)

\* When createConfigMap has succeeded, the stored configuration is that of the
\* running release: it has its version and the operator's entries, all of the
\* template but "system-default", in the form of that release (k8s.go:644-648),
\* whatever was stored before, customised meanwhile or read too late.
UpgradeIsComplete ==
  pc = "done" =>
    /\ ConfigVersion(map.entries) = release
    /\ \A e \in ToSet(Template(release)) :
          e.name # "system-default" => e \in EntriesOf(map)

\* The operator never takes out what others added, addresses excepted: not by a
\* merge, and not by writing back an old copy (k8s.go:656-660, 700).
CustomsAreKept ==
  [][~Customise =>
       \A e \in EntriesOf(map) \cap Customs :
         e.type # "address" => e \in EntriesOf(map')]_vars

\* Once the configuration has the version of the running release, passes leave
\* it as it is (k8s.go:620-622): the entries that a merge adds again do not pile
\* up with every pass.
MergedOnce ==
  [][ConfigVersion(map.entries) = release /\ map' # map => Customise]_vars

\* What the comments at k8s.go:650 and 655 say of the merge: an entry that is
\* not updated is kept, and those that were not in the new configuration are
\* added; so each is there, once.
EachEntryOnce ==
  [][(pc = "put" /\ pc' = "done" /\ map' # map) =>
       \A e \in EntriesOf(found) \cup ToSet(Template(release)) :
         \E i \in DOMAIN map'.entries : \A j \in DOMAIN map'.entries :
           (map'.entries[j].type = e.type /\ map'.entries[j].name = e.name)
             <=> i = j]_vars
=============================================================================
