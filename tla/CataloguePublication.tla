------------------------- MODULE CataloguePublication -------------------------
(* What the gateway knows of one table: a publication reconciles its columns *)
(* with the stored elements (catalog/domain/catalog.ts,                      *)
(* application/introspection-diff.ts, the catalogue part of                  *)
(* sources/infrastructure/postgres-introspection-store.ts), administrators   *)
(* declare how their values are read (catalog/infrastructure/declarations.ts,*)
(* temporal.ts, token-declarations.ts) and decide on them for one pool.      *)
(* Every writer holds the row of the source, so a write is one step.         *)
EXTENDS Integers, SequencesExt

CONSTANTS
  None,
  Base,          \* the exposed name an identifier asks for, None without one
  SourceType,    \* among those Exposes knows
  Snapshot,      \* what the source may show of the table: by identifier, the
                 \* column's stable reference and type; all hidden or dropped,
                 \* the table is not shown at all
  Setting,       \* discovery settings of projects: rename, family, adopt
  MaxReleases,   \* releases of the gateway that map other types
  MaxPublications,
  MaxCommands    \* declarations and decisions

VARIABLES
  mapped,        \* source types this release of the gateway maps
  releases, publications, commands,
  settings,
  element,       \* stored elements, their identity being their index
  declared,      \* per element: zone, epoch, domain, key
  schemaZone,
  decision,      \* per element: None, or the treatment and what it was made on
  told           \* what the last write was told, or told

release == <<mapped, releases, settings>>
vars == <<mapped, releases, publications, commands, settings, element, declared, schemaZone, decision, told>>

Exposes == [int4 |-> "INTEGER", int8 |-> "BIGINT", text |-> "VARCHAR",
            timestamp |-> "TIMESTAMP", timestamptz |-> "TIMESTAMPTZ"]
mapSourceType(t) == IF t \in mapped THEN Exposes[t] ELSE None
family(exposed) ==
  CASE exposed \in {"INTEGER", "BIGINT"} -> "number"
    [] exposed = "VARCHAR" -> "text"
    [] exposed \in {"TIMESTAMP", "TIMESTAMPTZ"} -> "timestamp"
    [] OTHER -> "unsupported"
Undeclared == [zone |-> None, epoch |-> FALSE, domain |-> None, key |-> FALSE]

Init ==
  /\ mapped = SourceType /\ releases = 0 /\ publications = 0 /\ commands = 0 /\ settings \in Setting
  /\ element = <<>> /\ declared = <<>> /\ schemaZone = None /\ decision = <<>> /\ told = {}

(* Another release maps a type this one does not, or no longer does.        *)
Deploy == \E t \in SourceType :
  /\ releases < MaxReleases /\ releases' = releases + 1
  /\ mapped' = IF t \in mapped THEN mapped \ {t} ELSE mapped \cup {t}
  /\ UNCHANGED <<publications, commands, settings, element, declared, schemaZone, decision, told>>

------------------------------------------------------------------------------
(* A publication of what the source shows.                                  *)

(* CatalogNaming.assign: the first free name, numbered from the second.     *)
assign(n, reserved) ==
  IF Base[n] = None THEN None
  ELSE <<Base[n], CHOOSE k \in 1..(Cardinality(reserved) + 1) :
         <<Base[n], k>> \notin reserved /\ \A j \in 1..(k - 1) : <<Base[n], j>> \in reserved>>
NamesOf(es) == {es[e].name : e \in DOMAIN es} \ {None}

(* Renamed columns are new ones to a project that says so.                  *)
Matches(s, n) ==
  {e \in DOMAIN element : element[e].ref = s[n].ref /\ (settings.rename = "carry" \/ element[e].ident = n)}
Matched(s) == UNION {Matches(s, n) : n \in DOMAIN s}
ColumnOf(s, e) == CHOOSE n \in DOMAIN s : e \in Matches(s, n)
InOrder(s, names) == SetToSortSeq(names, LAMBDA n, m : s[n].ref < s[m].ref)

Discovered(s, n, name) ==
  [ident |-> n, ref |-> s[n].ref, type |-> s[n].type,
   exposed |-> mapSourceType(s[n].type), name |-> name, status |-> "active"]

Kept(s, e) ==
  IF e \in Matched(s) THEN Discovered(s, ColumnOf(s, e), element[e].name)
  ELSE IF element[e].status = "removed" THEN element[e]
  ELSE [element[e] EXCEPT !.status = "removed",
          !.ref = IF settings.rename = "new" /\ \E n \in DOMAIN s : s[n].ref = @ /\ n # element[e].ident
                  THEN None ELSE @]

(* CatalogObject.reconcile, before it is validated.                         *)
reconcile(s) ==
  FoldLeft(LAMBDA es, n : Append(es, Discovered(s, n, assign(n, NamesOf(es)))),
           [e \in DOMAIN element |-> Kept(s, e)],
           InOrder(s, {n \in DOMAIN s : Matches(s, n) = {}}))

validateElements(es) ==
  \A e, f \in DOMAIN es : e # f =>
    /\ es[e].ident # es[f].ident
    /\ es[e].name = None \/ es[e].name # es[f].name
    /\ es[e].ref = None \/ es[e].ref # es[f].ref

(* Mutant: the names of removed elements are free again.                    *)
OthersActive(es, e) == {es[f].name : f \in {x \in DOMAIN es \ {e} : es[x].status = "active"}} \ {None}

Others(es, e) == {es[f].name : f \in DOMAIN es \ {e}} \ {None}

(* Renamed elements take the names they now ask for, one after the other.   *)
Renamed(s) == {e \in Matched(s) : element[e].ident # ColumnOf(s, e)}
adoptRenamedName(s, es) ==
  IF ~settings.adopt THEN es
  ELSE FoldLeft(LAMBDA acc, n : LET e == CHOOSE x \in Matches(s, n) : TRUE
                                IN [acc EXCEPT ![e].name = assign(n, Others(acc, e))],
                es, InOrder(s, {n \in DOMAIN s : Matches(s, n) \cap Renamed(s) # {}}))

Lost(s, es) ==   \* the gateway itself no longer maps the type
  \E e \in Matched(s) : es[e].type = element[e].type /\ element[e].exposed # None /\ es[e].exposed = None
Unnamed(s, es) == settings.adopt /\ \E e \in Renamed(s) : es[e].name = None
Refused(s, es) == ~validateElements(reconcile(s)) \/ Lost(s, es) \/ Unnamed(s, es)

(* Mutant: an element that comes back is not compared with what it was.     *)
RetypedWhenActive(s, es) ==
  {e \in Matched(s) : element[e].status = "active" /\ <<element[e].type, element[e].exposed>> # <<es[e].type, es[e].exposed>>}

Retyped(s, es) == {e \in Matched(s) : <<element[e].type, element[e].exposed>> # <<es[e].type, es[e].exposed>>}
Repaired(s, es) == {e \in Retyped(s, es) : es[e].type = element[e].type /\ element[e].exposed = None /\ es[e].exposed # None}
FamilyChanged(s, es) ==
  {e \in Retyped(s, es) \ Repaired(s, es) :
     \/ family(element[e].exposed) # family(es[e].exposed)
     \/ family(element[e].exposed) = "unsupported" /\ element[e].type # es[e].type}

diff(s, es) ==
  LET new == DOMAIN es \ DOMAIN element
      Told(type, ids) == {<<type, e>> : e \in ids}
  IN UNION {Told("Added", {e \in new : es[e].exposed # None}),
            Told("Unnameable", {e \in new : es[e].name = None}),
            Told("Renamed", Renamed(s)),
            Told("Removed", {e \in DOMAIN element \ Matched(s) : element[e].status = "active"}),
            Told("Restored", {e \in Matched(s) : element[e].status = "removed"}),
            Told("Unsupported", {e \in DOMAIN es : es[e].status = "active" /\ es[e].exposed = None}),
            Told("NameAdopted", {e \in Renamed(s) : es[e].name # element[e].name}),
            Told("MappingRepaired", Repaired(s, es)),
            Told("TypeFamilyChanged", FamilyChanged(s, es)),
            Told("TypeChanged", Retyped(s, es) \ (Repaired(s, es) \cup FamilyChanged(s, es)))}

(* Decisions whose elements changed family are deleted once they are in the *)
(* diff; declarations are not the publication's to change.                  *)
Publish(s) ==
  LET es == adoptRenamedName(s, reconcile(s))
      deleted == IF settings.family = "revert" THEN FamilyChanged(s, es) ELSE {}
  IN /\ publications < MaxPublications /\ publications' = publications + 1
     /\ \/ /\ Refused(s, es) /\ told' = {<<"Refused", 0>>}
           /\ UNCHANGED <<element, declared, decision>>
        \/ /\ ~Refused(s, es) /\ element' = es /\ told' = diff(s, es)
           /\ declared' = [e \in DOMAIN es |-> IF e \in DOMAIN declared THEN declared[e] ELSE Undeclared]
           /\ decision' = [e \in DOMAIN es |-> IF e \in DOMAIN decision \ deleted THEN decision[e] ELSE None]
     /\ UNCHANGED <<release, schemaZone, commands>>

------------------------------------------------------------------------------
(* Declarations and decisions.                                              *)
Active(e) == element[e].status = "active"
Tokenized(e) == decision[e] # None /\ decision[e].treatment = "tokenized"
Zone(d) == IF d.zone = None THEN schemaZone ELSE d.zone
IsKey(e) == Active(e) /\ declared[e].key /\ element[e].exposed # None

validateTemporalType(e, d) == d.epoch => family(element[e].exposed) = "number"
validateTokenizedTemporal(e, d, zone) ==
  validateTemporalType(e, d) /\ (element[e].exposed = "TIMESTAMP" => zone # None)

(* What decides whether tokens still match.                                 *)
tokenBehaviour(e, d, zone) ==
  [domain |-> d.domain, epoch |-> d.epoch,
   mode |-> IF d.epoch THEN "timestamp" ELSE family(element[e].exposed),
   zone |-> IF element[e].exposed = "TIMESTAMP" THEN zone ELSE None]

(* Only a command that needs to be confirmed is.                            *)
Command(needed) ==
  /\ commands < MaxCommands /\ commands' = commands + 1
  /\ told' = IF needed THEN {<<"Confirmed", 0>>} ELSE {}
  /\ UNCHANGED <<release, publications, element>>

(* Mutant: only the keys of living columns are taken back.                  *)
WithKeyOfActive(e, d) ==
  [f \in DOMAIN declared |->
     IF f = e THEN d ELSE IF d.key /\ Active(f) THEN [declared[f] EXCEPT !.key = FALSE] ELSE declared[f]]

(* The new key of a table is the only one, removed columns included.        *)
WithKey(e, d) ==
  [f \in DOMAIN declared |->
     IF f = e THEN d ELSE IF d.key /\ ~declared[e].key THEN [declared[f] EXCEPT !.key = FALSE] ELSE declared[f]]

(* DeclarationRepository.save: all of an element's declarations.            *)
SaveNeeds(e, d) ==
  Tokenized(e) /\ tokenBehaviour(e, declared[e], Zone(declared[e])) # tokenBehaviour(e, d, Zone(d))
Save(e, d) ==
  /\ Active(e) /\ Command(SaveNeeds(e, d)) /\ d # declared[e]
  /\ d.key /\ ~declared[e].key => element[e].exposed # None
  /\ ~d.key /\ declared[e].key =>
       \A f \in DOMAIN decision : decision[f] # None => decision[f].treatment # "aggregate_only"
  /\ validateTemporalType(e, d) /\ (Tokenized(e) => validateTokenizedTemporal(e, d, Zone(d)))
  /\ declared' = WithKey(e, d) /\ UNCHANGED <<schemaZone, decision>>

(* Mutant: the unit is not thought to matter.                               *)
TemporalNeedsZone(e, d) == Tokenized(e) /\ element[e].exposed = "TIMESTAMP" /\ Zone(d) # Zone(declared[e])

(* PostgresTemporalRepository.setElement, of removed elements too.          *)
TemporalNeeds(e, d) ==
  /\ Tokenized(e)
  /\ \/ element[e].exposed = "TIMESTAMP" /\ Zone(d) # Zone(declared[e])
     \/ d.epoch # declared[e].epoch
SetTemporal(e, zone, epoch) ==
  LET d == [declared[e] EXCEPT !.zone = zone, !.epoch = epoch]
  IN /\ Command(TemporalNeeds(e, d)) /\ d # declared[e]
     /\ validateTemporalType(e, d) /\ (Tokenized(e) => validateTokenizedTemporal(e, d, Zone(d)))
     /\ declared' = [declared EXCEPT ![e] = d] /\ UNCHANGED <<schemaZone, decision>>

(* PostgresTokenDeclarations.setElement.                                    *)
SetDomain(e, domain) ==
  /\ Command(Tokenized(e)) /\ domain # declared[e].domain
  /\ declared' = [declared EXCEPT ![e].domain = domain] /\ UNCHANGED <<schemaZone, decision>>

(* Those that inherit the schema's zone: removed elements are not let off.  *)
Inheritors == {e \in DOMAIN element : declared[e].zone = None /\ Tokenized(e)}

SetSchema(zone) ==
  /\ element # <<>> /\ zone # schemaZone
  /\ Command(\E e \in Inheritors : element[e].exposed = "TIMESTAMP")
  /\ \A e \in Inheritors : validateTokenizedTemporal(e, declared[e], zone)
  /\ schemaZone' = zone /\ UNCHANGED <<declared, decision>>

(* PostgresEntitlements.set.                                                *)
Decide(e, treatment) ==
  /\ Active(e) /\ element[e].exposed # None /\ Command(FALSE)
  /\ treatment = "aggregate_only" => \E k \in DOMAIN element : IsKey(k)
  /\ treatment = "tokenized" => validateTokenizedTemporal(e, declared[e], Zone(declared[e]))
  /\ decision' = [decision EXCEPT ![e] = [treatment |-> treatment, ref |-> element[e].ref,
                                        family |-> family(element[e].exposed)]]
  /\ UNCHANGED <<declared, schemaZone>>

Zones == {None, "zone"}
Domains == {None, "shared"}
Next ==
  \/ Deploy
  \/ \E s \in Snapshot : Publish(s)
  \/ \E e \in DOMAIN element, zone \in Zones, epoch \in BOOLEAN : SetTemporal(e, zone, epoch)
  \/ \E e \in DOMAIN element, domain \in Domains : SetDomain(e, domain)
  \/ \E e \in DOMAIN element, zone \in Zones, domain \in Domains, epoch, key \in BOOLEAN :
       Save(e, [zone |-> zone, epoch |-> epoch, domain |-> domain, key |-> key])
  \/ \E zone \in Zones : SetSchema(zone)
  \/ \E e \in DOMAIN element, t \in {"clear", "tokenized", "aggregate_only"} : Decide(e, t)

Spec == Init /\ [][Next]_vars

------------------------------------------------------------------------------
(* Names, identifiers and references stay distinct, also after the renamed  *)
(* took new names and the removed came back; a table has one contributor    *)
(* key, and one as long as a decision rests on it.                          *)
OneNameOneKey ==
  /\ validateElements(element)
  /\ \A e, f \in DOMAIN declared : declared[e].key /\ declared[f].key => e = f
  /\ (\E e \in DOMAIN decision : decision[e] # None /\ decision[e].treatment = "aggregate_only") =>
       \E k \in DOMAIN declared : declared[k].key

(* A decision stands on the column and the family of types it was made on,  *)
(* through renames, removals, restorations and new releases, unless the     *)
(* project carries decisions over changes of family.                        *)
DecisionsKeepTheirGround ==
  \A e \in DOMAIN decision : decision[e] # None =>
    /\ element[e].ref \in {None, decision[e].ref}
    /\ settings.family = "revert" => family(element[e].exposed) = decision[e].family

(* The tokens of a tokenised element change only by a confirmed command or  *)
(* a publication whose diff has the change of type; only such a publication *)
(* leaves a tokenised timestamp without a zone.                             *)
ZoneLess(e) == Tokenized(e) /\ element[e].exposed = "TIMESTAMP" /\ Zone(declared[e]) = None
TokensChangeKnowingly ==
  [][\A e \in DOMAIN element : Tokenized(e) /\ Tokenized(e)' =>
       LET typed == told' \cap {<<"TypeChanged", e>>, <<"TypeFamilyChanged", e>>, <<"MappingRepaired", e>>}
       IN /\ tokenBehaviour(e, declared[e], Zone(declared[e])) #
               tokenBehaviour(e, declared[e], Zone(declared[e]))' => <<"Confirmed", 0>> \in told' \/ typed # {}
          /\ ZoneLess(e)' => ZoneLess(e) \/ typed # {}]_vars

(* An element keeps its exposed name unless a project that adopts names is  *)
(* told, and loses a decision only where the diff tells why.                *)
NamesAndDecisionsGoTold ==
  [][\A e \in DOMAIN element :
       /\ element'[e].name # element[e].name => settings.adopt /\ <<"NameAdopted", e>> \in told'
       /\ decision[e] # None /\ decision'[e] = None => <<"TypeFamilyChanged", e>> \in told']_vars

(* Not the code's: a tokenised timestamp always has a zone (a publication   *)
(* that turns timestamptz into timestamp keeps the decision).               *)
TimestampsHaveAZone == \A e \in DOMAIN element : ~ZoneLess(e)

(* Not the code's: what maps is published (a column that is dropped and made*)
(* again under its identifier is refused for ever).                         *)
SoundSourcesArePublished == mapped = SourceType => <<"Refused", 0>> \notin told
==============================================================================
