----------------------------- MODULE PackedChart -----------------------------
(***************************************************************************)
(* The packed form of a chart: its atoms, the identity that stands for its *)
(* meaning, the writer, the reader and the objects a chart is lowered to.  *)
(* A chart has                                                             *)
(*   entities [identity, parent, components, requirements], of which an    *)
(*            identity is [generated, id, scope, path], a parent <<>> or   *)
(*            <<identity>>, a component [kind, fields] and a requirement   *)
(*            [name, kind, interval, beat, end, category, domain, action,  *)
(*            lanes, effects],                                             *)
(*   camera   [type, lens, position, turned], and its tempo and stops.     *)
(* Names, assets and ids are numbers, in the order of their bytes, and so  *)
(* are the values of fields (all finite, and not -0).  A section is what   *)
(* its bytes say, its indices from 1; where they say nothing the reader    *)
(* refuses.  SHA-256 and CRC-32 have no collisions here.                   *)
(***************************************************************************)
EXTENDS ChartCompiler

CONSTANTS
    Radix,       \* a power of 2: the numbers of a byte of LEB128
    FeatureName, DomainName, ActionName, \* what is registered
    MaxLane,
    PackedLimits \* [entities, requirements, strings, references]

-------------------------------------------------------------------------------
(* Atoms.  An unsigned number is written in groups, the lowest first, all  *)
(* but the last marked by adding Radix.                                    *)
MaxWord == 2 * MaxInt + 1
MaxGroups == CHOOSE n \in 1..MaxWord : Radix^n > MaxWord /\ Radix^(n - 1) <= MaxWord

Leb128(value) ==
    LET Rest[n \in 0..MaxWord] ==
          IF n < Radix THEN <<n>> ELSE <<(n % Radix) + Radix>> \o Rest[n \div Radix]
    IN  Rest[value]

NotRead == -1
ReadLeb128(bytes, max) ==
    LET last == SelectInSeq(bytes, LAMBDA byte : byte < Radix)
        value == Total([i \in 1..last |-> (bytes[i] % Radix) * Radix^(i - 1)])
    IN  IF \/ last \notin 1..MaxGroups
           \/ last = MaxGroups /\ bytes[last] > MaxWord \div Radix^(MaxGroups - 1)
           \/ last > 1 /\ bytes[last] = 0
           \/ value > max
          THEN NotRead ELSE value

ZigZag(value) == IF value < 0 THEN 2 * Magnitude(value) - 1 ELSE 2 * value
UnZigZag(code) == IF code % 2 = 0 THEN code \div 2 ELSE -(code \div 2) - 1

BeatAtom(beat) == <<ZigZag(beat.numerator), beat.denominator>>
ReadBeatAtom(atom) ==
    LET beat == Create(UnZigZag(atom[1]), atom[2])
    IN  IF beat = Fraction(UnZigZag(atom[1]), atom[2]) THEN beat ELSE Refused

(* A beat of a grid is written as the difference from the one before it.   *)
GridDelta(beat, denominator, previous) ==
    LET factor == denominator \div beat.denominator
        scaled == beat.numerator * factor
    IN  IF \/ denominator % beat.denominator # 0
           \/ MultiplyOverflows(beat.numerator, factor)
           \/ scaled - previous \notin Word
          THEN NotRead ELSE ZigZag(scaled - previous)
ReadGridDelta(code, denominator, previous) ==
    IF AddOverflows(previous, UnZigZag(code)) THEN Refused
    ELSE Create(previous + UnZigZag(code), denominator)

-------------------------------------------------------------------------------
(* Order.  IsBelow is that of bytes: a prefix comes first.                 *)
IsBelow(one, two) ==
    \E i \in DOMAIN two :
       /\ i <= Len(one) => one[i] < two[i]
       /\ \A j \in 1..(i - 1) : j <= Len(one) /\ one[j] = two[j]

InOrder(S, Less(_, _)) ==
    [i \in 1..Cardinality(S) |-> CHOOSE x \in S : Cardinality({y \in S : Less(y, x)}) = i - 1]
Rises(seq) == \A i \in 2..Len(seq) : IsBelow(seq[i - 1], seq[i])

Explicit(id) == [generated |-> FALSE, id |-> id, scope |-> <<>>, path |-> <<>>]

(* canonicalIdentityBytes.                                                 *)
IdentityBytes(identity) ==
    IF identity.generated
      THEN <<1, identity.id>> \o identity.scope \o <<Len(identity.path)>>
             \o FlattenSeq([i \in DOMAIN identity.path |->
                              <<identity.path[i].node, identity.path[i].iteration>>])
      ELSE <<0, identity.id>>

EntitiesInOrder(entities) ==
    SortSeq(entities, LAMBDA one, two : IsBelow(IdentityBytes(one.identity), IdentityBytes(two.identity)))

RequirementsInOrder(requirements) == SortSeq(requirements, LAMBDA one, two : one.name < two.name)

(* The kinds of component are 1 transform, 2 renderable and 3 camera.      *)
Kinds == 1..3
KindBit == <<1, 2, 16>>
RequirementBit == 4
Perspective == 1
HasBit(mask, bit) == (mask \div bit) % 2 = 1

FieldsOf(entity, kind) ==
    LET at == SelectInSeq(entity.components, LAMBDA component : component.kind = kind)
    IN  IF at = 0 THEN <<>> ELSE entity.components[at].fields
ComponentMask(entity) ==
    Total([kind \in Kinds |-> IF FieldsOf(entity, kind) = <<>> THEN 0 ELSE KindBit[kind]])
      + IF entity.requirements = <<>> THEN 0 ELSE RequirementBit

(* The uses of assets that follow from a chart.                            *)
ClosureOf(chart) ==
    {<<chart.music, "music">> : music \in {chart.music} \ {0}}
    \cup UNION {{<<FieldsOf(entity, 2)[1], "mesh">>, <<FieldsOf(entity, 2)[2], "material">>} :
                   entity \in {e \in ToSet(chart.entities) : FieldsOf(e, 2) # <<>>}}

(* The chart that a packed one is read as.                                 *)
CanonicalChart(chart) ==
    LET entities == EntitiesInOrder(chart.entities)
        components(entity) ==
          SelectSeq([kind \in Kinds |-> [kind |-> kind, fields |-> FieldsOf(entity, kind)]],
                    LAMBDA component : component.fields # <<>>)
    IN  [chart EXCEPT !.tempo = InBeatOrder(@), !.stops = StopsInOrder(@), !.closure = ClosureOf(chart),
                      !.entities = [i \in DOMAIN entities |->
                          [entities[i] EXCEPT !.components = components(entities[i]),
                                              !.requirements = RequirementsInOrder(@)]]]

(* validateFoundationProfile.                                              *)
RequirementIsRegistered(requirement) ==
    /\ requirement.kind = "tap" /\ requirement.interval = "point" /\ requirement.end = <<>>
    /\ requirement.domain = DomainName /\ requirement.action = ActionName
    /\ Len(requirement.lanes) = 1 /\ requirement.lanes[1] \in 0..MaxLane
    /\ requirement.effects = <<>>

ProfileAccepts(chart) ==
    /\ \A feature \in ToSet(chart.features) : feature = [id |-> FeatureName, version |-> 1]
    /\ \A entity \in ToSet(chart.entities) :
          /\ entity.requirements # <<>> => chart.features # <<>>
          /\ \A requirement \in ToSet(entity.requirements) : RequirementIsRegistered(requirement)

(* semanticPreimage: what it refuses, and what it hashes.                  *)
IdentityFits(chart, identity) ==
    identity.generated =>
       identity.id = chart.id /\ identity.path # <<>> /\ Last(identity.path).iteration = 0

ParentsEnd(parents) ==
    LET Above[n \in 0..Len(parents), i \in 0..Len(parents)] ==
          IF i = 0 \/ n = 0 THEN i ELSE Above[n - 1, parents[i]]
    IN  \A i \in DOMAIN parents : Above[Len(parents), i] = 0

OrdinalOf(entities, parent) ==
    IF parent = <<>> THEN 0 ELSE SelectInSeq(entities, LAMBDA entity : entity.identity = parent[1])

HasPreimage(chart) ==
    LET entities == EntitiesInOrder(chart.entities)
    IN  /\ chart.camera.type = Perspective /\ ~chart.camera.turned
        /\ AllDiffer([i \in DOMAIN chart.features |-> chart.features[i].id])
        /\ AllDiffer([i \in DOMAIN chart.tempo |-> chart.tempo[i].start])
        /\ AllDiffer([i \in DOMAIN chart.stops |-> chart.stops[i].beat])
        /\ chart.closure = ClosureOf(chart)
        /\ \A i \in DOMAIN entities :
              /\ IdentityFits(chart, entities[i].identity)
              /\ entities[i].parent # <<>> => OrdinalOf(entities, entities[i].parent) # 0
              /\ AllDiffer([k \in DOMAIN entities[i].components |-> entities[i].components[k].kind])
              /\ FieldsOf(entities[i], 3) # <<>> => FieldsOf(entities[i], 3)[1] = Perspective
              /\ AllDiffer([k \in DOMAIN entities[i].requirements |-> entities[i].requirements[k].name])
              /\ \A requirement \in ToSet(entities[i].requirements) :
                    /\ requirement.category = <<"judgement-domain", "action">>
                    /\ Len(requirement.lanes) = 1 /\ requirement.effects = <<>>
                    /\ (requirement.end # <<>>) = (requirement.interval = "range")
        /\ AllDiffer([i \in DOMAIN entities |-> entities[i].identity])
        /\ ParentsEnd([i \in DOMAIN entities |-> OrdinalOf(entities, entities[i].parent)])

Preimage(chart) ==
    LET canonical == CanonicalChart(chart)
        Entity(entity) == <<entity.identity, entity.parent, ComponentMask(entity),
                            entity.components, entity.requirements>>
    IN  <<chart.id, chart.music, chart.camera, ToSet(chart.features), chart.period,
          canonical.tempo, canonical.stops, {use[1] : use \in canonical.closure},
          [i \in DOMAIN canonical.entities |-> Entity(canonical.entities[i])]>>

-------------------------------------------------------------------------------
(* The writer.  The kinds of reference are 1 asset, 4 domain, 5 action and *)
(* 7 feature; the dictionaries are what indices refer to.                  *)
StringsOf(chart) ==
    {chart.id} \cup {feature.id : feature \in ToSet(chart.features)} \cup {use[1] : use \in ClosureOf(chart)}
    \cup UNION {ToSet(entity.identity.scope) \cup {step.node : step \in ToSet(entity.identity.path)}
                \cup (IF entity.identity.generated THEN {entity.identity.id} ELSE {})
                \cup UNION {{requirement.name, requirement.domain, requirement.action} :
                               requirement \in ToSet(entity.requirements)} :
                   entity \in ToSet(chart.entities)}

ReferencesOf(chart) ==
    {<<1, use[1]>> : use \in ClosureOf(chart)} \cup {<<7, feature.id>> : feature \in ToSet(chart.features)}
    \cup UNION {UNION {{<<4, requirement.domain>>, <<5, requirement.action>>} :
                          requirement \in ToSet(entity.requirements)} : entity \in ToSet(chart.entities)}

Dictionary(chart) ==
    [strings |-> InOrder(StringsOf(chart), <), references |-> InOrder(ReferencesOf(chart), IsBelow)]
StringRef(dictionary, name) == RankIn(dictionary.strings, name)
TypedRef(dictionary, kind, name) == RankIn(dictionary.references, <<kind, name>>)

(* The value of a field as it is written: an asset is a reference.         *)
Atom(dictionary, kind, field, value) ==
    IF kind = 2 /\ field \in {1, 2} THEN TypedRef(dictionary, 1, value) ELSE value
Atoms(dictionary, kind, fields) ==
    [field \in DOMAIN fields |-> Atom(dictionary, kind, field, fields[field])]

IdentitySection(dictionary, entities) ==
    LET generated == {entity.identity : entity \in {e \in ToSet(entities) : e.identity.generated}}
        labels(identity) ==
          [i \in DOMAIN identity.path |->
             <<identity.path[i].node, IF identity.path[i].iteration = 0 THEN 0 ELSE 1>>]
        scopes == InOrder({<<identity.id>> \o identity.scope : identity \in generated}, IsBelow)
        paths == InOrder({labels(identity) : identity \in generated},
                         LAMBDA one, two : IsBelow(FlattenSeq(one), FlattenSeq(two)))
        record(identity) ==
          [scope |-> RankIn(scopes, <<identity.id>> \o identity.scope),
           path |-> RankIn(paths, labels(identity)), id |-> identity.id,
           iterations |-> SelectSeq([i \in DOMAIN identity.path |-> identity.path[i].iteration],
                                    LAMBDA iteration : iteration # 0)]
    IN  [scopes |-> [i \in DOMAIN scopes |->
                       <<scopes[i][1]>> \o [k \in 1..3 |-> StringRef(dictionary, scopes[i][k + 1])]],
         paths |-> [i \in DOMAIN paths |->
                      [k \in DOMAIN paths[i] |-> <<StringRef(dictionary, paths[i][k][1]), paths[i][k][2]>>]],
         records |-> [i \in DOMAIN entities |->
                        IF entities[i].identity.generated THEN record(entities[i].identity)
                        ELSE [scope |-> 0, path |-> 0, id |-> entities[i].identity.id, iterations |-> <<>>]]]

(* One archetype of each mask; a default is the most frequent value, and   *)
(* the first of those.                                                     *)
DefaultOf(entities, mask, kind) ==
    LET values == SelectSeq([i \in DOMAIN entities |->
                               IF ComponentMask(entities[i]) = mask THEN FieldsOf(entities[i], kind) ELSE <<>>],
                            LAMBDA fields : fields # <<>>)
        count(fields) == Cardinality({i \in DOMAIN values : values[i] = fields})
    IN  IF values = <<>> THEN <<>>
        ELSE CHOOSE best \in ToSet(values) : \A other \in ToSet(values) \ {best} :
                count(other) < count(best) \/ (count(other) = count(best) /\ IsBelow(best, other))

ArchetypesOf(entities) ==
    LET masks == InOrder({ComponentMask(entity) : entity \in ToSet(entities)}, <)
    IN  [i \in DOMAIN masks |-> [mask |-> masks[i],
                                 defaults |-> [kind \in Kinds |-> DefaultOf(entities, masks[i], kind)]]]

(* A row of a stream is what differs from the default; a quaternion and a  *)
(* scale change as a whole.                                                *)
FieldBits == <<<<1, 8, 112>>, <<1, 2, 4>>, <<1, 2, 4, 8>>>>

(* A bug: only the first field that differs is written.                    *)
FirstChangedField(fields, default) ==
    LET changed == {field \in DOMAIN fields : fields[field] # default[field]}
    IN  {field \in changed : \A other \in changed : field <= other}

ChangedFields(fields, default) == {field \in DOMAIN fields : fields[field] # default[field]}

StreamSection(dictionary, entities, archetypes, kind) ==
    LET archetype(entity) == CHOOSE a \in ToSet(archetypes) : a.mask = ComponentMask(entity)
        changed(entity) == ChangedFields(FieldsOf(entity, kind), archetype(entity).defaults[kind])
        row(i) ==
          LET atoms == Atoms(dictionary, kind, FieldsOf(entities[i], kind))
              fields == SelectSeq([field \in DOMAIN atoms |-> field], LAMBDA field : field \in changed(entities[i]))
          IN  [ordinal |-> i,
               mask |-> Total([k \in DOMAIN fields |-> FieldBits[kind][fields[k]]]),
               values |-> [k \in DOMAIN fields |-> atoms[fields[k]]]]
    IN  SelectSeq([i \in DOMAIN entities |-> IF FieldsOf(entities[i], kind) = <<>>
                                               THEN [ordinal |-> 0, mask |-> 0, values |-> <<>>] ELSE row(i)],
                  LAMBDA one : one.ordinal # 0)

LanesOf(entities) ==
    InOrder(UNION {{requirement.lanes[1] : requirement \in ToSet(entity.requirements)} :
                      entity \in ToSet(entities)}, <)

RequirementSection(dictionary, entities) ==
    LET lanes == LanesOf(entities)
        row(requirement) ==
          [name |-> StringRef(dictionary, requirement.name), kind |-> 1, interval |-> 0,
           beat |-> requirement.beat, end |-> requirement.end,
           domain |-> TypedRef(dictionary, 4, requirement.domain),
           action |-> TypedRef(dictionary, 5, requirement.action),
           constraint |-> RankIn(lanes, requirement.lanes[1]), effect |-> 0]
        owned == FlattenSeq([i \in DOMAIN entities |->
                    LET requirements == RequirementsInOrder(entities[i].requirements)
                    IN  [k \in DOMAIN requirements |-> <<i, requirements[k]>>]])
        from(k) == IF k = 1 THEN 1 ELSE owned[k - 1][1]
    IN  [k \in DOMAIN owned |-> [delta |-> owned[k][1] - from(k)] @@ row(owned[k][2])]

(* encode: the sections in the order of their codes, those of rows without *)
(* any left out, and a directory of where each of them is.                 *)
CodesInOrder == <<"ARCH", "CAM0", "CNS0", "ENT0", "IDN0", "META", "REF0", "REN0", "REQ0", "STR0", "TIME", "TRN0">>
StreamCode == <<"TRN0", "REN0", "CAM0">>
Streams == ToSet(StreamCode)

SectionsOf(chart) ==
    LET entities == EntitiesInOrder(chart.entities)
        dictionary == Dictionary(chart)
        archetypes == ArchetypesOf(entities)
        lanes == LanesOf(entities)
        stream(kind) == StreamSection(dictionary, entities, archetypes, kind)
        features == chart.features
        all ==
          [STR0 |-> dictionary.strings,
           REF0 |-> [i \in DOMAIN dictionary.references |->
                       <<dictionary.references[i][1], StringRef(dictionary, dictionary.references[i][2])>>],
           META |-> [id |-> chart.id, camera |-> chart.camera,
                     music |-> IF chart.music = 0 THEN 0 ELSE TypedRef(dictionary, 1, chart.music),
                     features |-> [i \in DOMAIN features |->
                                     [ref |-> TypedRef(dictionary, 7, features[i].id),
                                      version |-> features[i].version]]],
           TIME |-> [period |-> chart.period, tempo |-> InBeatOrder(chart.tempo),
                     stops |-> StopsInOrder(chart.stops)],
           IDN0 |-> IdentitySection(dictionary, entities),
           ARCH |-> [i \in DOMAIN archetypes |->
                       [mask |-> archetypes[i].mask,
                        defaults |-> [kind \in Kinds |-> Atoms(dictionary, kind, archetypes[i].defaults[kind])]]],
           ENT0 |-> [i \in DOMAIN entities |->
                       [parent |-> OrdinalOf(entities, entities[i].parent),
                        archetype |-> SelectInSeq(archetypes, LAMBDA a : a.mask = ComponentMask(entities[i]))]],
           TRN0 |-> stream(1), REN0 |-> stream(2), CAM0 |-> stream(3),
           CNS0 |-> [i \in DOMAIN lanes |-> <<1, lanes[i]>>],
           REQ0 |-> RequirementSection(dictionary, entities)]
    IN  [code \in DOMAIN all \ {c \in Streams : all[c] = <<>>} |-> all[code]]

RowsOf(code, section) == IF code \in {"META", "TIME"} THEN 1
                         ELSE IF code = "IDN0" THEN Len(section.records) ELSE Len(section)

WithinBudget(header) ==
    /\ header.entities <= PackedLimits.entities /\ header.requirements <= PackedLimits.requirements
    /\ header.strings <= PackedLimits.strings /\ header.references <= PackedLimits.references

HeaderOf(chart) ==
    [plain |-> TRUE, identity |-> Preimage(chart), entities |-> Len(chart.entities),
     requirements |-> SumOver(chart.entities, LAMBDA entity : Len(entity.requirements)),
     strings |-> Cardinality(StringsOf(chart)), references |-> Cardinality(ReferencesOf(chart))]

IsEncodable(chart) == ProfileAccepts(chart) /\ HasPreimage(chart) /\ WithinBudget(HeaderOf(chart))

Encoded(chart) ==
    LET sections == SectionsOf(chart)
        codes == SelectSeq(CodesInOrder, LAMBDA code : code \in DOMAIN sections)
    IN  [header |-> HeaderOf(chart), sections |-> sections,
         directory |-> [i \in DOMAIN codes |->
            [code |-> codes[i], flags |-> 0, at |-> i, sound |-> TRUE,
             records |-> RowsOf(codes[i], sections[codes[i]])]]]

-------------------------------------------------------------------------------
(* The reader.  inspect: the registry of sections, the same for all        *)
(* readers, and where each of them is; in any order, but without a gap.    *)
SectionRole(code, flags) ==
    IF flags \notin {0, 1} THEN "refused"
    ELSE IF code \in ToSet(CodesInOrder) THEN IF flags = 0 THEN "semantic" ELSE "refused"
    ELSE IF code \in {"DBG0", "ANM0", "BEH0", "BHD0", "FXS0"}
      THEN IF code = "DBG0" /\ flags = 1 THEN "inspection" ELSE "refused"
    ELSE IF flags = 1 THEN "inspection" ELSE "refused"

IsInspected(file) ==
    LET directory == file.directory
    IN  /\ file.header.plain /\ WithinBudget(file.header)
        /\ AllDiffer([i \in DOMAIN directory |-> directory[i].code])
        /\ \A entry \in ToSet(directory) : entry.sound /\ SectionRole(entry.code, entry.flags) # "refused"
        /\ {entry.at : entry \in ToSet(directory)} = DOMAIN directory

RecordsOf(file, code) == (CHOOSE entry \in ToSet(file.directory) : entry.code = code).records

(* What PackedChartWriter::size asks besides: the order of the directory.  *)
IsSized(file) ==
    IsInspected(file) /\ \A i \in DOMAIN file.directory : file.directory[i].at = i

(* The tables that are referred to: the value of an index, 0 if it has     *)
(* none of the kind.                                                       *)
StringAt(file, index) == IF index \in DOMAIN file.sections.STR0 THEN file.sections.STR0[index] ELSE 0
ReferenceAt(file, kind, index) ==
    LET rows == file.sections.REF0
    IN  IF index \in DOMAIN rows /\ rows[index][1] = kind THEN StringAt(file, rows[index][2]) ELSE 0

TablesAreRead(file) ==
    LET strings == file.sections.STR0
        references == file.sections.REF0
    IN  /\ file.header.strings = Len(strings) /\ file.header.references = Len(references)
        /\ \A i \in 2..Len(strings) : strings[i - 1] < strings[i]
        /\ \A i \in DOMAIN references : references[i][2] \in DOMAIN strings
        /\ Rises([i \in DOMAIN references |-> <<references[i][1], strings[references[i][2]]>>])

MetaIsRead(file) ==
    LET meta == file.sections.META
        time == file.sections.TIME
    IN  /\ meta.camera.type = Perspective
        /\ meta.music # 0 => ReferenceAt(file, 1, meta.music) # 0
        /\ \A feature \in ToSet(meta.features) : ReferenceAt(file, 7, feature.ref) # 0
        /\ \A i \in 2..Len(time.tempo) : time.tempo[i - 1].start < time.tempo[i].start
        /\ \A i \in 2..Len(time.stops) : time.stops[i - 1].beat < time.stops[i].beat

(* IDN0: the iterations of a record are those of the steps that have one.  *)
IdentityAt(file, i) ==
    LET section == file.sections.IDN0
        record == section.records[i]
        scope == section.scopes[record.scope]
        path == section.paths[record.path]
        before(k) == Cardinality({j \in 1..(k - 1) : path[j][2] = 1})
        step(k) == [node |-> StringAt(file, path[k][1]),
                    iteration |-> IF path[k][2] = 0 THEN 0 ELSE record.iterations[before(k) + 1]]
    IN  IF record.scope = 0 THEN Explicit(record.id)
        ELSE [generated |-> TRUE, id |-> scope[1],
              scope |-> [k \in 1..3 |-> StringAt(file, scope[k + 1])],
              path |-> [k \in DOMAIN path |-> step(k)]]

IdentitiesAreRead(file) ==
    LET section == file.sections.IDN0
        strings == DOMAIN file.sections.STR0
        named(row) == [k \in DOMAIN row |-> StringAt(file, row[k])]
        recordIsRead(record) ==
          record.scope # 0 =>
             /\ record.scope \in DOMAIN section.scopes /\ record.path \in DOMAIN section.paths
             /\ Len(record.iterations)
                  = Cardinality({k \in DOMAIN section.paths[record.path] : section.paths[record.path][k][2] = 1})
             /\ \A iteration \in ToSet(record.iterations) : iteration # 0
             /\ section.paths[record.path] # <<>> /\ Last(section.paths[record.path])[2] = 0
    IN  /\ \A scope \in ToSet(section.scopes) :
              ToSet(Tail(scope)) \subseteq strings /\ scope[1] = file.sections.META.id
        /\ \A path \in ToSet(section.paths) : \A step \in ToSet(path) : step[1] \in strings /\ step[2] \in {0, 1}
        /\ Rises([i \in DOMAIN section.scopes |-> <<section.scopes[i][1]>> \o named(Tail(section.scopes[i]))])
        /\ Rises([i \in DOMAIN section.paths |->
                    FlattenSeq([k \in DOMAIN section.paths[i] |->
                       <<StringAt(file, section.paths[i][k][1]), section.paths[i][k][2]>>])])
        /\ Len(section.records) = file.header.entities
        /\ \A record \in ToSet(section.records) : recordIsRead(record)
        /\ Rises([i \in DOMAIN section.records |-> IdentityBytes(IdentityAt(file, i))])

(* ARCH and ENT0: a renderable's references are assets, a camera is        *)
(* perspective, the masks have none but the registered bits.               *)
AtomIsRead(file, kind, field, atom) ==
    CASE kind = 2 /\ field \in {1, 2} -> ReferenceAt(file, 1, atom) # 0
      [] kind = 3 /\ field = 1 -> atom = Perspective
      [] OTHER -> TRUE
ValueAt(file, kind, field, atom) ==
    IF kind = 2 /\ field \in {1, 2} THEN ReferenceAt(file, 1, atom) ELSE atom

ArchetypesAreRead(file) ==
    LET rows == file.sections.ARCH
    IN  /\ RecordsOf(file, "ARCH") = Len(rows)
        /\ \A row \in ToSet(rows) :
              /\ \E kinds \in SUBSET (ToSet(KindBit) \cup {RequirementBit}) : row.mask = SumSet(kinds)
              /\ \A kind \in Kinds :
                    /\ Len(row.defaults[kind])
                         = IF HasBit(row.mask, KindBit[kind]) THEN Len(FieldBits[kind]) ELSE 0
                    /\ \A field \in DOMAIN row.defaults[kind] :
                          AtomIsRead(file, kind, field, row.defaults[kind][field])
        /\ \A i \in 2..Len(rows) : rows[i - 1].mask < rows[i].mask

HierarchyIsRead(file) ==
    LET rows == file.sections.ENT0
    IN  /\ Len(rows) = file.header.entities
        /\ \A i \in DOMAIN rows :
              rows[i].archetype \in DOMAIN file.sections.ARCH /\ rows[i].parent \in 0..Len(rows) \ {i}
        /\ ParentsEnd([i \in DOMAIN rows |-> rows[i].parent])

(* A stream: any bit of a quaternion or a scale reads it as a whole.       *)
Bits(mask) == {bit \in {1, 2, 4, 8, 16, 32, 64, 128} : HasBit(mask, bit)}
FieldsRead(kind, mask) ==
    SelectSeq([field \in DOMAIN FieldBits[kind] |-> field],
              LAMBDA field : Bits(FieldBits[kind][field]) \cap Bits(mask) # {})

StreamIsRead(file, kind) ==
    LET rows == file.sections[StreamCode[kind]]
        rowIsRead(row) ==
          /\ row.ordinal \in DOMAIN file.sections.ENT0
          /\ Bits(row.mask) \subseteq UNION {Bits(FieldBits[kind][field]) : field \in DOMAIN FieldBits[kind]}
          /\ HasBit(file.sections.ARCH[file.sections.ENT0[row.ordinal].archetype].mask, KindBit[kind])
          /\ Len(row.values) = Len(FieldsRead(kind, row.mask))
          /\ \A k \in DOMAIN row.values : AtomIsRead(file, kind, FieldsRead(kind, row.mask)[k], row.values[k])
    IN  /\ RecordsOf(file, StreamCode[kind]) = Len(rows)
        /\ \A i \in DOMAIN rows : rowIsRead(rows[i])
        /\ \A i \in 2..Len(rows) : rows[i - 1].ordinal < rows[i].ordinal

(* The place of the row of entity i, 0 where it has none: the reader does  *)
(* not ask that a component has one.                                       *)
StreamRows(file, kind) ==
    IF StreamCode[kind] \in DOMAIN file.sections THEN file.sections[StreamCode[kind]] ELSE <<>>
RowAt(file, i, kind) == SelectInSeq(StreamRows(file, kind), LAMBDA row : row.ordinal = i)

ReadFields(file, i, kind) ==
    LET default == file.sections.ARCH[file.sections.ENT0[i].archetype].defaults[kind]
        rows == StreamRows(file, kind)
        at == RowAt(file, i, kind)
        fields == FieldsRead(kind, rows[at].mask)
        atom(field) == LET k == SelectInSeq(fields, LAMBDA other : other = field)
                       IN  IF k = 0 THEN default[field] ELSE rows[at].values[k]
    IN  [field \in DOMAIN default |->
           ValueAt(file, kind, field, IF at = 0 THEN default[field] ELSE atom(field))]

(* The components of an entity are those of its archetype; each row takes  *)
(* its component out and puts it back at the end.                          *)
ReadComponents(file, i) ==
    LET read(withRow) ==
          SelectSeq([kind \in Kinds |-> [kind |-> kind, fields |-> ReadFields(file, i, kind)]],
                    LAMBDA component : /\ component.fields # <<>>
                                       /\ (RowAt(file, i, component.kind) # 0) = withRow)
    IN  read(FALSE) \o read(TRUE)

(* CNS0 and REQ0: each row counts its entity from that of the one before.  *)
(* That the mask of its archetype has RequirementBit is not asked: the     *)
(* mask that is looked at counts the requirements themselves.              *)
OrdinalAt(file, i) == 1 + Total([k \in 1..i |-> file.sections.REQ0[k].delta])

RequirementAt(file, i) ==
    LET row == file.sections.REQ0[i]
    IN  [name |-> StringAt(file, row.name), kind |-> "tap",
         interval |-> IF row.interval = 0 THEN "point" ELSE "range", beat |-> row.beat, end |-> row.end,
         category |-> <<"judgement-domain", "action">>, domain |-> ReferenceAt(file, 4, row.domain),
         action |-> ReferenceAt(file, 5, row.action),
         lanes |-> <<file.sections.CNS0[row.constraint][2]>>, effects |-> <<>>]

RequirementsAreRead(file) ==
    LET rows == file.sections.REQ0
        lanes == file.sections.CNS0
    IN  /\ RecordsOf(file, "CNS0") = Len(lanes)
        /\ \A i \in DOMAIN lanes : lanes[i][1] = 1
        /\ \A i \in 2..Len(lanes) : lanes[i - 1][2] < lanes[i][2]
        /\ Len(rows) = file.header.requirements
        /\ \A i \in DOMAIN rows :
              /\ rows[i].delta >= 0 /\ OrdinalAt(file, i) \in DOMAIN file.sections.ENT0
              /\ rows[i].kind = 1 /\ rows[i].interval \in {0, 1}
              /\ (rows[i].end # <<>>) = (rows[i].interval = 1)
              /\ rows[i].name \in DOMAIN file.sections.STR0
              /\ ReferenceAt(file, 4, rows[i].domain) # 0 /\ ReferenceAt(file, 5, rows[i].action) # 0
              /\ rows[i].constraint \in DOMAIN lanes /\ rows[i].effect = 0
        /\ Rises([i \in DOMAIN rows |-> <<OrdinalAt(file, i), StringAt(file, rows[i].name)>>])

(* decode.                                                                 *)
ReadChart(file) ==
    LET meta == file.sections.META
        requirements(i) ==
          LET rows == SelectSeq([k \in DOMAIN file.sections.REQ0 |-> k], LAMBDA k : OrdinalAt(file, k) = i)
          IN  [k \in DOMAIN rows |-> RequirementAt(file, rows[k])]
        parent(i) == file.sections.ENT0[i].parent
        chart ==
          [id |-> meta.id, camera |-> meta.camera, closure |-> {},
           music |-> IF meta.music = 0 THEN 0 ELSE ReferenceAt(file, 1, meta.music),
           features |-> [i \in DOMAIN meta.features |-> [id |-> ReferenceAt(file, 7, meta.features[i].ref),
                                                         version |-> meta.features[i].version]],
           period |-> file.sections.TIME.period, tempo |-> file.sections.TIME.tempo,
           stops |-> file.sections.TIME.stops,
           entities |-> [i \in DOMAIN file.sections.ENT0 |->
              [identity |-> IdentityAt(file, i), components |-> ReadComponents(file, i), requirements |-> requirements(i),
               parent |-> IF parent(i) = 0 THEN <<>> ELSE <<IdentityAt(file, parent(i))>>]]]
    IN  [chart EXCEPT !.closure = ClosureOf(chart)]

(* All but the comparison with the identity of the header.                 *)
FileIsReadable(file) ==
    /\ IsInspected(file)
    /\ ToSet(CodesInOrder) \ Streams \subseteq {entry.code : entry \in ToSet(file.directory)}
    /\ TablesAreRead(file) /\ MetaIsRead(file) /\ IdentitiesAreRead(file)
    /\ ArchetypesAreRead(file) /\ HierarchyIsRead(file)
    /\ \A kind \in Kinds : StreamCode[kind] \in DOMAIN file.sections => StreamIsRead(file, kind)
    /\ RequirementsAreRead(file)
    /\ ProfileAccepts(ReadChart(file)) /\ HasPreimage(ReadChart(file))

IsDecoded(file) == FileIsReadable(file) /\ Preimage(ReadChart(file)) = file.header.identity

-------------------------------------------------------------------------------
(* lowerCandidateRuntime.  The id of a generated object is a hash, which   *)
(* comes after all explicit ids; some other order stands for its own.      *)
ExecutionId(identity) ==
    IF identity.generated THEN <<1>> \o [i \in DOMAIN IdentityBytes(identity) |-> -IdentityBytes(identity)[i]]
    ELSE <<0, identity.id>>

IsLowered(chart) ==
    /\ Len(chart.entities) \in 1..MaxObjects
    /\ ProfileAccepts(chart) /\ HasPreimage(chart)
    /\ TimingIsValid(chart.period, InBeatOrder(chart.tempo), StopsInOrder(chart.stops))

Lowered(chart) ==
    LET entities == EntitiesInOrder(chart.entities)
        order == SortSeq([i \in DOMAIN entities |-> i],
                         LAMBDA i, j : IsBelow(ExecutionId(entities[i].identity), ExecutionId(entities[j].identity)))
        remapped(i) == IF i = 0 THEN 0 ELSE SelectInSeq(order, LAMBDA j : j = i)
        object(entity) ==
          [id |-> ExecutionId(entity.identity), parent |-> remapped(OrdinalOf(entities, entity.parent)),
           parts |-> [kind \in Kinds |-> FieldsOf(entity, kind)],
           requirements |-> ToSet(entity.requirements)]
    IN  [k \in DOMAIN order |-> object(entities[order[k]])]

-------------------------------------------------------------------------------
(* What is meant.  Atoms: what is read is what was written, there is one   *)
(* way to write it, and only what has no place is refused.                 *)
NumbersAreExact ==
    /\ \A value, max \in 0..MaxWord :
          ReadLeb128(Leb128(value), max) = IF value <= max THEN value ELSE NotRead
    /\ \A length \in 0..(MaxGroups + 1) : \A bytes \in [1..length -> 0..(2 * Radix - 1)] :
          LET value == ReadLeb128(bytes, MaxWord)
          IN  value # NotRead => IsPrefix(Leb128(value), bytes)
    /\ \A value \in Word : ZigZag(value) \in 0..MaxWord /\ UnZigZag(ZigZag(value)) = value

BeatAtomsAreExact(beat) ==
    /\ ReadBeatAtom(BeatAtom(beat)) = beat
    /\ \A denominator \in 1..MaxInt, previous \in Word :
          LET code == GridDelta(beat, denominator, previous)
          IN  IF code = NotRead
                THEN \A numerator \in Word :
                        Equals(beat, numerator, denominator) => numerator - previous \notin Word
                ELSE ReadGridDelta(code, denominator, previous) = beat

(* A chart the other way round.                                            *)
TurnedRound(chart) ==
    LET entities == Reverse(chart.entities)
    IN  [chart EXCEPT !.features = Reverse(@), !.tempo = Reverse(@), !.stops = Reverse(@),
           !.entities = [i \in DOMAIN entities |->
              [entities[i] EXCEPT !.components = Reverse(@), !.requirements = Reverse(@)]]]

(* What is packed is read as the chart that was packed; the order in which *)
(* the chart is written does not matter; the objects of a chart are those  *)
(* of its entities, each with its own parent.                              *)
PacksAsWritten(chart) ==
    LET file == Encoded(chart)
        turned == TurnedRound(chart)
        objects == Lowered(chart)
        EntityOf(object) ==
          CHOOSE entity \in ToSet(chart.entities) : ExecutionId(entity.identity) = object.id
    IN  /\ IsEncodable(chart) <=> IsEncodable(turned)
        /\ IsEncodable(chart) =>
              /\ Encoded(turned) = file
              /\ IsDecoded(file) /\ IsSized(file)
              /\ ReadChart(file) = CanonicalChart(chart)
        /\ IsLowered(chart) =>
              /\ IsLowered(turned) /\ Lowered(turned) = objects
              /\ Len(objects) = Len(chart.entities)
              /\ Rises([i \in DOMAIN objects |-> objects[i].id])
              /\ \A object \in ToSet(objects) :
                    /\ object.parts = [kind \in Kinds |-> FieldsOf(EntityOf(object), kind)]
                    /\ object.requirements = ToSet(EntityOf(object).requirements)
                    /\ IF object.parent = 0 THEN EntityOf(object).parent = <<>>
                       ELSE EntityOf(object).parent = <<EntityOf(objects[object.parent]).identity>>

(* The format asks for more than the reader does: each component has a     *)
(* row, and the masks of archetypes say who has requirements.              *)
HasAllRows(file) ==
    \A i \in DOMAIN file.sections.ENT0 : \A kind \in Kinds :
       ReadFields(file, i, kind) # <<>> => RowAt(file, i, kind) # 0
MasksAreExact(file) ==
    \A i \in DOMAIN file.sections.ENT0 :
       file.sections.ARCH[file.sections.ENT0[i].archetype].mask = ComponentMask(ReadChart(file).entities[i])

(* A file that is read, the ones the format forbids included, is in the    *)
(* order of a packed chart but for the order of the components of an       *)
(* entity that lacks a row; packed again it is the same chart, with all    *)
(* its rows and exact masks.  A file with the identity of a chart is that  *)
(* chart's, whatever rows it lacks, or it is refused.                      *)
ReadsAsPacked(file, chart) ==
    FileIsReadable(file) =>
       LET read == ReadChart(file)
           canonical == CanonicalChart(read)
           Unordered(one) == [one EXCEPT !.entities = [i \in DOMAIN one.entities |->
              [one.entities[i] EXCEPT !.components = ToSet(@)]]]
           again == Encoded(read)
       IN  /\ Unordered(read) = Unordered(canonical)
           /\ HasAllRows(file) => read = canonical
           /\ IsEncodable(read) /\ ReadChart(again) = canonical
           /\ HasAllRows(again) /\ MasksAreExact(again)
           /\ IsDecoded(file) => canonical = CanonicalChart(chart)
===============================================================================
