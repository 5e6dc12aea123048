---------------------------- MODULE StoreProofs -----------------------------
(***************************************************************************)
(* What the stores of the controller become: the settings and the resources *)
(* made of Services (ServiceStore), and the clusters made of endpoint      *)
(* slices (Endpoints), for any objects and any changes of them.            *)
(***************************************************************************)
EXTENDS ServiceStore, Endpoints, TLAPS

(* Most leaves are first-order; those with arithmetic or nested EXCEPT cite SMT. *)
USE ZenonT(30), SMTT(30)

-----------------------------------------------------------------------------
(* Services and their resources *)

(* Everything that an entry can be made of *)
SourceSettings == {LabelService(label) : label \in Labels} \cup {SpecService(spec) : spec \in Specs}
StoreEntries == {Entry(settings, ports) : settings \in SourceSettings, ports \in PortSets}
Stores == [Services -> StoreEntries \cup {Absent}]

Builds ==
  [pc : {"idle", "labelled", "xds"}, xds : [XdsNames -> XdsService \cup {Absent}],
   todo : SUBSET XdsNames, found : SUBSET XdsNames, store : Stores]

StoreInv ==
  /\ labelled \in [Services -> Labelled \cup {Absent}]
  /\ services \in [Services -> PortSets \cup {Absent}]
  /\ xdsServices \in [XdsNames -> XdsService \cup {Absent}]
  /\ build \in Builds
  /\ \A x \in build.todo \cup build.found : build.xds[x] \in XdsService
  /\ build.pc # "xds" => build.found = {}
  /\ published \in Stores
  /\ SettingsFromOneSource

(* An entry has the settings that it is made of, and no others. *)
LEMMA EntryFact ==
  ASSUME NEW settings \in SourceSettings, NEW ports
  PROVE  Settings(Entry(settings, ports)) = settings
<1>1. PICK a, b, c, d, e, f :
        settings = [EnableRemoteEndpoints |-> a, Policy |-> b, RingHash |-> c, RingHashPolicies |-> d,
                    PrioritizeLocalEndpoints |-> e, Retry |-> f]
  <2>1. CASE \E label \in Labels : settings = LabelService(label)
    BY <2>1 DEF LabelService
  <2>2. CASE \E spec \in Specs : settings = SpecService(spec)
    BY <2>2 DEF SpecService
  <2>. QED  BY <2>1, <2>2 DEF SourceSettings
<1>. QED  BY <1>1, SMTT(30) DEF Settings, Entry

(* The labelled Services, before any XdsService. *)
LEMMA ListServicesInv == StoreInv /\ ListServices => StoreInv'
<1>. SUFFICES ASSUME StoreInv, ListServices  PROVE StoreInv'
  OBVIOUS
<1>. DEFINE new == [s \in Services |->
                     IF labelled[s] = Absent THEN Absent
                     ELSE Entry(LabelService(labelled[s].Label), labelled[s].Ports)]
<1>1. build' = [build EXCEPT !.pc = "labelled", !.store = new] /\ UNCHANGED <<caches, published>> /\ build.pc = "idle"
  BY DEF ListServices, LabelEntry
<1>2. \A s \in Services : labelled[s] # Absent => labelled[s].Label \in Labels /\ labelled[s].Ports \in PortSets
  BY DEF StoreInv, Labelled
<1>3. \A s \in Services : labelled[s] # Absent =>
        /\ Entry(LabelService(labelled[s].Label), labelled[s].Ports) \in StoreEntries
        /\ Settings(Entry(LabelService(labelled[s].Label), labelled[s].Ports)) = LabelService(labelled[s].Label)
  BY <1>2, EntryFact, SMTT(30) DEF StoreEntries, SourceSettings
<1>4. /\ new \in Stores
      /\ \A s \in Services : new[s] # Absent => \E label \in Labels : Settings(new[s]) = LabelService(label)
  BY <1>2, <1>3 DEF Stores
<1>. HIDE DEF new
<1>5. build' \in Builds /\ build'.store = new /\ build'.found = {} /\ build'.xds = build.xds /\ build'.todo = build.todo /\ build'.pc = "labelled"
  BY <1>1, <1>4 DEF Builds, StoreInv
<1>6. SettingsFromOneSource'
  BY <1>4, <1>5 DEF SettingsFromOneSource
<1>. QED  BY <1>1, <1>5, <1>6 DEF StoreInv, caches

(* The XdsServices that are listed are those of the cache. *)
LEMMA ListXdsServicesInv == StoreInv /\ ListXdsServices => StoreInv'
<1>. SUFFICES ASSUME StoreInv, ListXdsServices  PROVE StoreInv'
  OBVIOUS
<1>1. /\ build' = [build EXCEPT !.pc = "xds", !.xds = xdsServices,
                                !.todo = {x \in XdsNames : xdsServices[x] # Absent}]
      /\ UNCHANGED <<caches, published>> /\ build.found = {}
  BY DEF ListXdsServices, StoreInv
<1>2. /\ build' \in Builds /\ build'.found = {} /\ build'.store = build.store /\ build'.xds = xdsServices
      /\ build'.pc = "xds" /\ \A x \in build'.todo : xdsServices[x] \in XdsService
  BY <1>1 DEF Builds, StoreInv
<1>3. SettingsFromOneSource'
  BY <1>1, <1>2, SMTT(30) DEF SettingsFromOneSource, StoreInv
<1>. QED  BY <1>1, <1>2, <1>3 DEF StoreInv, caches

(* An XdsService adds an entry with its own settings, or is skipped. *)
LEMMA AddXdsServiceInv == ASSUME StoreInv, NEW x \in XdsNames, AddXdsService(x)  PROVE StoreInv'
<1>. DEFINE s == build.xds[x].service
            entry == Entry(SpecService(build.xds[x].spec), services[s])
<1>1. UNCHANGED <<caches, published>> /\ x \in build.todo /\ build.pc = "xds"
  BY DEF AddXdsService
<1>2. s \in Services /\ build.xds[x].spec \in Specs
  BY <1>1 DEF StoreInv, XdsService
<1>3. CASE services[s] = Absent
  <2>1. build' = [build EXCEPT !.todo = @ \ {x}]
    BY <1>3 DEF AddXdsService
  <2>2. /\ build' \in Builds /\ build'.found = build.found /\ build'.store = build.store /\ build'.xds = build.xds
        /\ build'.pc = "xds" /\ build'.todo \subseteq build.todo
    BY <1>1, <2>1 DEF Builds, StoreInv
  <2>3. SettingsFromOneSource'
    BY <2>2, SMTT(30) DEF SettingsFromOneSource, StoreInv
  <2>. QED  BY <1>1, <2>2, <2>3 DEF StoreInv, caches
<1>4. CASE services[s] # Absent
  <2>1. entry \in StoreEntries /\ Settings(entry) = SpecService(build.xds[x].spec)
    <3>1. services[s] \in PortSets
      BY <1>2, <1>4 DEF StoreInv
    <3>. QED  BY <1>2, <3>1, EntryFact, SMTT(30) DEF StoreEntries, SourceSettings
  <2>. HIDE DEF entry
  <2>2. build' = [build EXCEPT !.todo = @ \ {x}, !.found = @ \cup {x}, !.store = [@ EXCEPT ![s] = entry]]
    BY <1>4 DEF AddXdsService, AddOrUpdate, entry
  <2>3. /\ build' \in Builds /\ build'.found = build.found \cup {x}
        /\ build'.store = [build.store EXCEPT ![s] = entry] /\ build'.xds = build.xds
        /\ build'.pc = "xds" /\ build'.todo = build.todo \ {x}
    BY <1>1, <2>1, <2>2 DEF Builds, Stores, StoreInv
  <2>4. SettingsFromOneSource'
    <3>. SUFFICES ASSUME NEW z \in Services
                  PROVE  LET from == {y \in build'.found : build'.xds[y].service = z}
                         IN  IF from # {}
                             THEN \E y \in from : Settings(build'.store[z]) = SpecService(build'.xds[y].spec)
                             ELSE build'.store[z] # Absent =>
                                    \E label \in Labels : Settings(build'.store[z]) = LabelService(label)
      BY DEF SettingsFromOneSource, Settings
    <3>1. CASE z = s
      <4>1. build'.store[z] = entry
        BY <1>2, <2>3, <3>1 DEF StoreInv, Builds, Stores
      <4>. QED  BY <2>1, <2>3, <3>1, <4>1
    <3>2. CASE z # s
      <4>1. build'.store[z] = build.store[z]
        BY <1>2, <2>3, <3>2 DEF StoreInv, Builds, Stores
      <4>2. {y \in build'.found : build'.xds[y].service = z} = {y \in build.found : build.xds[y].service = z}
        BY <2>3, <3>2
      <4>3. LET from == {y \in build.found : build.xds[y].service = z}
            IN  IF from # {}
                THEN \E y \in from : Settings(build.store[z]) = SpecService(build.xds[y].spec)
                ELSE build.store[z] # Absent =>
                       \E label \in Labels : Settings(build.store[z]) = LabelService(label)
        BY DEF StoreInv, SettingsFromOneSource
      <4>. QED  BY <2>3, <4>1, <4>2, <4>3
    <3>. QED  BY <3>1, <3>2
  <2>. QED  BY <1>1, <1>2, <2>3, <2>4 DEF StoreInv, caches
<1>. QED  BY <1>3, <1>4

(***************************************************************************)
(* Whatever the informers do between the reads of                          *)
(* servicesToXdsServiceStore, every entry of the store that is published   *)
(* is made of one label or of one XdsService, and of the ports of a        *)
(* Service.                                                                *)
(***************************************************************************)
THEOREM StoreInvariance == Spec => []StoreInv
<1>0. Idle \in Builds /\ NoEntries \in Stores /\ Idle.found = {} /\ Idle.todo = {} /\ Idle.store = NoEntries
  BY DEF Idle, Builds, Stores, NoEntries
<1>1. \A s \in Services : NoEntries[s] = Absent
  BY DEF NoEntries
<1>2. build = Idle => SettingsFromOneSource
  BY <1>0, <1>1 DEF SettingsFromOneSource
<1>3. Init => StoreInv
  BY <1>0, <1>2 DEF Init, StoreInv
<1>4. StoreInv /\ [Next]_vars => StoreInv'
  <2>. SUFFICES ASSUME StoreInv, [Next]_vars  PROVE StoreInv'
    OBVIOUS
  <2>1. UNCHANGED build => (SettingsFromOneSource => SettingsFromOneSource')
    BY DEF SettingsFromOneSource
  <2>2. CASE Change
    BY <2>1, <2>2 DEF Change, StoreInv
  <2>3. CASE SnapServices
    <3>1. build' = Idle => SettingsFromOneSource'
      BY <1>0, <1>1 DEF SettingsFromOneSource
    <3>. QED  BY <1>0, <2>3, <3>1 DEF SnapServices, StoreInv, caches, Builds
  <2>4. CASE UNCHANGED vars
    BY <2>1, <2>4 DEF vars, caches, StoreInv
  <2>. QED  BY <2>2, <2>3, <2>4, ListServicesInv, ListXdsServicesInv, AddXdsServiceInv DEF Next
<1>. QED  BY <1>3, <1>4, PTL DEF Spec

-----------------------------------------------------------------------------
(* Settings *)

(* The arithmetic of durations stays in their range. *)
LEMMA WrapFact == \A d \in Int : Wrap(d) \in Durations
<1>1. ASSUME NEW m \in Nat \ {0}, NEW a \in Int  PROVE a % m \in 0..(m - 1)
  BY SMTT(30)
<1>. SUFFICES ASSUME NEW d \in Int  PROVE Wrap(d) \in Durations
  OBVIOUS
<1>2. DurationLimit \in Nat \ {0} /\ 2 * DurationLimit \in Nat \ {0} /\ d + DurationLimit \in Int
  BY SettingsAssumption, SMTT(30)
<1>3. (d + DurationLimit) % (2 * DurationLimit) \in 0..(2 * DurationLimit - 1)
  BY <1>1, <1>2
<1>. QED  BY <1>2, <1>3, SMTT(30) DEF Wrap, Durations

(* Whatever the intervals of a spec are, those made of them are in order. *)
LEMMA BackOffFact ==
  ASSUME NEW base \in Durations \cup {Invalid}, NEW max \in Durations \cup {Invalid}
  PROVE  /\ ParseRetryBackOff(base, max) \in [BaseInterval : Durations, MaxInterval : Durations]
         /\ ParseRetryBackOff(base, max).BaseInterval <= ParseRetryBackOff(base, max).MaxInterval
<1>. DEFINE b == IF base = Invalid THEN DefaultBase ELSE base
            m == IF max = Invalid THEN Wrap(10 * b) ELSE max
<1>1. b \in Durations
  BY SettingsAssumption, SMTT(30) DEF Durations
<1>2. m \in Durations
  <2>1. 10 * b \in Int
    BY <1>1, SMTT(30) DEF Durations
  <2>. QED  BY <2>1, WrapFact
<1>3. ParseRetryBackOff(base, max) = [BaseInterval |-> b, MaxInterval |-> IF m < b THEN b ELSE m]
  BY DEF ParseRetryBackOff
<1>. HIDE DEF b, m
<1>4. Durations \subseteq Int
  BY SettingsAssumption, SMTT(30) DEF Durations
<1>. QED  BY <1>1, <1>2, <1>3, <1>4, SMTT(30)

(* A spec leads to a retry policy exactly if it names conditions. *)
LEMMA RetryFact ==
  ASSUME NEW spec \in Specs
  PROVE  LET made == extractRetryPolicy(spec.Retry)
         IN  IF spec.Retry = Unset \/ spec.Retry.RetryOn = <<>>
             THEN made = Unset
             ELSE /\ made \in RetryPolicy
                  /\ made.RetryBackOff.BaseInterval <= made.RetryBackOff.MaxInterval
<1>. DEFINE retry == spec.Retry
<1>1. CASE retry = Unset \/ retry.RetryOn = <<>>
  BY <1>1 DEF extractRetryPolicy
<1>2. CASE ~(retry = Unset \/ retry.RetryOn = <<>>)
  <2>1. retry \in RetrySpec
    BY <1>2, SpecsAssumption
  <2>. HIDE DEF retry
  <2>2. ParseRetryOn(retry.RetryOn) \in Seq(STRING)
    BY <2>1, SMTT(30) DEF RetrySpec, ParseRetryOn
  <2>3. ParseNumRetries(retry.NumRetries) \in Nat
    BY <2>1 DEF RetrySpec, ParseNumRetries
  <2>4. retry.BaseInterval \in Durations \cup {Invalid} /\ retry.MaxInterval \in Durations \cup {Invalid}
    BY <2>1 DEF RetrySpec
  <2>5. extractRetryPolicy(retry) =
          [RetryOn |-> ParseRetryOn(retry.RetryOn), NumRetries |-> ParseNumRetries(retry.NumRetries),
           RetryBackOff |-> ParseRetryBackOff(retry.BaseInterval, retry.MaxInterval)]
    BY <1>2 DEF extractRetryPolicy
  <2>6. /\ extractRetryPolicy(retry) \in RetryPolicy
        /\ extractRetryPolicy(retry).RetryBackOff = ParseRetryBackOff(retry.BaseInterval, retry.MaxInterval)
    <3>1. ASSUME NEW on \in Seq(STRING), NEW num \in Nat, NEW backOff \in [BaseInterval : Durations, MaxInterval : Durations]
          PROVE  /\ [RetryOn |-> on, NumRetries |-> num, RetryBackOff |-> backOff] \in RetryPolicy
                 /\ [RetryOn |-> on, NumRetries |-> num, RetryBackOff |-> backOff].RetryBackOff = backOff
      BY DEF RetryPolicy
    <3>2. ParseRetryBackOff(retry.BaseInterval, retry.MaxInterval) \in [BaseInterval : Durations, MaxInterval : Durations]
      BY <2>4, BackOffFact
    <3>. QED  BY <2>2, <2>3, <2>5, <3>1, <3>2, SMTT(30)
  <2>. QED  BY <1>2, <2>4, <2>6, BackOffFact DEF retry
<1>. QED  BY <1>1, <1>2

(***************************************************************************)
(* The settings of an entry all come from one source, the annotations of a *)
(* labelled Service or the spec of one XdsService: concurrent changes and  *)
(* the order of a list never mix them.                                     *)
(***************************************************************************)
THEOREM OneSource == Spec => []SettingsFromOneSource
  BY StoreInvariance, PTL DEF StoreInv

(***************************************************************************)
(* What a build knows of the caches while none of them changes: the        *)
(* XdsServices that it has gone through, and for each Service the entry of *)
(* one of those found, or of the label.                                    *)
(***************************************************************************)
ExactInv ==
  undisturbed =>
    /\ build.pc = "labelled" => \A s \in Services : build.store[s] = LabelEntry(s)
    /\ build.pc = "xds" =>
         /\ build.xds = xdsServices
         /\ \A x \in build.todo \cup build.found : xdsServices[x] # Absent
         /\ \A x \in build.found : services[xdsServices[x].service] # Absent
         /\ \A x \in XdsNames : xdsServices[x] # Absent =>
              x \in build.todo \cup build.found \/ services[xdsServices[x].service] = Absent
         /\ \A s \in Services :
              LET from == {x \in build.found : xdsServices[x].service = s}
              IN  IF from # {}
                  THEN \E x \in from : build.store[s] = Entry(SpecService(xdsServices[x].spec), services[s])
                  ELSE build.store[s] = LabelEntry(s)
    /\ UndisturbedBuildIsExact

(* The labelled Services are listed, and nothing has changed since. *)
LEMMA ListServicesExact == StoreInv /\ ListServices => ExactInv'
<1>. SUFFICES ASSUME StoreInv, ListServices  PROVE ExactInv'
  OBVIOUS
<1>1. /\ build'.pc = "labelled" /\ build'.store = [s \in Services |-> LabelEntry(s)]
      /\ UNCHANGED labelled
  BY SMTT(30) DEF ListServices, StoreInv, Builds, caches
<1>2. \A s \in Services : build'.store[s] = LabelEntry(s)'
  BY <1>1 DEF LabelEntry
<1>. QED  BY <1>1, <1>2 DEF ExactInv, UndisturbedBuildIsExact

(* The XdsServices are listed, and none of them has been found yet. *)
LEMMA ListXdsServicesExact == StoreInv /\ ExactInv /\ ListXdsServices => ExactInv'
<1>. SUFFICES ASSUME StoreInv, ExactInv, ListXdsServices, undisturbed'  PROVE ExactInv'
  BY DEF ExactInv
<1>1. /\ build'.pc = "xds" /\ build'.xds = xdsServices /\ build'.found = {} /\ build'.store = build.store
      /\ build'.todo = {x \in XdsNames : xdsServices[x] # Absent}
      /\ UNCHANGED <<labelled, services, xdsServices, undisturbed>> /\ build.pc = "labelled"
  BY SMTT(30) DEF ListXdsServices, StoreInv, Builds, caches
<1>2. \A s \in Services : build'.store[s] = LabelEntry(s)'
  BY <1>1 DEF LabelEntry, ExactInv
<1>. QED  BY <1>1, <1>2 DEF ExactInv, UndisturbedBuildIsExact

(* The next XdsService, whose Service is found or not. *)
LEMMA AddXdsServiceExact == ASSUME StoreInv, ExactInv, NEW x \in XdsNames, AddXdsService(x)  PROVE ExactInv'
<1>. SUFFICES ASSUME undisturbed'  PROVE ExactInv'
  BY DEF ExactInv
<1>. DEFINE s == xdsServices[x].service
            entry == Entry(SpecService(xdsServices[x].spec), services[s])
<1>1. UNCHANGED <<labelled, services, xdsServices, undisturbed>> /\ x \in build.todo /\ build.pc = "xds"
  BY DEF AddXdsService, caches
<1>2. /\ build.xds = xdsServices
      /\ \A y \in build.todo \cup build.found : xdsServices[y] # Absent
      /\ \A y \in build.found : services[xdsServices[y].service] # Absent
      /\ \A y \in XdsNames : xdsServices[y] # Absent =>
           y \in build.todo \cup build.found \/ services[xdsServices[y].service] = Absent
      /\ \A z \in Services :
           LET from == {y \in build.found : xdsServices[y].service = z}
           IN  IF from # {}
               THEN \E y \in from : build.store[z] = Entry(SpecService(xdsServices[y].spec), services[z])
               ELSE build.store[z] = LabelEntry(z)
  BY <1>1 DEF ExactInv
<1>3. s \in Services
  BY <1>1, <1>2 DEF StoreInv, XdsService
<1>4. \A z \in Services : LabelEntry(z)' = LabelEntry(z)
  BY <1>1 DEF LabelEntry
<1>5. CASE services[s] = Absent
  <2>1. /\ build'.pc = "xds" /\ build'.xds = build.xds /\ build'.found = build.found
        /\ build'.store = build.store /\ build'.todo = build.todo \ {x}
    BY <1>1, <1>2, <1>5, SMTT(30) DEF AddXdsService, StoreInv, Builds
  <2>. QED  BY <1>1, <1>2, <1>4, <1>5, <2>1, SMTT(30) DEF ExactInv, UndisturbedBuildIsExact
<1>6. CASE services[s] # Absent
  <2>. HIDE DEF entry
  <2>1. build' = [build EXCEPT !.todo = @ \ {x}, !.found = @ \cup {x}, !.store = [@ EXCEPT ![s] = entry]]
    BY <1>2, <1>6 DEF AddXdsService, AddOrUpdate, entry
  <2>2. /\ build'.pc = "xds" /\ build'.xds = build.xds /\ build'.found = build.found \cup {x}
        /\ build'.store = [build.store EXCEPT ![s] = entry] /\ build'.todo = build.todo \ {x}
    BY <1>1, <2>1, SMTT(30) DEF StoreInv, Builds
  <2>3. build'.store[s] = entry /\ \A z \in Services \ {s} : build'.store[z] = build.store[z]
    BY <1>3, <2>2 DEF StoreInv, Builds, Stores
  <2>4. ASSUME NEW z \in Services
        PROVE  LET from == {y \in build'.found : xdsServices[y].service = z}
               IN  IF from # {}
                   THEN \E y \in from : build'.store[z] = Entry(SpecService(xdsServices[y].spec), services[z])
                   ELSE build'.store[z] = LabelEntry(z)
    <3>1. CASE z = s
      BY <2>2, <2>3, <3>1 DEF entry
    <3>2. CASE z # s
      <4>1. {y \in build'.found : xdsServices[y].service = z} = {y \in build.found : xdsServices[y].service = z}
        BY <2>2, <3>2
      <4>. QED  BY <1>2, <2>3, <3>2, <4>1, SMTT(30)
    <3>. QED  BY <3>1, <3>2
  <2>5. /\ \A y \in build'.todo \cup build'.found : xdsServices[y] # Absent
        /\ \A y \in build'.found : services[xdsServices[y].service] # Absent
    BY <1>1, <1>2, <1>6, <2>2, SMTT(30)
  <2>6. \A y \in XdsNames : xdsServices[y] # Absent =>
          y \in build'.todo \cup build'.found \/ services[xdsServices[y].service] = Absent
    BY <1>2, <2>2
  <2>. QED  BY <1>1, <1>2, <1>4, <2>2, <2>4, <2>5, <2>6, SMTT(30) DEF ExactInv, UndisturbedBuildIsExact
<1>. QED  BY <1>5, <1>6

(* With the last XdsService gone through, the store has what the caches have. *)
LEMMA SnapServicesExact == StoreInv /\ ExactInv /\ SnapServices => ExactInv'
<1>. SUFFICES ASSUME StoreInv, ExactInv, SnapServices, undisturbed'  PROVE ExactInv'
  BY DEF ExactInv
<1>1. /\ UNCHANGED <<labelled, services, xdsServices, undisturbed>> /\ build.pc = "xds" /\ build.todo = {}
      /\ published' = build.store /\ build'.pc = "idle"
  BY DEF SnapServices, caches, Idle
<1>2. \A s \in Services : LabelEntry(s)' = LabelEntry(s) /\ XdsEntries(s)' = XdsEntries(s)
  BY <1>1 DEF LabelEntry, XdsEntries
<1>3. ASSUME NEW s \in Services
      PROVE  IF XdsEntries(s) # {} THEN build.store[s] \in XdsEntries(s) ELSE build.store[s] = LabelEntry(s)
  <2>. DEFINE from == {x \in build.found : xdsServices[x].service = s}
              sel == {y \in XdsNames : xdsServices[y] # Absent /\ xdsServices[y].service = s /\ services[s] # Absent}
  <2>1. IF from # {} THEN \E x \in from : build.store[s] = Entry(SpecService(xdsServices[x].spec), services[s])
                     ELSE build.store[s] = LabelEntry(s)
    BY <1>1 DEF ExactInv
  <2>2. sel \subseteq from
    BY <1>1 DEF ExactInv
  <2>3. from \subseteq sel
    <3>1. \A x \in build.found : x \in XdsNames /\ xdsServices[x] # Absent /\ services[xdsServices[x].service] # Absent
      BY <1>1 DEF ExactInv, StoreInv, Builds
    <3>. QED  BY <3>1
  <2>4. XdsEntries(s) = {Entry(SpecService(xdsServices[x].spec), services[s]) : x \in sel}
    BY DEF XdsEntries
  <2>. HIDE DEF from, sel
  <2>. QED  BY <2>1, <2>2, <2>3, <2>4
<1>. QED  BY <1>1, <1>2, <1>3 DEF ExactInv, UndisturbedBuildIsExact

(***************************************************************************)
(* A worker that no change of the caches interrupts publishes exactly what *)
(* they hold, for any Services, XdsServices, labels and specs, and however *)
(* many stores were published before (servicesToXdsServiceStore,           *)
(* SnapServices).                                                          *)
(***************************************************************************)
THEOREM Exact == Spec => []UndisturbedBuildIsExact
<1>1. Init => ExactInv
  BY DEF Init, ExactInv
<1>2. StoreInv /\ ExactInv /\ [Next]_vars => ExactInv'
  <2>. SUFFICES ASSUME StoreInv, ExactInv, [Next]_vars  PROVE ExactInv'
    OBVIOUS
  <2>1. CASE Change
    BY <2>1 DEF Change, ExactInv
  <2>2. CASE UNCHANGED vars
    BY <2>2, SMTT(30) DEF vars, caches, ExactInv, UndisturbedBuildIsExact, LabelEntry, XdsEntries
  <2>. QED  BY <2>1, <2>2, ListServicesExact, ListXdsServicesExact, AddXdsServiceExact, SnapServicesExact DEF Next
<1>3. ExactInv => UndisturbedBuildIsExact
  BY DEF ExactInv, UndisturbedBuildIsExact
<1>. QED  BY <1>1, <1>2, <1>3, StoreInvariance, PTL DEF Spec

(***************************************************************************)
(* The intervals of every retry policy in the store are in order and in    *)
(* range, for any width of the integers that durations are kept in: the    *)
(* default of ten times the base may wrap around, and ParseRetryBackOff    *)
(* catches what comes of it.                                               *)
(***************************************************************************)
THEOREM IntervalsOrdered == Spec => []RetryIntervalsInOrder
<1>1. StoreInv => RetryIntervalsInOrder
  <2>. SUFFICES ASSUME StoreInv  PROVE RetryIntervalsInOrder
    OBVIOUS
  <2>. SUFFICES ASSUME NEW s \in Services, build.store[s] # Absent, build.store[s].Retry # Unset
                PROVE  LET retry == build.store[s].Retry
                       IN  /\ retry \in RetryPolicy
                           /\ retry.RetryBackOff.BaseInterval <= retry.RetryBackOff.MaxInterval
    BY DEF RetryIntervalsInOrder, RetryPolicy
  <2>1. PICK settings \in SourceSettings, ports \in PortSets : build.store[s] = Entry(settings, ports)
    BY SMTT(30) DEF StoreInv, Builds, Stores, StoreEntries
  <2>2. build.store[s].Retry = settings.Retry
    BY <2>1, SMTT(30) DEF Entry
  <2>3. CASE \E label \in Labels : settings = LabelService(label)
    BY <2>2, <2>3, SMTT(30) DEF LabelService
  <2>4. CASE \E spec \in Specs : settings = SpecService(spec)
    <3>1. PICK spec \in Specs : settings.Retry = extractRetryPolicy(spec.Retry)
      BY <2>4, SMTT(30) DEF SpecService
    <3>. QED  BY <2>2, <3>1, RetryFact
  <2>. QED  BY <2>3, <2>4 DEF SourceSettings
<1>. QED  BY <1>1, StoreInvariance, PTL

-----------------------------------------------------------------------------
(* Resources *)

Auths == {NoAuthority, Authority}

VirtualHost(sp, a) == makeVirtualHost(sp[1], sp[2], a, published[sp[1]])
Route(sp, a) == makeRouteConfig(sp[1], sp[2], a, VirtualHost(sp, a))
Listener(sp, a) == makeListener(sp[1], sp[2], a, Route(sp, a))
Cluster(sp, a) == makeCluster(sp[1], sp[2], a, published[sp[1]])
Assignment(sp, a) == [ClusterName |-> LoadAssignmentNameFor(sp[1], sp[2], a), endpoints |-> <<sp[1], sp[2]>>]

(* The Services of the store, with the ports of their slices *)
SlicePortsOf == UNION {{<<s, p>> : p \in SlicePorts[s]} : s \in {s \in Services : published[s] # Absent}}

(* No two names of one type are the same. *)
LEMMA NamesFact ==
  ASSUME NEW s1, NEW p1, NEW a1, NEW s2, NEW p2, NEW a2
  PROVE  /\ ClusterNameFor(s1, p1, a1) = ClusterNameFor(s2, p2, a2) => s1 = s2 /\ p1 = p2 /\ a1 = a2
         /\ ListenerNameFor(s1, p1, a1) = ListenerNameFor(s2, p2, a2) => s1 = s2 /\ p1 = p2 /\ a1 = a2
         /\ LoadAssignmentNameFor(s1, p1, a1) = LoadAssignmentNameFor(s2, p2, a2) => s1 = s2 /\ p1 = p2 /\ a1 = a2
<1>1. makeClusterName(s1, p1) = makeClusterName(s2, p2) => s1 = s2 /\ p1 = p2
  BY DEF makeClusterName
<1>2. makeGlobalServiceDomain(s1, p1) = makeGlobalServiceDomain(s2, p2) => s1 = s2 /\ p1 = p2
  BY DEF makeGlobalServiceDomain
<1>3. ASSUME NEW t, NEW n1, NEW n2, Xdstp(a1, t, n1) = Xdstp(a2, t, n2)  PROVE a1 = a2 /\ n1 = n2
  BY <1>3 DEF Xdstp
<1>4. \A t, n : /\ Xdstp(a1, t, n) # makeClusterName(s2, p2) /\ Xdstp(a2, t, n) # makeClusterName(s1, p1)
                /\ Xdstp(a1, t, n) # makeGlobalServiceDomain(s2, p2)
                /\ Xdstp(a2, t, n) # makeGlobalServiceDomain(s1, p1)
  BY DEF Xdstp, makeClusterName, makeGlobalServiceDomain
<1>. QED  BY <1>1, <1>2, <1>3, <1>4
         DEF ClusterNameFor, ListenerNameFor, LoadAssignmentNameFor, NameFor

(* The ports of the published store and of the slices are those of entries. *)
LEMMA PortFact ==
  ASSUME StoreInv
  PROVE  /\ \A sp \in PortsOf(published) :
              /\ sp = <<sp[1], sp[2]>> /\ sp[1] \in Services /\ sp[2] \in UNION PortSets
              /\ published[sp[1]] \in StoreEntries /\ published[sp[1]] # Absent
         /\ \A sp \in SlicePortsOf : sp = <<sp[1], sp[2]>> /\ sp[2] \in SlicePorts[sp[1]]
         /\ \A s \in Services : \A p \in SlicePorts[s] : published[s] # Absent => <<s, p>> \in SlicePortsOf
<1>1. DOMAIN published = Services /\ \A s \in Services : published[s] # Absent => published[s] \in StoreEntries
  BY DEF StoreInv, Stores
<1>2. \A entry \in StoreEntries : entry.Ports \in PortSets
  BY SMTT(30) DEF StoreEntries, Entry
<1>. QED  BY <1>1, <1>2, SMTT(30) DEF PortsOf, SlicePortsOf

(* What the snapshot is made of, for both kinds of names. *)
LEMMA SnapshotFact ==
  ASSUME StoreInv
  PROVE  /\ Snapshot.listeners = {Listener(sp, a) : sp \in PortsOf(published), a \in Auths}
         /\ Snapshot.routes = {Route(sp, a) : sp \in PortsOf(published), a \in Auths}
         /\ Snapshot.clusters = {Cluster(sp, a) : sp \in PortsOf(published), a \in Auths}
         /\ Snapshot.assignments = {Assignment(sp, a) : sp \in SlicePortsOf, a \in Auths}
<1>. DEFINE of(a) == servicesToResources(published, a)
            assigned(a) == clusterLoadAssignments(published, SlicePorts, a)
<1>1. ASSUME NEW a
      PROVE  /\ of(a).listeners = {Listener(sp, a) : sp \in PortsOf(published)}
             /\ of(a).routes = {Route(sp, a) : sp \in PortsOf(published)}
             /\ of(a).clusters = {Cluster(sp, a) : sp \in PortsOf(published)}
  BY DEF servicesToResources, Listener, Route, Cluster, VirtualHost
<1>2. ASSUME NEW a  PROVE assigned(a) = {Assignment(sp, a) : sp \in SlicePortsOf}
  BY SMTT(30) DEF clusterLoadAssignments, SlicePortsOf, Assignment, StoreInv, Stores
<1>3. /\ Snapshot.listeners = of(NoAuthority).listeners \cup of(Authority).listeners
      /\ Snapshot.routes = of(NoAuthority).routes \cup of(Authority).routes
      /\ Snapshot.clusters = of(NoAuthority).clusters \cup of(Authority).clusters
      /\ Snapshot.assignments = assigned(NoAuthority) \cup assigned(Authority)
  <2>. HIDE DEF of, assigned
  <2>. QED  BY DEF Snapshot, of, assigned
<1>. HIDE DEF of, assigned
<1>. QED  BY <1>1, <1>2, <1>3, SMTT(30) DEF Auths

(* A virtual host leads to the one cluster that is made with it. *)
LEMMA ClusterFact ==
  ASSUME StoreInv, NEW sp \in PortsOf(published), NEW a \in Auths
  PROVE  ClustersOf(VirtualHost(sp, a), Snapshot) = {Cluster(sp, a)}
<1>1. \A sq, b : Cluster(sq, b).Name = ClusterNameFor(sq[1], sq[2], b)
  BY DEF Cluster, makeCluster
<1>2. VirtualHost(sp, a).Cluster = ClusterNameFor(sp[1], sp[2], a)
  BY DEF VirtualHost, makeVirtualHost
<1>3. \A sq \in PortsOf(published), b \in Auths :
        Cluster(sq, b).Name = VirtualHost(sp, a).Cluster <=> sq = sp /\ b = a
  <2>1. \A sq \in PortsOf(published), b \in Auths :
          ClusterNameFor(sq[1], sq[2], b) = ClusterNameFor(sp[1], sp[2], a) <=> sq = sp /\ b = a
    BY NamesFact, PortFact, SMTT(30)
  <2>. QED  BY <1>1, <1>2, <2>1
<1>. QED  BY <1>3, SnapshotFact, SMTT(30) DEF ClustersOf

(* A cluster leads to the endpoints of its Service and port. *)
LEMMA AssignmentFact ==
  ASSUME StoreInv, NEW sp \in PortsOf(published), NEW a \in Auths
  PROVE  {as.endpoints : as \in AssignmentsOf(Cluster(sp, a), Snapshot)} =
           IF sp[2] \in SlicePorts[sp[1]] THEN {sp} ELSE {}
<1>. DEFINE c == Cluster(sp, a)
            name == IF c.ServiceName = Unset THEN c.Name ELSE c.ServiceName
<1>1. name = LoadAssignmentNameFor(sp[1], sp[2], a)
  BY SpecsAssumption, PortFact DEF Cluster, makeCluster, Auths, ClusterNameFor, LoadAssignmentNameFor, NameFor
<1>2. \A sq, b : Assignment(sq, b).ClusterName = LoadAssignmentNameFor(sq[1], sq[2], b)
                /\ Assignment(sq, b).endpoints = <<sq[1], sq[2]>>
  BY DEF Assignment
<1>3. \A sq \in SlicePortsOf, b \in Auths :
        Assignment(sq, b).ClusterName = name <=> sq = sp /\ b = a
  BY <1>1, <1>2, NamesFact, PortFact, SMTT(30)
<1>4. AssignmentsOf(c, Snapshot) = {as \in Snapshot.assignments : as.ClusterName = name}
  BY DEF AssignmentsOf
<1>5. sp \in SlicePortsOf <=> sp[2] \in SlicePorts[sp[1]]
  BY PortFact
<1>6. sp = <<sp[1], sp[2]>>
  BY PortFact
<1>. HIDE DEF c, name
<1>7. AssignmentsOf(c, Snapshot) = {Assignment(sq, a) : sq \in SlicePortsOf \cap {sp}}
  BY <1>3, <1>4, SnapshotFact, SMTT(30)
<1>. QED  BY <1>2, <1>5, <1>6, <1>7, SMTT(30) DEF c

(***************************************************************************)
(* A client that asks for the listener of a Service and port, by its plain *)
(* or its xdstp name, is led to exactly one cluster and to the endpoints   *)
(* of that Service and port, whatever store the reconciliations publish:   *)
(* no name made by servicesToResources dangles, and no two meet.           *)
(***************************************************************************)
THEOREM ListenersLead == Spec => []ListenersLeadToEndpoints
<1>1. StoreInv => ListenersLeadToEndpoints
  <2>. SUFFICES ASSUME StoreInv  PROVE ListenersLeadToEndpoints
    OBVIOUS
  <2>. SUFFICES ASSUME NEW sp \in PortsOf(published), NEW a \in Auths
                PROVE  \E l \in Snapshot.listeners :
                         /\ {o \in Snapshot.listeners : o.Name = ListenerNameFor(sp[1], sp[2], a)} = {l}
                         /\ l.RouteConfig \in Snapshot.routes
                         /\ \A vh \in l.RouteConfig.VirtualHosts :
                              /\ makeGlobalServiceDomain(sp[1], sp[2]) \in vh.Domains
                              /\ LeadsTo(vh, Snapshot, sp)
    BY DEF ListenersLeadToEndpoints, Auths
  <2>1. Listener(sp, a) \in Snapshot.listeners /\ Route(sp, a) \in Snapshot.routes /\ Cluster(sp, a) \in Snapshot.clusters
    BY SnapshotFact, SMTT(30)
  <2>2. \A sq, b : Listener(sq, b).Name = ListenerNameFor(sq[1], sq[2], b) /\ Listener(sq, b).RouteConfig = Route(sq, b)
    BY DEF Listener, makeListener
  <2>3. {o \in Snapshot.listeners : o.Name = ListenerNameFor(sp[1], sp[2], a)} = {Listener(sp, a)}
    <3>1. \A sq \in PortsOf(published), b \in Auths :
            Listener(sq, b).Name = ListenerNameFor(sp[1], sp[2], a) <=> sq = sp /\ b = a
      BY <2>2, NamesFact, PortFact, SMTT(30)
    <3>. QED  BY <3>1, SnapshotFact, SMTT(30)
  <2>4. Route(sp, a).VirtualHosts = {VirtualHost(sp, a)}
    BY DEF Route, makeRouteConfig
  <2>5. makeGlobalServiceDomain(sp[1], sp[2]) \in VirtualHost(sp, a).Domains
    BY DEF VirtualHost, makeVirtualHost
  <2>6. LeadsTo(VirtualHost(sp, a), Snapshot, sp)
    BY <2>1, ClusterFact, AssignmentFact DEF LeadsTo
  <2>. QED  BY <2>1, <2>2, <2>3, <2>4, <2>5, <2>6
<1>. QED  BY <1>1, StoreInvariance, PTL

(***************************************************************************)
(* Routes and clusters agree on rings in every published snapshot: a route *)
(* hashes, and a cluster configures a ring, only where the cluster picks   *)
(* by ring (extractRingHashPolicies, extractRingHashConfig, makeCluster).  *)
(***************************************************************************)
THEOREM RingsForHashes == Spec => []HashedRoutesHaveRings
<1>1. StoreInv => HashedRoutesHaveRings
  <2>. SUFFICES ASSUME StoreInv  PROVE HashedRoutesHaveRings
    OBVIOUS
  <2>. SUFFICES ASSUME NEW sp \in PortsOf(published), NEW a \in Auths,
                       VirtualHost(sp, a).HashPolicy # <<>> \/ Cluster(sp, a).LbConfig # Unset
                PROVE  Cluster(sp, a).LbPolicy = "RING_HASH"
    <3>1. \A sp \in PortsOf(published), a \in Auths : Route(sp, a).VirtualHosts = {VirtualHost(sp, a)}
      BY DEF Route, makeRouteConfig
    <3>. QED  BY <3>1, SnapshotFact, ClusterFact, SMTT(30) DEF HashedRoutesHaveRings
  <2>. DEFINE entry == published[sp[1]]
  <2>1. entry.RingHashPolicies # <<>> \/ entry.Policy = "RING_HASH"
    BY DEF VirtualHost, makeVirtualHost, Cluster, makeCluster
  <2>2. entry.RingHashPolicies # <<>> => entry.Policy = "RING_HASH"
    <3>1. PICK settings \in SourceSettings, ports \in PortSets : entry = Entry(settings, ports)
      BY PortFact, SMTT(30) DEF StoreEntries
    <3>2. settings.RingHashPolicies # <<>> => settings.Policy = "RING_HASH"
      BY SMTT(30) DEF SourceSettings, LabelService, SpecService, extractRingHashPolicies
    <3>. QED  BY <3>1, <3>2, SMTT(30) DEF Entry
  <2>. QED  BY <2>1, <2>2 DEF Cluster, makeCluster
<1>. QED  BY <1>1, StoreInvariance, PTL

(* What delta clients find, all under plain names *)
DeltaHost(sp) ==
  patchVirtualHostForOnDemandDiscovery([VirtualHost(sp, NoAuthority) EXCEPT !.Name = kubeDynamic(@)])

DeltaCluster(sp) == patchClusterDeltaEDS(Cluster(sp, NoAuthority))

(***************************************************************************)
(* The virtual host of a delta client differs from the plain one in its    *)
(* name and in where its cluster comes from.                               *)
(***************************************************************************)
LEMMA DeltaHostFact ==
  ASSUME NEW sp
  PROVE  LET vh == DeltaHost(sp)
             plain == VirtualHost(sp, NoAuthority)
         IN  /\ vh.Name = kubeDynamic(ListenerNameFor(sp[1], sp[2], NoAuthority))
             /\ vh.OnDemandCds = "xds_cluster"
             /\ vh.Cluster = plain.Cluster
             /\ vh.HashPolicy = plain.HashPolicy
             /\ vh.RetryPolicy = plain.RetryPolicy
  BY DEF DeltaHost, patchVirtualHostForOnDemandDiscovery, VirtualHost, makeVirtualHost

(* The cluster of a delta client differs from the plain one in where its endpoints come from. *)
LEMMA DeltaClusterFact ==
  ASSUME NEW sp
  PROVE  LET c == DeltaCluster(sp)
             plain == Cluster(sp, NoAuthority)
         IN  /\ c.Name = plain.Name
             /\ c.LbPolicy = plain.LbPolicy
             /\ c.LbConfig = plain.LbConfig
             /\ c.ServiceName = Unset /\ plain.ServiceName = Unset
             /\ c.EdsConfig = "xds_cluster"
             /\ plain.Name = ClusterNameFor(sp[1], sp[2], NoAuthority)
  BY DEF DeltaCluster, patchClusterDeltaEDS, Cluster, makeCluster

(* What the linear caches are made of. *)
LEMMA DeltaFact ==
  ASSUME StoreInv
  PROVE  /\ Delta.virtualHosts = {DeltaHost(sp) : sp \in PortsOf(published)}
         /\ Delta.routes = {makeKubeDynamicRouteConfig}
         /\ Delta.clusters = {DeltaCluster(sp) : sp \in PortsOf(published)}
         /\ Delta.assignments = {Assignment(sp, NoAuthority) : sp \in SlicePortsOf}
<1>. DEFINE of == servicesToResourcesWithNames(published, NoAuthority)
            assigned == clusterLoadAssignments(published, SlicePorts, NoAuthority)
<1>1. /\ of.virtualHosts = {DeltaHost(sp) : sp \in PortsOf(published)}
      /\ of.routes = {makeKubeDynamicRouteConfig}
      /\ of.clusters = {DeltaCluster(sp) : sp \in PortsOf(published)}
  BY DEF servicesToResourcesWithNames, DeltaHost, DeltaCluster, VirtualHost, Cluster
<1>2. assigned = {Assignment(sp, NoAuthority) : sp \in SlicePortsOf}
  BY SMTT(30) DEF clusterLoadAssignments, SlicePortsOf, Assignment, StoreInv, Stores
<1>3. /\ Delta.virtualHosts = of.virtualHosts /\ Delta.routes = of.routes
      /\ Delta.clusters = of.clusters /\ Delta.assignments = assigned
  BY DEF Delta
<1>. HIDE DEF of, assigned
<1>. QED  BY <1>1, <1>2, <1>3

(***************************************************************************)
(* A delta client, which starts from a virtual host under the name of the  *)
(* kube_dynamic route, gets to the same endpoints under the same policies  *)
(* as other clients, in every published store                              *)
(* (servicesToResourcesWithNames).                                         *)
(***************************************************************************)
THEOREM DeltaLeads == Spec => []DeltaLeadsToTheSame
<1>1. StoreInv => DeltaLeadsToTheSame
  <2>. SUFFICES ASSUME StoreInv  PROVE DeltaLeadsToTheSame
    OBVIOUS
  <2>. DEFINE policies(vh, snap) == {<<c.LbPolicy, c.LbConfig>> : c \in ClustersOf(vh, snap)}
  <2>. SUFFICES ASSUME NEW sp \in PortsOf(published)
                PROVE  LET route == makeKubeDynamicRouteConfig
                           vh == DeltaHost(sp)
                           plain == VirtualHost(sp, NoAuthority)
                       IN  /\ route \in Delta.routes /\ vh \in Delta.virtualHosts
                           /\ vh.Name = <<"%s/%s", route.Name, ListenerNameFor(sp[1], sp[2], NoAuthority)>>
                           /\ vh.OnDemandCds = route.Vhds
                           /\ \A c \in ClustersOf(vh, Delta) : c.EdsConfig = route.Vhds
                           /\ vh.HashPolicy = plain.HashPolicy /\ vh.RetryPolicy = plain.RetryPolicy
                           /\ LeadsTo(vh, Delta, sp)
                           /\ policies(vh, Delta) = policies(plain, Snapshot)
    BY DEF DeltaLeadsToTheSame, VirtualHost
  <2>1. makeKubeDynamicRouteConfig.Name = "kube_dynamic" /\ makeKubeDynamicRouteConfig.Vhds = "xds_cluster"
    BY DEF makeKubeDynamicRouteConfig
  <2>2. makeKubeDynamicRouteConfig \in Delta.routes /\ DeltaHost(sp) \in Delta.virtualHosts
    BY DeltaFact
  <2>3. ClustersOf(DeltaHost(sp), Delta) = {DeltaCluster(sp)}
    <3>1. \A sq \in PortsOf(published) : DeltaCluster(sq).Name = DeltaHost(sp).Cluster <=> sq = sp
      <4>1. \A sq \in PortsOf(published) :
              ClusterNameFor(sq[1], sq[2], NoAuthority) = ClusterNameFor(sp[1], sp[2], NoAuthority) <=> sq = sp
        BY NamesFact, PortFact, SMTT(30)
      <4>2. VirtualHost(sp, NoAuthority).Cluster = ClusterNameFor(sp[1], sp[2], NoAuthority)
        BY DEF VirtualHost, makeVirtualHost
      <4>. QED  BY <4>1, <4>2, DeltaClusterFact, DeltaHostFact
    <3>. QED  BY <3>1, DeltaFact DEF ClustersOf
  <2>4. ClustersOf(VirtualHost(sp, NoAuthority), Snapshot) = {Cluster(sp, NoAuthority)}
    BY ClusterFact DEF Auths
  <2>5. {as.endpoints : as \in AssignmentsOf(DeltaCluster(sp), Delta)} =
          IF sp[2] \in SlicePorts[sp[1]] THEN {sp} ELSE {}
    <3>1. AssignmentsOf(DeltaCluster(sp), Delta) =
            {as \in Delta.assignments : as.ClusterName = LoadAssignmentNameFor(sp[1], sp[2], NoAuthority)}
      <4>1. ClusterNameFor(sp[1], sp[2], NoAuthority) = LoadAssignmentNameFor(sp[1], sp[2], NoAuthority)
        BY DEF LoadAssignmentNameFor, ClusterNameFor, NameFor
      <4>2. LET c == DeltaCluster(sp)
            IN  (IF c.ServiceName = Unset THEN c.Name ELSE c.ServiceName) = ClusterNameFor(sp[1], sp[2], NoAuthority)
        BY DeltaClusterFact
      <4>. QED  BY <4>1, <4>2 DEF AssignmentsOf
    <3>2. \A sq : /\ Assignment(sq, NoAuthority).ClusterName = LoadAssignmentNameFor(sq[1], sq[2], NoAuthority)
                  /\ Assignment(sq, NoAuthority).endpoints = <<sq[1], sq[2]>>
      BY DEF Assignment
    <3>3. \A sq \in SlicePortsOf :
            Assignment(sq, NoAuthority).ClusterName = LoadAssignmentNameFor(sp[1], sp[2], NoAuthority) <=> sq = sp
      <4>1. \A sq \in SlicePortsOf : LoadAssignmentNameFor(sq[1], sq[2], NoAuthority)
                                      = LoadAssignmentNameFor(sp[1], sp[2], NoAuthority) <=> sq = sp
        BY NamesFact, PortFact, SMTT(30)
      <4>. QED  BY <3>2, <4>1
    <3>4. AssignmentsOf(DeltaCluster(sp), Delta) = {Assignment(sq, NoAuthority) : sq \in SlicePortsOf \cap {sp}}
      BY <3>1, <3>3, DeltaFact
    <3>5. sp = <<sp[1], sp[2]>> /\ (sp \in SlicePortsOf <=> sp[2] \in SlicePorts[sp[1]])
      BY PortFact
    <3>6. CASE sp \in SlicePortsOf
      <4>1. AssignmentsOf(DeltaCluster(sp), Delta) = {Assignment(sp, NoAuthority)}
        BY <3>4, <3>6
      <4>2. Assignment(sp, NoAuthority).endpoints = sp
        BY <3>2, <3>5
      <4>3. {as.endpoints : as \in AssignmentsOf(DeltaCluster(sp), Delta)} = {sp}
        BY <4>1, <4>2, SMTT(30)
      <4>. QED  BY <3>5, <3>6, <4>3
    <3>7. CASE sp \notin SlicePortsOf
      <4>1. AssignmentsOf(DeltaCluster(sp), Delta) = {}
        BY <3>4, <3>7
      <4>. QED  BY <3>5, <3>7, <4>1
    <3>. QED  BY <3>6, <3>7
  <2>6. LeadsTo(DeltaHost(sp), Delta, sp)
    <3>1. DeltaCluster(sp) \in Delta.clusters
      BY DeltaFact
    <3>. QED  BY <2>3, <2>5, <3>1 DEF LeadsTo
  <2>7. policies(DeltaHost(sp), Delta) = policies(VirtualHost(sp, NoAuthority), Snapshot)
    BY <2>3, <2>4, DeltaClusterFact
  <2>. QED  BY <2>1, <2>2, <2>3, <2>6, <2>7, DeltaHostFact, DeltaClusterFact DEF kubeDynamic
<1>. QED  BY <1>1, StoreInvariance, PTL

-----------------------------------------------------------------------------
(* Endpoints and their priorities *)

(* Only slices that exist say anything, and what a slice can say *)
EndpointsInv ==
  /\ slices \in [Slices -> [ports : SUBSET Ports, endpoints : SUBSET [pod : UNION {PodsOf[e] : e \in Slices}, ready : BOOLEAN]]]
  /\ present \subseteq Slices
  /\ \A e \in present : slices[e] \in SliceValues(e)
  /\ service \in ServiceSettings

(* Slices come and go with their types, and a slice that exists lists its own pods. *)
LEMMA EndpointsInvariance == EndpointsSpec => []EndpointsInv
<1>1. \A e \in Slices : SliceValues(e) \subseteq
        [ports : SUBSET Ports, endpoints : SUBSET [pod : UNION {PodsOf[x] : x \in Slices}, ready : BOOLEAN]]
  BY SMTT(30) DEF SliceValues
<1>2. EndpointsInit => EndpointsInv
  BY SMTT(30) DEF EndpointsInit, EndpointsInv, NoSlice
<1>3. EndpointsInv /\ [EndpointsNext]_endpointVars => EndpointsInv'
  <2>. SUFFICES ASSUME EndpointsInv, [EndpointsNext]_endpointVars  PROVE EndpointsInv'
    OBVIOUS
  <2>1. ASSUME NEW e \in Slices, NEW value \in SliceValues(e), SliceApplied(e, value)
        PROVE  EndpointsInv'
    BY <1>1, <2>1 DEF EndpointsInv, SliceApplied
  <2>2. ASSUME NEW e \in Slices, SliceDeleted(e)  PROVE EndpointsInv'
    BY <2>2 DEF EndpointsInv, SliceDeleted, NoSlice
  <2>3. CASE UNCHANGED endpointVars
    BY <2>3 DEF EndpointsInv, endpointVars
  <2>. QED  BY <2>1, <2>2, <2>3 DEF EndpointsNext
<1>. QED  BY <1>2, <1>3, PTL DEF EndpointsSpec

(* The priority of the endpoints of a slice, and whether they are served at all *)
PriorityOf(e) == IF e \in LocalSlices THEN 0 ELSE RemotePriority(service, local)
IsServed(e) == e \in LocalSlices \/ service.EnableRemoteEndpoints
Endpoint(p, ep, e) == [port |-> p, pod |-> ep.pod, healthy |-> ep.ready, priority |-> PriorityOf(e)]

ServedEndpoints == clusterEndpoints(endpointsStore(service, local, remote))

(* What is stored is what the slices say, slice by slice. *)
LEMMA EntriesFact ==
  ASSUME EndpointsInv
  PROVE  \A entry : entry \in endpointsStore(service, local, remote) <=>
           \E e \in present : /\ IsServed(e) /\ (e \in LocalSlices => slices[e].endpoints # {})
                              /\ entry = [slice |-> slices[e], priority |-> PriorityOf(e)]
<1>1. \A entry : entry \in LocalEntries(local) <=>
        \E e \in present \cap LocalSlices :
          slices[e].endpoints # {} /\ entry = [slice |-> slices[e], priority |-> 0]
  BY DEF LocalEntries, local
<1>2. \A entry : entry \in RemoteEntries(service, local, remote) <=>
        \E e \in present \cap RemoteSlices :
          /\ service.EnableRemoteEndpoints
          /\ entry = [slice |-> slices[e], priority |-> RemotePriority(service, local)]
  BY DEF RemoteEntries, remote
<1>. QED
  BY <1>1, <1>2, SlicesAssumption DEF endpointsStore, EndpointsInv, IsServed, PriorityOf, Slices

(* What is served, endpoint by endpoint. *)
LEMMA ServedFact ==
  ASSUME EndpointsInv
  PROVE  \A ce : ce \in ServedEndpoints <=>
           \E e \in present : IsServed(e) /\ \E p \in slices[e].ports, ep \in slices[e].endpoints :
             ce = Endpoint(p, ep, e)
<1>. DEFINE store == endpointsStore(service, local, remote)
<1>1. \A ce : ce \in ServedEndpoints <=>
        \E entry \in store : \E p \in entry.slice.ports, ep \in entry.slice.endpoints :
          ce = [port |-> p, pod |-> ep.pod, healthy |-> ep.ready, priority |-> entry.priority]
  <2>. HIDE DEF store
  <2>. QED  BY SMTT(30) DEF ServedEndpoints, clusterEndpoints, endpointSliceToClusterEndpoints, store
<1>2. ASSUME NEW ce \in ServedEndpoints
      PROVE  \E e \in present : IsServed(e) /\ \E p \in slices[e].ports, ep \in slices[e].endpoints :
               ce = Endpoint(p, ep, e)
  <2>1. PICK entry \in store : \E p \in entry.slice.ports, ep \in entry.slice.endpoints :
          ce = [port |-> p, pod |-> ep.pod, healthy |-> ep.ready, priority |-> entry.priority]
    BY <1>1
  <2>2. PICK e \in present : IsServed(e) /\ entry = [slice |-> slices[e], priority |-> PriorityOf(e)]
    BY EntriesFact
  <2>3. entry.slice = slices[e] /\ entry.priority = PriorityOf(e)
    BY <2>2
  <2>. QED  BY <2>1, <2>2, <2>3 DEF Endpoint
<1>3. ASSUME NEW e \in present, IsServed(e), NEW p \in slices[e].ports, NEW ep \in slices[e].endpoints
      PROVE  Endpoint(p, ep, e) \in ServedEndpoints
  <2>. DEFINE entry == [slice |-> slices[e], priority |-> PriorityOf(e)]
  <2>1. entry \in store
    BY <1>3, EntriesFact
  <2>2. entry.slice = slices[e] /\ entry.priority = PriorityOf(e)
    OBVIOUS
  <2>. HIDE DEF entry, store
  <2>. QED  BY <1>1, <2>1, <2>2 DEF Endpoint
<1>. QED  BY <1>2, <1>3

(* A cluster holds what is served on its port. *)
LEMMA ClustersFact ==
  /\ \A ce : ce \in UNION {clusters[q] : q \in DOMAIN clusters} <=> ce \in ServedEndpoints
  /\ \A p \in DOMAIN clusters : clusters[p] = {ce \in ServedEndpoints : ce.port = p} /\ clusters[p] # {}
<1>. DEFINE ports == {ce.port : ce \in ServedEndpoints}
<1>1. clusters = [p \in ports |-> {ce \in ServedEndpoints : ce.port = p}]
  BY DEF clusters, createClusters, ServedEndpoints
<1>2. DOMAIN clusters = ports /\ \A p \in ports : clusters[p] = {ce \in ServedEndpoints : ce.port = p}
  BY <1>1
<1>. QED  BY <1>2, SMTT(30)

(* What a slice lists is in the list of entries of its cluster. *)
LEMMA InCluster ==
  ASSUME EndpointsInv, NEW p \in DOMAIN clusters, NEW ce \in clusters[p]
  PROVE  \E e \in present : \E ep \in slices[e].endpoints :
           IsServed(e) /\ p \in slices[e].ports /\ ce = Endpoint(p, ep, e)
<1>1. ce \in ServedEndpoints /\ ce.port = p
  BY ClustersFact
<1>2. \A q, ep, e : Endpoint(q, ep, e).port = q
  BY DEF Endpoint
<1>3. PICK e \in present : IsServed(e) /\ \E q \in slices[e].ports, ep \in slices[e].endpoints : ce = Endpoint(q, ep, e)
  BY <1>1, ServedFact
<1>. QED  BY <1>1, <1>2, <1>3

(* One endpoint is counted as one, and none as none. *)
LEMMA CountFact == Cardinality({}) = 0 /\ \A x : Cardinality({x}) = 1
<1>. DEFINE Counts(f, S) == f = [T \in SUBSET S |-> IF T = {} THEN 0 ELSE 1 + f[T \ {CHOOSE x : x \in T}]]
            CS(S) == CHOOSE f : Counts(f, S)
<1>1. \A S : Cardinality(S) = CS(S)[S]
  BY DEF Cardinality
<1>2. Counts([T \in SUBSET {} |-> 0], {})
  OBVIOUS
<1>3. Counts(CS({}), {})
  BY <1>2
<1>4. ASSUME NEW x  PROVE CS({x})[{x}] = 1
  <2>1. Counts([T \in SUBSET {x} |-> IF T = {} THEN 0 ELSE 1], {x})
    <3>1. \A T \in SUBSET {x} : T # {} => T \ {CHOOSE y : y \in T} = {}
      OBVIOUS
    <3>. QED  BY <3>1, SMTT(30)
  <2>2. Counts(CS({x}), {x})
    BY <2>1
  <2>3. {x} \ {CHOOSE y : y \in {x}} = {}
    OBVIOUS
  <2>4. CS({x})[{}] = 0 /\ CS({x})[{x}] = 1 + CS({x})[{x} \ {CHOOSE y : y \in {x}}]
    <3>. DEFINE g == CS({x})
    <3>1. g = [T \in SUBSET {x} |-> IF T = {} THEN 0 ELSE 1 + g[T \ {CHOOSE y : y \in T}]]
      BY <2>2
    <3>. HIDE DEF g
    <3>2. {} \in SUBSET {x} /\ {x} \in SUBSET {x} /\ {x} # {}
      OBVIOUS
    <3>3. g[{}] = 0 /\ g[{x}] = 1 + g[{x} \ {CHOOSE y : y \in {x}}]
      BY <3>1, <3>2
    <3>. QED  BY <3>3 DEF g
  <2>5. CS({x})[{x}] = 1 + 0
    BY <2>3, <2>4
  <2>6. 1 + 0 = 1
    BY SMTT(30)
  <2>. QED  BY <2>5, <2>6
<1>5. CS({})[{}] = 0
  BY <1>3
<1>. QED  BY <1>1, <1>4, <1>5

(***************************************************************************)
(* An endpoint is known by its pod: no two slices, and no two endpoints of *)
(* a slice, have the same pod.                                             *)
(***************************************************************************)
LEMMA PodFact ==
  ASSUME EndpointsInv, NEW e1 \in present, NEW e2 \in present,
         NEW ep1 \in slices[e1].endpoints, NEW ep2 \in slices[e2].endpoints, ep1.pod = ep2.pod
  PROVE  e1 = e2 /\ ep1 = ep2 /\ ep1 = [pod |-> ep1.pod, ready |-> ep1.ready] /\ ep1.pod \in PodsOf[e1]
<1>1. \A e \in present : /\ slices[e].endpoints \subseteq [pod : PodsOf[e], ready : BOOLEAN]
                         /\ \A x, y \in slices[e].endpoints : x.pod = y.pod => x = y
  BY DEF EndpointsInv, SliceValues
<1>. QED  BY <1>1, SlicesAssumption DEF EndpointsInv

(***************************************************************************)
(* Every endpoint of a slice is served exactly once for each port of the   *)
(* slice, as ready as it is, and a remote one only when the Service        *)
(* enables remote endpoints: for any slices, pods and ports,               *)
(* createClustersFromEndpointStore neither drops nor repeats one.          *)
(***************************************************************************)
THEOREM Served == EndpointsSpec => []EveryEndpointIsServed
<1>1. EndpointsInv => EveryEndpointIsServed
  <2>. SUFFICES ASSUME EndpointsInv  PROVE EveryEndpointIsServed
    OBVIOUS
  <2>. SUFFICES ASSUME NEW e \in present, NEW p \in Ports, NEW ep \in slices[e].endpoints
                PROVE  LET served == {ce \in UNION {clusters[q] : q \in DOMAIN clusters} :
                                        ce.port = p /\ ce.pod = ep.pod /\ ce.healthy = ep.ready}
                           expected == p \in slices[e].ports
                                         /\ (e \in LocalSlices \/ service.EnableRemoteEndpoints)
                       IN  Cardinality(served) = IF expected THEN 1 ELSE 0
    BY DEF EveryEndpointIsServed
  <2>. DEFINE served == {ce \in UNION {clusters[q] : q \in DOMAIN clusters} :
                           ce.port = p /\ ce.pod = ep.pod /\ ce.healthy = ep.ready}
  <2>1. \A ce \in served : ce = Endpoint(p, ep, e) /\ p \in slices[e].ports /\ IsServed(e)
    <3>. SUFFICES ASSUME NEW ce \in served
                  PROVE  ce = Endpoint(p, ep, e) /\ p \in slices[e].ports /\ IsServed(e)
      OBVIOUS
    <3>1. PICK x \in present : IsServed(x) /\ \E q \in slices[x].ports, y \in slices[x].endpoints : ce = Endpoint(q, y, x)
      BY ClustersFact, ServedFact
    <3>2. PICK q \in slices[x].ports, y \in slices[x].endpoints : ce = Endpoint(q, y, x)
      BY <3>1
    <3>3. q = p /\ y.pod = ep.pod
      BY <3>2 DEF Endpoint
    <3>. QED  BY <3>1, <3>2, <3>3, PodFact, SMTT(30)
  <2>2. p \in slices[e].ports /\ IsServed(e) => Endpoint(p, ep, e) \in served
    BY ClustersFact, ServedFact DEF Endpoint
  <2>. HIDE DEF served
  <2>3. CASE p \in slices[e].ports /\ IsServed(e)
    <3>1. served = {Endpoint(p, ep, e)}
      BY <2>1, <2>2, <2>3
    <3>. QED  BY <2>3, <3>1, CountFact DEF served, IsServed
  <2>4. CASE ~(p \in slices[e].ports /\ IsServed(e))
    <3>1. served = {}
      BY <2>1, <2>4
    <3>. QED  BY <2>4, <3>1, CountFact DEF served, IsServed
  <2>. QED  BY <2>3, <2>4
<1>. QED  BY <1>1, EndpointsInvariance, PTL

(***************************************************************************)
(* Nothing is served that no slice lists, and no cluster is empty: each    *)
(* endpoint served on a port is in a slice that exists and has the port    *)
(* (createClustersFromEndpointStore).                                      *)
(***************************************************************************)
THEOREM OnlyServed == EndpointsSpec => []ServedExists
<1>1. EndpointsInv => ServedExists
  <2>. SUFFICES ASSUME EndpointsInv  PROVE ServedExists
    OBVIOUS
  <2>. SUFFICES ASSUME NEW p \in DOMAIN clusters, NEW ce \in clusters[p]
                PROVE  \E e \in present : /\ p \in slices[e].ports
                                          /\ [pod |-> ce.pod, ready |-> ce.healthy] \in slices[e].endpoints
    BY ClustersFact DEF ServedExists
  <2>1. PICK e \in present : \E ep \in slices[e].endpoints : p \in slices[e].ports /\ ce = Endpoint(p, ep, e)
    BY InCluster
  <2>2. PICK ep \in slices[e].endpoints : ce = Endpoint(p, ep, e)
    BY <2>1
  <2>. QED  BY <2>1, <2>2, PodFact, SMTT(30) DEF Endpoint
<1>. QED  BY <1>1, EndpointsInvariance, PTL

(* The endpoints of a cluster, by where they are. *)
LEMMA PriorityFact ==
  ASSUME EndpointsInv, NEW p \in DOMAIN clusters
  PROVE  /\ \A ce \in LocalIn(p) : ce.priority = 0
         /\ \A ce \in RemoteIn(p) : ce.priority = RemotePriority(service, local)
         /\ clusters[p] = LocalIn(p) \cup RemoteIn(p)
<1>. SUFFICES ASSUME NEW ce \in clusters[p]
              PROVE  /\ ce \in LocalIn(p) => ce.priority = 0
                     /\ ce \in RemoteIn(p) => ce.priority = RemotePriority(service, local)
                     /\ ce \in LocalIn(p) \cup RemoteIn(p)
  BY DEF LocalIn, RemoteIn
<1>1. PICK e \in present : \E ep \in slices[e].endpoints : ce = Endpoint(p, ep, e)
  BY InCluster
<1>2. ce.pod \in PodsOf[e] /\ ce.priority = PriorityOf(e) /\ e \in Slices
  BY <1>1, PodFact, SMTT(30) DEF Endpoint, EndpointsInv
<1>. QED  BY <1>2, SlicesAssumption DEF PriorityOf, LocalIn, RemoteIn, Slices

(***************************************************************************)
(* With local-first, a cluster that has both kinds of endpoints has the    *)
(* local ones at priority 0 and the remote ones at 1, and without it all   *)
(* are at 0, for any slices and however they change                        *)
(* (endpointsStoreForXdsServiceStore).                                     *)
(***************************************************************************)
THEOREM LocalComesFirst == EndpointsSpec => []LocalFirst
<1>1. EndpointsInv => LocalFirst
  <2>. SUFFICES ASSUME EndpointsInv  PROVE LocalFirst
    OBVIOUS
  <2>. SUFFICES ASSUME NEW p \in DOMAIN clusters, LocalIn(p) # {}
                PROVE  LocalEntries(local) # {}
    BY PriorityFact DEF LocalFirst, RemotePriority
  <2>1. PICK ce \in clusters[p], e \in LocalSlices : ce.pod \in PodsOf[e]
    BY DEF LocalIn
  <2>2. PICK x \in present : \E ep \in slices[x].endpoints : ce = Endpoint(p, ep, x)
    BY InCluster
  <2>3. x = e
    BY <2>1, <2>2, PodFact, SlicesAssumption, SMTT(30) DEF Endpoint, EndpointsInv, Slices
  <2>4. slices[e] \in local /\ slices[e].endpoints # {}
    BY <2>1, <2>2, <2>3 DEF local
  <2>5. [slice |-> slices[e], priority |-> 0] \in LocalEntries(local)
    BY <2>4 DEF LocalEntries
  <2>. QED  BY <2>5
<1>. QED  BY <1>1, EndpointsInvariance, PTL

(***************************************************************************)
(* When all slices of a Service list the same ports, the priorities of     *)
(* every cluster range from 0 without a gap, for any slices. The           *)
(* hypothesis is needed: the run on PrioritiesDoNotSkip shows a cluster    *)
(* without priority 0 when they do not.                                    *)
(***************************************************************************)
THEOREM NoPriorityIsSkipped == EndpointsSpec => []PrioritiesDoNotSkipSamePorts
<1>1. EndpointsInv => PrioritiesDoNotSkipSamePorts
  <2>. SUFFICES ASSUME EndpointsInv  PROVE PrioritiesDoNotSkipSamePorts
    OBVIOUS
  <2>. SUFFICES ASSUME SamePorts, NEW p \in DOMAIN clusters
                PROVE  \E n \in 0..1 : Priorities(p) = 0..n
    BY DEF PrioritiesDoNotSkipSamePorts, PrioritiesDoNotSkip
  <2>1. /\ \A ce \in LocalIn(p) : ce.priority = 0
        /\ \A ce \in RemoteIn(p) : ce.priority = RemotePriority(service, local)
        /\ clusters[p] = LocalIn(p) \cup RemoteIn(p) /\ clusters[p] # {}
    BY PriorityFact, ClustersFact
  <2>2. CASE RemotePriority(service, local) = 0
    <3>1. Priorities(p) = {0}
      BY <2>1, <2>2 DEF Priorities
    <3>. QED  BY <3>1, SMTT(30)
  <2>3. CASE RemotePriority(service, local) = 1
    <3>1. PICK e \in present \cap LocalSlices : slices[e].endpoints # {}
      BY <2>3, SMTT(30) DEF RemotePriority, LocalEntries, local
    <3>2. PICK x \in present : slices[x].endpoints # {} /\ p \in slices[x].ports
      BY <2>1, InCluster
    <3>3. p \in slices[e].ports
      BY <3>1, <3>2 DEF SamePorts
    <3>4. PICK ep \in slices[e].endpoints : TRUE
      BY <3>1
    <3>5. Endpoint(p, ep, e) \in clusters[p] /\ Endpoint(p, ep, e).priority = 0
      BY <3>1, <3>3, ServedFact, ClustersFact DEF Endpoint, IsServed, PriorityOf
    <3>6. Priorities(p) = {0} \/ Priorities(p) = {0, 1}
      BY <2>1, <2>3, <3>5 DEF Priorities
    <3>. QED  BY <3>6, SMTT(30)
  <2>. QED  BY <2>2, <2>3 DEF RemotePriority
<1>. QED  BY <1>1, EndpointsInvariance, PTL

=============================================================================
