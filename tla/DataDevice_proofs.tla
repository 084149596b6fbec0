------------------------- MODULE DataDevice_proofs -------------------------
(***************************************************************************)
(* What holds of data sources and the device for every set of sources and  *)
(* any number of uses: types, that the device's source exists and knows    *)
(* it, that a source is told of no more ends than it had uses, and which   *)
(* selection the client has been offered.                                  *)
(*                                                                         *)
(* The end that is owed to the device's source is what carries the third:  *)
(* all ends go through fDataSource, and each clears it.                    *)
(*                                                                         *)
(* Of the data itself, for any set of types: a client gets back what one   *)
(* put there, and what is offered can be received.  The first is read off  *)
(* the conversions; for the second each step by which an offer is made of  *)
(* an application's message adds data for the types that it adds.          *)
(***************************************************************************)
EXTENDS DataDevice, DataTransfer, TLAPS

(* The source the device has was used and has not been told the end. *)
EndOwed == fDataSource # NoSource => owed[fDataSource] >= 1

IInv == TypeOK /\ SourceKnown /\ EndsOnce /\ EndOwed /\ SelectionCurrent

(* The state without the clipboard. *)
Held ==
    /\ sources \subseteq Source /\ linked \subseteq sources
    /\ fDataSource \in Source \cup {NoSource} /\ fDropPending \in BOOLEAN
    /\ owed \in [Source -> Int]
    /\ SourceKnown /\ EndsOnce /\ EndOwed

Offers ==
    /\ clipboard \in Source \cup {Other} /\ changes \in Nat
    /\ selection \in Source \cup {Other, NoSource} /\ missed \in BOOLEAN
    /\ SelectionCurrent

LEMMA OffersKept == ASSUME Offers, UNCHANGED clipVars PROVE Offers'
BY DEF Offers, clipVars, SelectionCurrent

(* A source in use has an end to come, whatever it was used for before.     *)
LEMMA UseHolds ==
    ASSUME Held, NEW s \in Source, Uses(s), sources' = sources, fDropPending' \in BOOLEAN
    PROVE  Held'
<1>1. owed' \in [Source -> Int] /\ owed'[s] = owed[s] + 1
      /\ \A t \in Source : t # s => owed'[t] = owed[t]
    BY DEF Uses, Held
<1>2. EndsOnce' /\ EndOwed'
    BY <1>1 DEF Uses, Held, EndsOnce, EndOwed
<1> QED
    BY <1>1, <1>2 DEF Uses, Held, SourceKnown

(* One end is told, to the source that has one to come. *)
LEMMA EndHolds ==
    ASSUME Held, Ends, sources' = sources, linked' \subseteq linked, fDropPending' \in BOOLEAN
    PROVE  Held'
<1>1. CASE fDataSource = NoSource
    BY <1>1 DEF Ends, Held, SourceKnown, EndsOnce, EndOwed
<1>2. CASE fDataSource # NoSource
  <2>1. fDataSource \in Source /\ owed[fDataSource] >= 1
    BY <1>2 DEF Held, EndOwed
  <2>2. owed' \in [Source -> Int] /\ owed'[fDataSource] = owed[fDataSource] - 1
        /\ \A t \in Source : t # fDataSource => owed'[t] = owed[t]
    BY <1>2, <2>1 DEF Ends, Held
  <2>3. EndsOnce'
    BY <2>1, <2>2 DEF Held, EndsOnce
  <2>4. SourceKnown' /\ EndOwed' /\ fDataSource' = NoSource
    BY DEF Ends, SourceKnown, EndOwed
  <2> QED
    BY <2>2, <2>3, <2>4 DEF Held
<1> QED
    BY <1>1, <1>2

LEMMA DestroyHolds ==
    ASSUME Held, NEW s \in Source, DestroySource(s) PROVE Held'
<1>1. owed' \in [Source -> Int] /\ owed'[s] = 0
      /\ \A t \in Source : t # s => owed'[t] = owed[t]
    BY DEF DestroySource, Held
<1>2. fDataSource' # s /\ (fDataSource' # NoSource => fDataSource' = fDataSource)
    BY SourceAssumption DEF DestroySource, Held, SourceKnown
<1>3. EndsOnce' /\ EndOwed' /\ SourceKnown'
    BY <1>1, <1>2 DEF DestroySource, Held, EndsOnce, EndOwed, SourceKnown
<1> QED
    BY <1>1, <1>2, <1>3 DEF DestroySource, Held

LEMMA FinishDragHolds == ASSUME Held, Offers, FinishDrag PROVE Held' /\ Offers'
BY EndHolds, OffersKept DEF FinishDrag

LEMMA Invariance == Spec => []IInv
<1>1. Init => IInv
  <2> SUFFICES ASSUME Init PROVE IInv
    OBVIOUS
  <2>1. owed \in [Source -> Int] /\ EndsOnce /\ changes \in Nat
    BY DEF Init, EndsOnce
  <2>2. SourceKnown /\ EndOwed /\ SelectionCurrent
    BY DEF Init, SourceKnown, EndOwed, SelectionCurrent
  <2>3. fDropPending \in BOOLEAN
    BY Zenon DEF Init
  <2> QED
    BY <2>1, <2>2, <2>3 DEF Init, IInv, TypeOK
<1>2. IInv /\ [Next]_deviceVars => IInv'
  <2> SUFFICES ASSUME Held, Offers, [Next]_deviceVars PROVE Held' /\ Offers'
    BY DEF IInv, Held, Offers, TypeOK
  <2> USE BoundAssumption
  <2>1. ASSUME NEW s \in Source, HandleCreateDataSource(s) PROVE Held' /\ Offers'
    BY <2>1, OffersKept
       DEF HandleCreateDataSource, Held, SourceKnown, EndsOnce, EndOwed
  <2>2. ASSUME NEW s \in Source, DestroySource(s) PROVE Held' /\ Offers'
    BY <2>2, DestroyHolds, OffersKept DEF DestroySource
  <2>3. ASSUME NEW s \in Source, HandleSetSelection(s) PROVE Held' /\ Offers'
    <3>1. Held'
        BY <2>3, UseHolds DEF HandleSetSelection, Held
    <3>2. Offers'
        BY <2>3 DEF HandleSetSelection, Committed, Offers, SelectionCurrent
    <3> QED
        BY <3>1, <3>2
  <2>4. ASSUME NEW s \in Source \cup {NoSource}, HandleStartDrag(s) PROVE Held' /\ Offers'
    <3>1. fDropPending' \in BOOLEAN /\ sources' = sources /\ Offers'
        BY <2>4, OffersKept DEF HandleStartDrag
    <3>2. CASE Uses(s)
        <4>1. s \in Source
            BY <3>2 DEF Uses, Held
        <4> QED
            BY <3>1, <3>2, <4>1, UseHolds
    <3>3. CASE UNCHANGED <<linked, fDataSource, owed>>
        BY <3>1, <3>3 DEF Held, SourceKnown, EndsOnce, EndOwed
    <3> QED
        BY <2>4, <3>2, <3>3 DEF HandleStartDrag
  <2>5. ASSUME HandleStartDragNowhere PROVE Held' /\ Offers'
    BY <2>5, OffersKept DEF HandleStartDragNowhere, Held, SourceKnown, EndsOnce, EndOwed
  <2>6. CASE UNCHANGED deviceVars
    BY <2>6, OffersKept DEF deviceVars, Held, SourceKnown, EndsOnce, EndOwed
  <2>7. ASSUME NEW tracking \in BOOLEAN, MouseUp(tracking) PROVE Held' /\ Offers'
    BY <2>6, <2>7, FinishDragHolds DEF MouseUp
  <2>8. ASSUME Dropped PROVE Held' /\ Offers'
    BY <2>8, OffersKept DEF Dropped, Held, SourceKnown, EndsOnce, EndOwed
  <2>9. ASSUME HandleCopyTargetReply PROVE Held' /\ Offers'
    BY <2>9, FinishDragHolds DEF HandleCopyTargetReply
  <2>10. ASSUME HandleFinish PROVE Held' /\ Offers'
    <3>1. Held'
        BY <2>10, EndHolds DEF HandleFinish, Held
    <3> QED
        BY <2>10, <3>1, OffersKept DEF HandleFinish
  <2>11. ASSUME ClipboardChanged PROVE Held' /\ Offers'
    <3>1. CASE ReadClipboard
        <4>1. Held'
            BY <2>11, <3>1, EndHolds DEF ClipboardChanged, ReadClipboard, Held
        <4>2. Offers'
            <5>1. selection' = clipboard' /\ missed' = FALSE /\ clipboard' = clipboard
                BY <2>11, <3>1 DEF ClipboardChanged, ReadClipboard
            <5>2. changes' \in Nat
                BY <2>11 DEF ClipboardChanged, Offers
            <5> QED
                BY <5>1, <5>2 DEF Offers, SelectionCurrent
        <4> QED
            BY <4>1, <4>2
    <3>2. CASE missed' = TRUE /\ UNCHANGED <<fDataSource, owed, selection>>
        <4>1. Held'
            BY <2>11, <3>2 DEF ClipboardChanged, Held, SourceKnown, EndsOnce, EndOwed
        <4>2. Offers'
            BY <2>11, <3>2 DEF ClipboardChanged, Offers, SelectionCurrent
        <4> QED
            BY <4>1, <4>2
    <3> QED
        BY <2>11, <3>1, <3>2 DEF ClipboardChanged
  <2>12. ASSUME Copy PROVE Held' /\ Offers'
    BY <2>12 DEF Copy, Committed, Held, SourceKnown, EndsOnce, EndOwed, Offers, SelectionCurrent
  <2> QED
    BY <2>1, <2>2, <2>3, <2>4, <2>5, <2>6, <2>7, <2>8, <2>9, <2>10, <2>11, <2>12 DEF Next
<1> QED
    BY <1>1, <1>2, PTL DEF Spec

(* Type correctness; a destroyed source is linked to nothing.               *)
THEOREM TypeCorrect == Spec => []TypeOK
<1>1. IInv => TypeOK
    BY DEF IInv
<1> QED
    BY <1>1, Invariance, PTL

(* The device never keeps a source that was destroyed.                      *)
THEOREM SourcesAreKnown == Spec => []SourceKnown
<1>1. IInv => SourceKnown
    BY DEF IInv
<1> QED
    BY <1>1, Invariance, PTL

(* A source is told of at most one end for each of its uses.                *)
THEOREM SourcesEndOnce == Spec => []EndsOnce
<1>1. IInv => EndsOnce
    BY DEF IInv
<1> QED
    BY <1>1, Invariance, PTL

(* With no notification under way the client has the current selection.     *)
THEOREM SelectionsAreCurrent == Spec => []SelectionCurrent
<1>1. IInv => SelectionCurrent
    BY DEF IInv
<1> QED
    BY <1>1, Invariance, PTL
-----------------------------------------------------------------------------
(* The data on its way *)

(* What any message may be, and the offer made of it. *)
Message(m) ==
    \/ /\ m.of = "client"
       /\ \E read \in SUBSET Mime, link \in BOOLEAN : m.content = Converted(read, link)
    \/ /\ m.of = "application"
       /\ m.content.strings \subseteq Untyped
       /\ \E types \in SUBSET Mime :
            m.content.data = AddData(NoData, types, "own")

Offer(o, m) ==
    o = IF m.of = "client" THEN OfferOfClient(m)
        ELSE OfferOfApplication(m.content)

TransferInv ==
    /\ fMimeTypes \subseteq Mime
    /\ message # Nothing => Message(message)
    /\ offer # Nothing => message # Nothing /\ Offer(offer, message)

LEMMA TransferInvariance == SpecTransfer => []TransferInv
<1>1. InitTransfer => TransferInv
    BY DEF InitTransfer, TransferInv
<1>2. TransferInv /\ [NextTransfer]_transferVars => TransferInv'
  <2> SUFFICES ASSUME TransferInv, [NextTransfer]_transferVars PROVE TransferInv'
    OBVIOUS
  <2> USE DEF TransferInv
  <2>1. CASE CreateSource
    BY <2>1 DEF CreateSource
  <2>2. CASE \E m \in Mime : HandleOffer(m)
    BY <2>2 DEF HandleOffer
  <2>3. ASSUME NEW read \in SUBSET fMimeTypes, NEW link \in BOOLEAN, ToMessage(read, link)
        PROVE  TransferInv'
    <3>1. /\ UNCHANGED <<fMimeTypes, offer>> /\ message = Nothing
          /\ message' = [of |-> "client", offered |-> fMimeTypes,
                         content |-> Converted(read, link)]
        BY <2>3 DEF ToMessage
    <3>2. message'.of = "client" /\ message'.content = Converted(read, link)
        BY <3>1
    <3>3. Message(message')
        BY <3>2 DEF Message
    <3> QED
        BY <3>1, <3>3
  <2>4. ASSUME NEW types \in SUBSET (Mime \ Command),
               NEW strings \in SUBSET Untyped, NEW also, CopyTypes(types, strings, also)
        PROVE  TransferInv'
    <3>1. /\ UNCHANGED <<fMimeTypes, offer>> /\ message = Nothing
          /\ message'.of = "application"
          /\ message'.content.data = AddData(NoData, types, "own")
          /\ message'.content.strings \subseteq Untyped
        BY <2>4 DEF CopyTypes
    <3>2. Message(message')
        BY <3>1 DEF Message
    <3> QED
        BY <3>1, <3>2
  <2>5. CASE Create
    BY <2>5 DEF Create, Offer
  <2>6. CASE UNCHANGED transferVars
    BY <2>6 DEF transferVars
  <2> QED
    BY <2>1, <2>2, <2>3, <2>4, <2>5, <2>6 DEF NextTransfer
<1> QED
    BY <1>1, <1>2, PTL DEF SpecTransfer

(* The offer that is made of what a source wrote. *)
Joined(o, c) == o.fData = [t \in Mime |-> c.data[t] \o c.raw[t]]

LEMMA ClientReceives ==
    ASSUME NEW read \in SUBSET Mime, NEW link, NEW o, NEW c, c = Converted(read, link),
           Joined(o, c),
           NEW m \in Mime, Has(c.raw, m)
    PROVE  IF m = Plain THEN Received(o, m) \in Text
           ELSE Received(o, m) = m
<1>1. c.raw[m] = <<m>>
    BY DEF Converted, Has
<1>2. m # Plain => c.data[m] = <<m>> \/ c.data[m] = <<>>
    BY DEF Converted
<1>3. m = Plain => c.data[m] = <<>> \/ \E t \in Text : c.data[m] = <<t>>
  <2>1. m = Plain => c.data[m] = PlainText(read)
    BY DEF Converted, Passed
  <2>2. CASE Utf8 \in read
    BY <2>1, <2>2 DEF PlainText, Text
  <2>3. CASE Utf8 \notin read /\ Utf8String \in read
    BY <2>1, <2>3 DEF PlainText, Text
  <2>4. CASE /\ read \cap {Utf8, Utf8String} = {}
             /\ Plain \in read
    BY <2>1, <2>4 DEF PlainText, Text
  <2>5. CASE read \cap Text = {}
    BY <2>1, <2>5 DEF PlainText, Text
  <2> QED
    BY <2>2, <2>3, <2>4, <2>5 DEF Text
<1>4. o.fData[m] = c.data[m] \o <<m>>
    BY <1>1 DEF Joined
<1>5. \A t : Head(<<t>> \o <<m>>) = t /\ <<t>> \o <<m>> # <<>>
    OBVIOUS
<1>6. Head(<<>> \o <<m>>) = m /\ <<>> \o <<m>> # <<>>
    OBVIOUS
<1>7. Has(o.fData, m)
    BY <1>2, <1>3, <1>4, <1>5, <1>6 DEF Has
<1>8. Received(o, m) = Head(o.fData[m])
    BY <1>7 DEF Received, Found
<1>9. Plain \in Text
    BY DEF Text
<1> QED
    BY <1>2, <1>3, <1>4, <1>5, <1>6, <1>8, <1>9

(* Data from an application and what the server adds. *)
Value == {"own", "link", "files", "picture"}

(* What is offered can be found, but for the strings. *)
Findable(o) ==
    /\ o.fData \in [Mime -> Seq(Value)]
    /\ \A m \in o.types \ Untyped :
         /\ m \in Mime /\ Found(o.fData, m) \in Mime
         /\ Has(o.fData, Found(o.fData, m))

LEMMA AddFinds ==
    ASSUME NEW data \in [Mime -> Seq(Value)], NEW types, NEW value \in Value
    PROVE  LET d == AddData(data, types, value)
           IN  /\ d \in [Mime -> Seq(Value)]
               /\ \A m \in Mime : Has(data, m) \/ m \in types => Has(d, m)
<1> DEFINE d == AddData(data, types, value)
<1>1. ASSUME NEW m \in Mime
      PROVE  /\ d[m] = IF m \in types THEN Append(data[m], value) ELSE data[m]
             /\ data[m] \in Seq(Value) /\ Append(data[m], value) \in Seq(Value)
             /\ Append(data[m], value) # <<>>
    BY DEF AddData
<1>2. d = [m \in Mime |-> d[m]]
    BY DEF AddData
<1> HIDE DEF d
<1>3. d \in [Mime -> Seq(Value)]
    BY <1>1, <1>2
<1>4. \A m \in Mime : Has(data, m) \/ m \in types => Has(d, m)
    BY <1>1 DEF Has
<1> QED
    BY <1>3, <1>4 DEF d

LEMMA MoreFindable ==
    ASSUME NEW o, Findable(o), NEW types \in SUBSET Mime, NEW value \in Value, NEW d,
           d.types = o.types \cup types, d.fData \in [Mime -> Seq(Value)],
           \A m \in Mime : Has(o.fData, m) \/ m \in types => Has(d.fData, m)
    PROVE  Findable(d)
<1>1. ASSUME NEW m \in d.types \ Untyped
      PROVE  /\ m \in Mime /\ Has(d.fData, Found(d.fData, m))
             /\ Found(d.fData, m) \in Mime
  <2>1. CASE m \in types
    BY <2>1 DEF Found
  <2>2. CASE m \in o.types
    BY <2>2 DEF Found, Findable
  <2> QED
    BY <2>1, <2>2
<1> QED
    BY <1>1 DEF Findable

LEMMA ExtendedFindable ==
    ASSUME NEW o, Findable(o), NEW types \in SUBSET Mime, NEW value \in Value
    PROVE  Findable(Extended(o, types, value))
<1> DEFINE d == Extended(o, types, value)
<1>1. d.types = o.types \cup types /\ d.fData = AddData(o.fData, types, value)
    BY DEF Extended
<1>2. o.fData \in [Mime -> Seq(Value)]
    BY DEF Findable
<1> HIDE DEF d
<1>3. /\ d.fData \in [Mime -> Seq(Value)]
      /\ \A m \in Mime : Has(o.fData, m) \/ m \in types => Has(d.fData, m)
    BY <1>1, <1>2, AddFinds
<1>4. Findable(d)
    BY <1>1, <1>3, MoreFindable
<1> QED
    BY <1>4 DEF d

LEMMA CompletedFindable ==
    ASSUME NEW o, Findable(o), NEW types \in SUBSET Mime, NEW value \in Value
    PROVE  Findable(Completed(o, types, value))
<1> DEFINE missing == {m \in types : ~Has(o.fData, m)}
<1>1. Completed(o, types, value) = Extended(o, missing, value)
    BY DEF Completed, Extended
<1>2. missing \in SUBSET Mime
    OBVIOUS
<1> HIDE DEF missing
<1> QED
    BY <1>1, <1>2, ExtendedFindable

LEMMA ApplicationFindable ==
    ASSUME NEW types \in SUBSET Mime, NEW content,
           content.data = AddData(NoData, types, "own"),
           content.strings \subseteq Untyped
    PROVE  Findable(OfferOfApplication(content))
<1>1. /\ Link \in SUBSET Mime /\ {Uris} \in SUBSET Mime
      /\ {Plain, Utf8} \in SUBSET Mime /\ {Png} \in SUBSET Mime
    BY MimeAssumption DEF Link
<1>2. "own" \in Value /\ "link" \in Value /\ "files" \in Value /\ "picture" \in Value
    BY DEF Value
<1> DEFINE o1 == OfferOfFields(content)
           o2 == IF "originator" \in content.also
                 THEN Extended(o1, Link, "link") ELSE o1
           o3 == IF "META" \in content.also
                 THEN Completed(o2, Link, "link") ELSE o2
           o4 == IF {"refs", "bookmark"} \subseteq content.also
                 THEN Completed(o3, Link, "link") ELSE o3
           x5 == Extended(o4, {Uris}, "files")
           o5 == IF "refs" \in content.also
                 THEN Completed(x5, {Plain, Utf8}, "files") ELSE o4
           o6 == IF "bitmap" \in content.also
                 THEN Extended(o5, {Png}, "picture") ELSE o5
<1>3. OfferOfApplication(content) = o6
    BY DEF OfferOfApplication
<1>4. Findable(o1)
  <2>1. NoData \in [Mime -> Seq(Value)]
    BY DEF NoData
  <2>2. content.data \in [Mime -> Seq(Value)]
    BY <1>2, <2>1, AddFinds
  <2> DEFINE found == {m \in Mime : Has(content.data, m)}
  <2>3. /\ o1.fData = content.data
        /\ o1.types = found \cup content.strings \cup
                        (IF Plain \in found THEN {Utf8} ELSE {})
    BY DEF OfferOfFields
  <2> HIDE DEF o1
  <2>4. ASSUME NEW m \in o1.types \ Untyped
        PROVE  m \in Mime /\ Has(o1.fData, Found(o1.fData, m))
               /\ Found(o1.fData, m) \in Mime
    <3>1. CASE m \in found
        BY <2>3, <3>1 DEF Found
    <3>2. CASE m = Utf8 /\ Plain \in found
        BY <1>1, <2>3, <3>2 DEF Found
    <3> QED
        BY <2>3, <3>1, <3>2
  <2> QED
    BY <2>2, <2>3, <2>4 DEF Findable
<1> HIDE DEF o1
<1>5. Findable(o2)
    BY <1>1, <1>2, <1>4, ExtendedFindable
<1> HIDE DEF o2
<1>6. Findable(o3)
    BY <1>1, <1>2, <1>5, CompletedFindable
<1> HIDE DEF o3
<1>7. Findable(o4)
    BY <1>1, <1>2, <1>6, CompletedFindable
<1> HIDE DEF o4
<1>8. Findable(x5)
    BY <1>1, <1>2, <1>7, ExtendedFindable
<1> HIDE DEF x5
<1>9. Findable(o5)
    BY <1>1, <1>2, <1>7, <1>8, CompletedFindable
<1> HIDE DEF o5
<1>10. Findable(o6)
    BY <1>1, <1>2, <1>9, ExtendedFindable
<1> QED
    BY <1>3, <1>10

(* What a client put into the clipboard or a drag a client gets back.       *)
THEOREM OwnDataReturns == SpecTransfer => []OwnDataComesBack
<1>1. TransferInv => OwnDataComesBack
  <2> SUFFICES ASSUME TransferInv, offer # Nothing, message.of = "client",
                      NEW m \in Mime, Has(message.content.raw, m)
               PROVE  IF m = Plain THEN Received(offer, m) \in Text
                      ELSE Received(offer, m) = m
    BY DEF OwnDataComesBack
  <2>1. Message(message) /\ Offer(offer, message)
    BY DEF TransferInv
  <2>2. PICK read \in SUBSET Mime, link \in BOOLEAN :
               message.content = Converted(read, link)
    BY <2>1 DEF Message
  <2>3. Joined(offer, message.content)
    BY <2>1 DEF Offer, Joined, OfferOfClient
  <2> DEFINE c == message.content
             o == offer
  <2>4. c = Converted(read, link) /\ Has(c.raw, m) /\ Joined(o, c)
    BY <2>2, <2>3
  <2> HIDE DEF c, o
  <2>5. IF m = Plain THEN Received(o, m) \in Text
        ELSE Received(o, m) = m
    BY <2>4, ClientReceives
  <2> QED
    BY <2>5 DEF o
<1> QED
    BY <1>1, TransferInvariance, PTL

(* What an application's message is offered as can be received as that.     *)
THEOREM OffersAreReceivable == SpecTransfer => []OfferedIsReceivable
<1>1. TransferInv => OfferedIsReceivable
  <2> SUFFICES ASSUME TransferInv, offer # Nothing, message.of = "application",
                      NEW m \in offer.types \ Untyped
               PROVE  Received(offer, m) # "nothing"
    BY DEF OfferedIsReceivable
  <2>1. Message(message) /\ Offer(offer, message)
    BY DEF TransferInv
  <2>2. PICK types \in SUBSET Mime :
               /\ message.content.data = AddData(NoData, types, "own")
               /\ message.content.strings \subseteq Untyped
    BY <2>1 DEF Message
  <2>3. Findable(offer)
    <3>1. offer = OfferOfApplication(message.content)
        BY <2>1 DEF Offer
    <3> QED
        BY <2>2, <3>1, ApplicationFindable
  <2> DEFINE f == Found(offer.fData, m)
  <2>4. f \in Mime /\ Has(offer.fData, f) /\ offer.fData[f] \in Seq(Value)
    BY <2>3 DEF Findable
  <2>5. Head(offer.fData[f]) \in Value
    <3> DEFINE q == offer.fData[f]
    <3>1. q \in Seq(Value) /\ q # <<>>
        BY <2>4 DEF Has
    <3> HIDE DEF q
    <3>2. Head(q) \in Value
        BY <3>1
    <3> QED
        BY <3>2 DEF q
  <2>6. Received(offer, m) = Head(offer.fData[f])
    BY <2>4 DEF Received
  <2> HIDE DEF f
  <2> QED
    BY <2>5, <2>6 DEF Value
<1> QED
    BY <1>1, TransferInvariance, PTL
=============================================================================
