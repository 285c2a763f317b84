---- MODULE EarthCameras ----
(***************************************************************************)
(* The Earth workspace: the public camera networks, asked together every   *)
(* minute and merged into one list; the camera that is selected among      *)
(* those the filters leave, and the player or snapshot that shows it; the  *)
(* place search; and the street map, a layer that must stay above those    *)
(* that are added after it.                                                *)
(***************************************************************************)
EXTENDS Integers, Sequences, SequencesExt, FiniteSets

CONSTANTS
  FeedOrder,   \* the feeds of cameraNetworks, in the order of the list
  Published,   \* per feed, the rows it publishes: sequences of [id, image, feed, valid, video]
  BuiltIn,     \* the cameras of chicagoCameras.ts
  Layers       \* imagery layers that are added while the globe is loaded

CameraFeeds == ToSet(FeedOrder)
Camera == [id : STRING, image : STRING, feed : CameraFeeds, valid : BOOLEAN, video : STRING]
ASSUME CamerasAssumption ==
  /\ FeedOrder \in Seq(CameraFeeds) /\ \A i, j \in DOMAIN FeedOrder : FeedOrder[i] = FeedOrder[j] => i = j
  /\ \A f \in CameraFeeds : Published[f] \subseteq Seq(Camera)
  /\ \A f \in CameraFeeds : \A rows \in Published[f] : \A i \in DOMAIN rows : rows[i].feed = f
  /\ BuiltIn \in Seq(Camera) /\ \A i \in DOMAIN BuiltIn : BuiltIn[i].valid

VARIABLES
  camerasOn,     \* the layer, in the store
  network,       \* the filter: "all" or a feed's network
  cameras,       \* the list in the store
  camera,        \* the selected camera, or NoCamera
  camerasPolled, \* what useCameraFeeds' effect ran for
  cameraPoll,    \* "off", "asking" or "waiting"
  awaited,       \* feeds of the poll that have not answered
  cached,        \* the cameras last received from each feed, since the effect ran
  failing,       \* feeds that the poll could not read
  camerasLate,   \* an aborted poll may still come to its end
  media,         \* CameraMedia: the camera it is mounted for, its states
  players,       \* HLS players that exist, by camera
  hlsImporting,     \* the camera whose player waits for hls.js, or NoCamera
  importLate,    \* one whose element was unmounted meanwhile, or NoCamera
  searching, places,
  mapStyle, streets, layers   \* the street layer: "none", "hidden", "shown"; all layers, from the bottom

pollVars   == <<camerasOn, camerasPolled, cameras, cameraPoll, awaited, cached, failing, camerasLate>>
choiceVars == <<network, camera>>
mediaVars  == <<media, players, hlsImporting, importLate>>
mapVars    == <<mapStyle, streets, layers>>
searchVars == <<searching, places>>
earthVars  == <<pollVars, choiceVars, mediaVars, mapVars, searchVars>>

NoCamera == [id |-> "none"]
Nothing  == [f \in {} |-> <<>>]

----
(* The networks. *)

\* The entries of a sequence at the positions of a set, in their order.
Picked(seq, S) == [k \in 1..Cardinality(S) |-> seq[CHOOSE i \in S : Cardinality({j \in S : j < i}) = k - 1]]

\* parsePublicCameras: rows in service, with coordinates, whose image belongs to
\* the publisher.
ParsePublicCameras(rows) == Picked(rows, {i \in DOMAIN rows : rows[i].valid})

\* mergeCameraFeeds: the first of several entries with the same image is kept (a
\* camera without one stands for itself).
MergeCameraFeeds(seq) == Picked(seq, {i \in DOMAIN seq : \A j \in 1..(i - 1) : seq[j].image # seq[i].image})

\* The feeds in the order of the list, whatever the order of their answers.
Received(received, f) == IF f \in DOMAIN received THEN received[f] ELSE <<>>
Gathered(received) ==
  LET upTo[n \in 0..Len(FeedOrder)] ==
        IF n = 0 THEN BuiltIn ELSE upTo[n - 1] \o Received(received, FeedOrder[n])
  IN upTo[Len(FeedOrder)]

Rank(f) == CHOOSE i \in DOMAIN FeedOrder : FeedOrder[i] = f

Matches(c, n) == n = "all" \/ c.feed = n
FilterCameras(seq, n) == Picked(seq, {i \in DOMAIN seq : Matches(seq[i], n)})
FirstOf(seq) == IF seq = <<>> THEN NoCamera ELSE Head(seq)

\* useCameraFeeds(enabled): the list stays when the layer is switched off, the
\* cache does not.
CamerasEffect ==
  /\ camerasPolled # camerasOn /\ camerasPolled' = camerasOn
  /\ cameraPoll' = IF camerasOn THEN "asking" ELSE "off"
  /\ awaited' = IF camerasOn THEN CameraFeeds ELSE {}
  /\ cached' = Nothing /\ failing' = {}
  /\ camerasLate' = (camerasLate \/ cameraPoll = "asking")
  /\ UNCHANGED <<camerasOn, cameras, choiceVars, mediaVars, mapVars, searchVars>>

NetworkAnswers(f, rows) ==
  /\ f \in awaited /\ awaited' = awaited \ {f}
  /\ cached' = [g \in DOMAIN cached \cup {f} |-> IF g = f THEN ParsePublicCameras(rows) ELSE cached[g]]
  /\ UNCHANGED <<camerasOn, camerasPolled, cameras, cameraPoll, failing, camerasLate, choiceVars, mediaVars, mapVars, searchVars>>
NetworkFails(f) ==
  /\ f \in awaited /\ awaited' = awaited \ {f} /\ failing' = failing \cup {f}
  /\ UNCHANGED <<camerasOn, camerasPolled, cameras, cameraPoll, cached, camerasLate, choiceVars, mediaVars, mapVars, searchVars>>

\* All have answered: what each last delivered is shown, and a camera is chosen
\* if none is.
PollEnds ==
  LET all == MergeCameraFeeds(Gathered(cached)) IN
  /\ cameraPoll = "asking" /\ awaited = {} /\ cameraPoll' = "waiting"
  /\ cameras' = all
  /\ camera' = IF camera = NoCamera THEN FirstOf(FilterCameras(all, network)) ELSE camera
  /\ UNCHANGED <<camerasOn, camerasPolled, awaited, cached, failing, camerasLate, network, mediaVars, mapVars, searchVars>>
CamerasPoll ==
  /\ cameraPoll = "waiting" /\ cameraPoll' = "asking" /\ awaited' = CameraFeeds /\ failing' = {}
  /\ UNCHANGED <<camerasOn, camerasPolled, cameras, cached, camerasLate, choiceVars, mediaVars, mapVars, searchVars>>

\* The end of a poll that was aborted changes nothing that is shown.
LatePollEnds ==
  /\ camerasLate /\ camerasLate' = FALSE
  /\ UNCHANGED <<cameras, camerasOn, camerasPolled, cameraPoll, awaited, cached, failing, choiceVars, mediaVars, mapVars, searchVars>>

ToggleCameras ==
  /\ camerasOn' = ~camerasOn
  /\ UNCHANGED <<camerasPolled, cameras, cameraPoll, awaited, cached, failing, camerasLate, choiceVars, mediaVars, mapVars, searchVars>>

----
(* The selection. *)

VisibleCameras == FilterCameras(cameras, network)
IsVisible(c) == \E i \in DOMAIN VisibleCameras : VisibleCameras[i].id = c.id

ChooseNetwork(n) ==
  /\ camerasOn /\ n # network /\ network' = n /\ camera' = NoCamera
  /\ UNCHANGED <<pollVars, mediaVars, mapVars, searchVars>>
ChooseCamera(c) ==
  /\ camerasOn /\ camera # c /\ camera' = c
  /\ UNCHANGED <<network, pollVars, mediaVars, mapVars, searchVars>>

\* EarthPanel's effect: a selection the filters hide gives way to the first match.
SelectionEffect ==
  /\ ~IsVisible(camera) /\ camera.id # FirstOf(VisibleCameras).id
  /\ camera' = FirstOf(VisibleCameras)
  /\ UNCHANGED <<network, pollVars, mediaVars, mapVars, searchVars>>

----
(* CameraMedia, keyed by the camera and its video. *)

Idle(c) == [of |-> c, snapshot |-> FALSE, videoError |-> FALSE, imageError |-> FALSE]
ShowsVideo(m)   == m.of # NoCamera /\ m.of.video # "none" /\ ~m.snapshot /\ ~m.videoError
PlaysStream(m)  == ShowsVideo(m) /\ m.of.video = "hls"
\* Closing the panel unmounts it as switching the layer off does.
ShownCamera == IF camerasOn /\ IsVisible(camera) THEN camera ELSE NoCamera

\* HlsVideo mounts, stays or unmounts with what is rendered: its cleanup destroys
\* the player it has, or leaves the import to find it disposed.
MediaBecomes(m, remounted) ==
  LET stays == PlaysStream(media) /\ PlaysStream(m) /\ ~remounted IN
  /\ media' = m
  /\ players' = IF stays THEN players ELSE players \ {media.of}
  /\ hlsImporting' = IF stays THEN hlsImporting ELSE IF PlaysStream(m) THEN m.of ELSE NoCamera
  /\ importLate' = IF ~stays /\ hlsImporting # NoCamera THEN hlsImporting ELSE importLate

MediaMounts ==
  /\ media.of # ShownCamera /\ MediaBecomes(Idle(ShownCamera), TRUE)
  /\ UNCHANGED <<pollVars, choiceVars, mapVars, searchVars>>
ImportResolves(supported) ==
  /\ hlsImporting # NoCamera /\ hlsImporting' = NoCamera
  /\ IF supported
     THEN players' = players \cup {hlsImporting} /\ UNCHANGED media
     ELSE media' = [media EXCEPT !.videoError = TRUE] /\ UNCHANGED players
  /\ UNCHANGED <<importLate, pollVars, choiceVars, mapVars, searchVars>>
PlaysAnyway(ps, c) == ps \cup {c}
AfterLateImport(ps, c) == ps
LateImportResolves ==
  /\ importLate # NoCamera /\ importLate' = NoCamera /\ players' = AfterLateImport(players, importLate)
  /\ UNCHANGED <<media, hlsImporting, pollVars, choiceVars, mapVars, searchVars>>
FatalStreamError ==
  /\ media.of \in players /\ MediaBecomes([media EXCEPT !.videoError = TRUE], FALSE)
  /\ UNCHANGED <<pollVars, choiceVars, mapVars, searchVars>>
ImageError ==
  /\ media.of # NoCamera /\ ~ShowsVideo(media) /\ ~media.imageError /\ media' = [media EXCEPT !.imageError = TRUE]
  /\ UNCHANGED <<players, hlsImporting, importLate, pollVars, choiceVars, mapVars, searchVars>>
\* The minute of the clock changes the image's address.
MediaMinute ==
  /\ media.imageError /\ media' = [media EXCEPT !.imageError = FALSE]
  /\ UNCHANGED <<players, hlsImporting, importLate, pollVars, choiceVars, mapVars, searchVars>>
ChooseSnapshot(on) ==
  /\ media.of # NoCamera /\ media.of.video # "none"
  /\ MediaBecomes([media EXCEPT !.snapshot = on, !.videoError = IF on THEN @ ELSE FALSE], FALSE)
  /\ UNCHANGED <<pollVars, choiceVars, mapVars, searchVars>>
RetryMedia ==
  /\ media.of # NoCamera /\ MediaBecomes([media EXCEPT !.videoError = FALSE, !.imageError = FALSE], TRUE)
  /\ UNCHANGED <<pollVars, choiceVars, mapVars, searchVars>>

----
(* The search, one at a time; coordinates are located at once. *)

SubmitSearch(kind) ==
  /\ ~searching /\ places' = "none" /\ searching' = (kind = "place")
  /\ UNCHANGED <<pollVars, choiceVars, mediaVars, mapVars>>
SearchAnswers(result) ==
  /\ searching /\ searching' = FALSE /\ places' = result
  /\ UNCHANGED <<pollVars, choiceVars, mediaVars, mapVars>>

----
(* The street map. *)

RaiseToTop(seq, l) == Append(Picked(seq, {i \in DOMAIN seq : seq[i] # l}), l)
Raised(seq, shown) == IF shown THEN RaiseToTop(seq, "streets") ELSE seq

\* updateMap: the layer is added at its first use, then shown or hidden.
UpdateMap(style) ==
  /\ streets' = IF style = "streets" THEN "shown" ELSE IF streets = "none" THEN "none" ELSE "hidden"
  /\ layers' = Raised(layers, style = "streets")
ChooseMap(style) ==
  /\ style # mapStyle /\ mapStyle' = style /\ UpdateMap(style)
  /\ UNCHANGED <<pollVars, choiceVars, mediaVars, searchVars>>

\* Imagery arrives from its provider when it arrives; layerAdded raises the streets.
LayerAdded(l) ==
  /\ ~Contains(layers, l)
  /\ layers' = Raised(Append(layers, l), streets = "shown")
  /\ UNCHANGED <<mapStyle, streets, pollVars, choiceVars, mediaVars, searchVars>>

----
EarthInit ==
  /\ camerasOn = TRUE /\ network = "all" /\ cameras = <<>> /\ camera = NoCamera
  /\ camerasPolled = FALSE /\ cameraPoll = "off" /\ awaited = {} /\ cached = Nothing /\ failing = {} /\ camerasLate = FALSE
  /\ media = Idle(NoCamera) /\ players = {} /\ hlsImporting = NoCamera /\ importLate = NoCamera
  /\ searching = FALSE /\ places = "none"
  /\ mapStyle = "imagery" /\ streets = "none" /\ layers = <<"base">>

NetworksNext ==
  \/ CamerasEffect \/ PollEnds \/ CamerasPoll \/ LatePollEnds \/ ToggleCameras
  \/ \E f \in CameraFeeds : NetworkFails(f) \/ \E rows \in Published[f] : NetworkAnswers(f, rows)
ChoicesNext ==
  \/ SelectionEffect
  \/ \E n \in {"all"} \cup CameraFeeds : ChooseNetwork(n)
  \/ \E c \in ToSet(VisibleCameras) : ChooseCamera(c)
MediaNext ==
  \/ MediaMounts \/ LateImportResolves \/ FatalStreamError \/ ImageError \/ MediaMinute \/ RetryMedia
  \/ \E b \in BOOLEAN : ImportResolves(b) \/ ChooseSnapshot(b)
MapNext ==
  \/ \E style \in {"imagery", "streets"} : ChooseMap(style)
  \/ \E l \in Layers : LayerAdded(l)
  \/ \E kind \in {"coordinates", "short", "place"} : SubmitSearch(kind)
  \/ \E result \in {"found", "none"} : SearchAnswers(result)

EarthNext == NetworksNext \/ ChoicesNext \/ MediaNext \/ MapNext

EarthSpec == EarthInit /\ [][EarthNext]_earthVars

----
EarthTypeOK ==
  /\ camerasOn \in BOOLEAN /\ cameraPoll \in {"off", "asking", "waiting"} /\ network \in {"all"} \cup CameraFeeds
  /\ awaited \subseteq CameraFeeds /\ failing \subseteq CameraFeeds /\ DOMAIN cached \subseteq CameraFeeds
  /\ (cameraPoll = "off") = ~camerasPolled /\ (awaited # {} => cameraPoll = "asking")
  /\ streets \in {"none", "hidden", "shown"} /\ mapStyle \in {"imagery", "streets"}

\* Between polls the list holds, of every image that the networks delivered since
\* the layer was switched on, exactly the first entry in the order of the feeds
\* ("Keep the first (IDOT has image-age metadata)"): whatever the order of their
\* answers, whichever failed last, whatever an aborted poll still brings; and none
\* whose image is not the publisher's.
CamerasInOrder ==
  cameraPoll = "waiting" =>
    /\ \A i \in DOMAIN cameras : cameras[i].valid
    /\ \A f \in DOMAIN cached : \A i \in DOMAIN cached[f] :
         \E j \in DOMAIN cameras :
           /\ cameras[j].image = cached[f][i].image
           /\ \/ cameras[j] \in ToSet(BuiltIn)
              \/ \A g \in DOMAIN cached :
                   Rank(g) < Rank(cameras[j].feed) =>
                     \A k \in DOMAIN cached[g] : cached[g][k].image # cameras[j].image
    /\ \A i, j \in DOMAIN cameras : cameras[i].image = cameras[j].image => i = j

\* A player plays only for the element that shows its camera: none is left behind
\* by an import that ends after its element was unmounted.
PlayersBelong == players \subseteq {media.of} /\ (players # {} => PlaysStream(media))

\* The street map that is shown lies above every imagery layer, also those whose
\* provider answers later.
StreetsOnTop == streets = "shown" => Last(layers) = "streets"
====
