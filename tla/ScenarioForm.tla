----------------------------- MODULE ScenarioForm -----------------------------
(***************************************************************************)
(* The form of App.tsx before it is sent: the two KML files, which are read *)
(* asynchronously, the aerodromes, the boards and the survey type, and      *)
(* validateScenarioInputs and buildPrototypeScenario of scenario.ts.        *)
(***************************************************************************)
EXTENDS FleetAdmission, KmlReading

CONSTANTS
  Files,         \* file -> its document, or Broken
  FormTypes,     \* survey types of the form
  Broken,        \* what is in a file that is not KML
  MaxPads,       \* 4
  MaxPicks, MaxBoards, MaxCount  \* bounds: files picked, boards, of one board

ASSUME FormAssumption ==
  /\ MaxPads \in Nat \ {0} /\ {MaxPicks, MaxBoards, MaxCount} \subseteq Nat
  /\ DOMAIN Spectra = Cameras

ASSUME FilesAssumption == \A f \in DOMAIN Files : Files[f] # Broken => IsDocument(Files[f])

(* KmlCategory: the two cards of the form; "obstacle" has none. *)
Categories == {"survey_task", "restricted_zones"}

NoFile == [n |-> 0, category |-> "none", file |-> <<>>]

NoModel == "no model"
NoCamera == "no camera"

VARIABLES
  shown,       \* category -> the record on the card, NoFile without one
  reads,       \* readKmlFile calls on their way
  loading,     \* loadingCategory, "none" for null
  picks,       \* fileSequence: files picked so far
  lastPicked,  \* category -> the number of its last pick
  crossed,     \* a file was picked while one of the other category was read
  pads,        \* number of aerodromes
  boards,      \* [model, camera, pad, count], pad 0 when none is chosen
  surveyType,
  sent         \* the last scenario submitted, <<>> before there is one

fileVars == <<shown, reads, loading, picks, lastPicked, crossed>>
fleetVars == <<pads, boards, surveyType>>
formVars == <<fileVars, fleetVars, sent>>

-----------------------------------------------------------------------------
(* Mutant: a picker is open while its file is read. *)
PickerOpen_Always(c) == TRUE

(* The input is disabled while its own category is loading. *)
PickerOpen(c) == loading # c

(* handleKmlFiles up to its await. *)
PickFile(c, f) ==
  /\ PickerOpen(c) /\ picks < MaxPicks
  /\ picks' = picks + 1
  /\ reads' = reads \cup {[n |-> picks + 1, category |-> c, file |-> f]}
  /\ loading' = c
  /\ lastPicked' = [lastPicked EXCEPT ![c] = picks + 1]
  /\ crossed' = (crossed \/ \E r \in reads : r.category # c)
  /\ UNCHANGED <<shown, fleetVars, sent>>

(* And after it: reads end in any order, each replaces what is shown, and each
   clears the one loadingCategory. *)
FinishRead(r) ==
  /\ r \in reads
  /\ reads' = reads \ {r}
  /\ shown' = [shown EXCEPT ![r.category] = r]
  /\ loading' = "none"
  /\ UNCHANGED <<picks, lastPicked, crossed, fleetVars, sent>>

RemoveFile(c) ==
  /\ shown[c] # NoFile
  /\ shown' = [shown EXCEPT ![c] = NoFile]
  /\ UNCHANGED <<reads, loading, picks, lastPicked, crossed, fleetVars, sent>>

(* readKmlFile and parseKml: what is no KML is an error, what holds no polygon
   is not. *)
Ready(r) == r # NoFile /\ Files[r.file] # Broken

-----------------------------------------------------------------------------
(* camerasForModel. *)
Offered(model, type) ==
  { c \in Cameras : model \in Models /\ <<model, c>> \in Edges /\ type \in Spectra[c] }

EmptyBoard == [model |-> NoModel, camera |-> NoCamera, pad |-> 1, count |-> 1]

(* The form as it opens, with the survey and the boards it may already have. *)
FormInit(file, fleet) ==
  /\ shown = [c \in Categories |-> IF c = "survey_task" THEN file ELSE NoFile]
  /\ lastPicked = [c \in Categories |-> shown[c].n] /\ picks = file.n
  /\ reads = {} /\ loading = "none" /\ crossed = FALSE
  /\ pads = 1 /\ boards = fleet /\ surveyType = "RGB" /\ sent = <<>>

(* resizeAerodromes and clearMissingAerodromes. *)
ChangeAerodromeCount(n) ==
  /\ n \in 1 .. MaxPads
  /\ pads' = n
  /\ boards' = [ i \in DOMAIN boards |->
       IF boards[i].pad > n THEN [boards[i] EXCEPT !.pad = 0] ELSE boards[i] ]
  /\ UNCHANGED <<surveyType, fileVars, sent>>

AddBoard ==
  /\ Len(boards) < MaxBoards
  /\ boards' = Append(boards, EmptyBoard)
  /\ UNCHANGED <<pads, surveyType, fileVars, sent>>

RemoveBoard(i) ==
  /\ boards' = [ k \in 1 .. Len(boards) - 1 |-> IF k < i THEN boards[k] ELSE boards[k + 1] ]
  /\ UNCHANGED <<pads, surveyType, fileVars, sent>>

(* withModel keeps a camera only when it is offered for the new model. *)
ChangeModel(i, model) ==
  /\ boards' = [boards EXCEPT ![i].model = model,
                              ![i].camera = IF @ \in Offered(model, surveyType) THEN @ ELSE NoCamera]
  /\ UNCHANGED <<pads, surveyType, fileVars, sent>>

ChangeCamera(i, camera) ==
  /\ camera \in Offered(boards[i].model, surveyType) \cup {NoCamera}
  /\ boards' = [boards EXCEPT ![i].camera = camera]
  /\ UNCHANGED <<pads, surveyType, fileVars, sent>>

ChangeAerodrome(i, pad) ==
  /\ pad \in 0 .. pads
  /\ boards' = [boards EXCEPT ![i].pad = pad]
  /\ UNCHANGED <<pads, surveyType, fileVars, sent>>

(* Anything below 1 is not taken over from the field. *)
ChangeCount(i, n) ==
  /\ n >= 1
  /\ boards' = [boards EXCEPT ![i].count = n]
  /\ UNCHANGED <<pads, surveyType, fileVars, sent>>

(* Mutant: the cameras of the boards stay. *)
WithSurveyType_Keeps(board, type) == board

(* withSurveyType: a camera that is no longer offered becomes the first that is. *)
WithSurveyType(board, type) ==
  LET allowed == Offered(board.model, type)
  IN IF board.camera \in allowed \cup {NoCamera} THEN board
     ELSE [board EXCEPT !.camera = IF allowed = {} THEN NoCamera ELSE CHOOSE c \in allowed : TRUE]

ChangeSurveyType(type) ==
  /\ surveyType' = type
  /\ boards' = [ i \in DOMAIN boards |-> WithSurveyType(boards[i], type) ]
  /\ UNCHANGED <<pads, fileVars, sent>>

-----------------------------------------------------------------------------
(* validateScenarioInputs: the files, and every board. *)
FilesValid ==
  /\ Ready(shown["survey_task"])
  /\ shown["restricted_zones"] = NoFile \/ Ready(shown["restricted_zones"])

BoardsValid ==
  /\ boards # <<>>
  /\ \A i \in DOMAIN boards :
       /\ boards[i].model \in Models
       /\ boards[i].camera \in Offered(boards[i].model, surveyType)
       /\ boards[i].pad \in 1 .. pads /\ boards[i].count >= 1

(* surveyRing: the one look at the geometry. *)
HasPolygon == BrowserReads(Files[shown["survey_task"].file]) # {}

(* buildPrototypeScenario. *)
Scenario ==
  [survey |-> shown["survey_task"].file, pads |-> [ n \in 1 .. pads |-> n ],
   spectrum |-> surveyType, cards |-> boards]

(* handleSubmit up to the POST; the button is disabled while a file is loading. *)
Submit ==
  /\ loading = "none"
  /\ FilesValid /\ BoardsValid /\ HasPolygon
  /\ sent' = Scenario
  /\ UNCHANGED <<fileVars, fleetVars>>

FileStep(files) ==
  \/ \E c \in Categories, f \in files : PickFile(c, f)
  \/ \E r \in reads : FinishRead(r)
  \/ \E c \in Categories : RemoveFile(c)

FleetStep ==
  \/ \E n \in 1 .. MaxPads : ChangeAerodromeCount(n)
  \/ AddBoard
  \/ \E i \in DOMAIN boards :
       \/ RemoveBoard(i)
       \/ \E m \in Models \cup {NoModel} : ChangeModel(i, m)
       \/ \E c \in Cameras \cup {NoCamera} : ChangeCamera(i, c)
       \/ \E p \in 0 .. MaxPads : ChangeAerodrome(i, p)
       \/ \E n \in 0 .. MaxCount : ChangeCount(i, n)
  \/ \E t \in FormTypes : ChangeSurveyType(t)

FormNext == FileStep(DOMAIN Files) \/ FleetStep \/ Submit

FormSpec == FormInit(NoFile, <<EmptyBoard>>) /\ [][FormNext]_formVars

-----------------------------------------------------------------------------
(* As long as no file is picked while one of the other category is read, the
   files a submit can send are the last ones picked.  (One loadingCategory for
   both: picked across each other, the read that ends last stays.) *)
LastPickWins ==
  ~crossed /\ loading = "none" =>
    \A c \in Categories : shown[c] # NoFile => shown[c].n = lastPicked[c]

(* Whatever was changed in which order, a board has a camera that its list
   offers, or none, and an aerodrome that is there, or none; and of a scenario
   that was sent the server finds no card unknown, incompatible, of another
   spectrum or without its aerodrome. *)
OnlyOfferedChosen ==
  /\ \A i \in DOMAIN boards :
       /\ boards[i].camera \in Offered(boards[i].model, surveyType) \cup {NoCamera}
       /\ boards[i].pad \in 0 .. pads
  /\ sent # <<>> =>
       /\ Mismatched(sent) = {}
       /\ \A i \in CardIds(sent) :
            Known(sent.cards[i]) /\ Compatible(sent.cards[i]) /\ sent.cards[i].pad \in PadIds(sent)

(* What a submit can send is what was picked: the files and the choices. *)
PicksKept == LastPickWins /\ OnlyOfferedChosen

(* The polygons and the placemarks that the form and kml_rings have no reason to
   read otherwise: every token is two numbers for both or for neither, and no
   value has an element in it. *)
SamePoints(doc, p) ==
  \A k \in DOMAIN OuterText(doc, p) :
    OuterText(doc, p)[k].number <=> OuterText(doc, p)[k].float # "none"

SameData(doc, m) ==
  \A n \in Tagged(doc, "Data") : Nearest(doc, n, "Placemark") = m => doc[n].lead = doc[n].whole

WithoutData(r) == [polygon |-> r.polygon, placemark |-> r.placemark, points |-> r.points]

(* What the form and the server make of a survey the form may send.  Each polygon
   is read once, of a placemark it is in.  The worker's copy of the reader agrees
   with the original, which takes what kml_rings takes, closed, or refuses, for a
   number outside the degrees or for lack of a ring.  Of each polygon whose text
   gives them no reason to differ ("The browser extracts the same rings before
   upload", kml_rings.py) the form and kml_rings find the same points or both
   none, and of each such placemark the same data. *)
SurveyReadAlike ==
  Ready(shown["survey_task"]) =>
    LET doc == Files[shown["survey_task"].file]
        browser == BrowserReads(doc)
        runtime == RuntimeReads(doc)
    IN /\ \A rings \in {browser, runtime} :
            /\ Cardinality({ r.polygon : r \in rings }) = Cardinality(rings)
            /\ \A r \in rings : Within(doc, r.polygon, r.placemark)
       /\ WorkerReads(doc) = IntegrationReads(doc)
       /\ IntegrationReads(doc) =
            IF OutOfDegrees(doc) \/ runtime = {} THEN Refused ELSE Areas(doc, runtime)
       /\ { WithoutData(r) : r \in { q \in browser : SamePoints(doc, q.polygon) } }
            = { WithoutData(r) : r \in { q \in runtime : SamePoints(doc, q.polygon) } }
       /\ \A r \in browser, q \in runtime :
            r.placemark = q.placemark /\ SameData(doc, r.placemark) => r.data = q.data

=============================================================================
