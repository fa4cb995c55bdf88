------------------------------ MODULE Commands ------------------------------
(***************************************************************************)
(* What becomes of a command, by its name: dispatch_cmd in src/src/server.c *)
(* decides who handles it, protocol_needs_response in src/src/protocol.c   *)
(* who answers it, and commands_execute in src/src/commands.c does it.     *)
(*                                                                         *)
(* The names are those of the source, section by section.  A section is a  *)
(* set of commands whose handlers have one shape: the resources they look  *)
(* up, what they do when there is none, and whether they answer.  What     *)
(* raylib draws with numbers and colours is left out.                      *)
(*                                                                         *)
(* Between dispatch and execution a command waits in the queue; the order  *)
(* of answers that comes from this is the subject of Server.  Here, an     *)
(* action is one command all the way, and counts what its client is told.  *)
(***************************************************************************)
EXTENDS HandleRegistry

VARIABLES
    last,       \* what became of the last command, an Outcome
    made        \* history: the kind that each living resource was made as

cvars == <<vars, last, made>>

(***************************************************************************)
(* Sections of commands_execute                                            *)
(***************************************************************************)

\* One raylib call on the window.
WindowCommands ==
    {"InitWindow", "SetWindowTitle", "SetWindowSize", "SetWindowPosition",
     "SetWindowMinSize", "SetWindowMaxSize", "SetWindowState",
     "ClearWindowState", "SetWindowOpacity", "SetWindowFocused",
     "ToggleFullscreen", "ToggleBorderlessWindowed", "MaximizeWindow",
     "MinimizeWindow", "RestoreWindow", "SetTargetFPS"}

\* Accepted and ignored: the server draws the frames and owns the window.
IgnoredCommands == {"CloseWindow", "BeginDrawing", "EndDrawing"}

\* Modes that involve no resource.
PlainModes ==
    {"BeginMode2D", "EndMode2D", "BeginBlendMode", "EndBlendMode",
     "BeginScissorMode", "EndScissorMode", "BeginMode3D", "EndMode3D"}

\* The simplest drawing: a call with numbers and a colour.
LineCommands ==
    {"ClearBackground", "DrawFPS", "DrawPixel", "DrawPixelV", "DrawLine",
     "DrawLineV", "DrawLineEx", "DrawLineBezier"}

RoundCommands ==
    {"DrawCircle", "DrawCircleV", "DrawCircleGradient", "DrawCircleSector",
     "DrawCircleSectorLines", "DrawCircleLines", "DrawCircleLinesV",
     "DrawEllipse", "DrawEllipseLines", "DrawRing", "DrawRingLines"}

RectangleCommands ==
    {"DrawRectangle", "DrawRectangleV", "DrawRectangleRec",
     "DrawRectanglePro", "DrawRectangleGradientV", "DrawRectangleGradientH",
     "DrawRectangleGradientEx", "DrawRectangleLines", "DrawRectangleLinesEx",
     "DrawRectangleRounded", "DrawRectangleRoundedLines",
     "DrawRectangleRoundedLinesEx"}

PolygonCommands ==
    {"DrawTriangle", "DrawTriangleLines", "DrawPoly", "DrawPolyLines",
     "DrawPolyLinesEx", "DrawText"}

\* Drawn from a list of points.  With too few of them for the curve, with one
\* that is no point, or with more than MAX_POINTS, nothing is drawn and nothing
\* said: the command was acknowledged when it was sent.
PointCommands ==
    {"DrawLineStrip", "DrawTriangleFan", "DrawTriangleStrip",
     "DrawSplineLinear", "DrawSplineBasis", "DrawSplineCatmullRom",
     "DrawSplineBezierQuadratic", "DrawSplineBezierCubic"}

SolidCommands ==
    {"DrawLine3D", "DrawPoint3D", "DrawCircle3D", "DrawTriangle3D",
     "DrawCube", "DrawCubeV", "DrawCubeWires", "DrawCubeWiresV",
     "DrawSphere", "DrawSphereEx", "DrawSphereWires", "DrawCylinder",
     "DrawCylinderEx", "DrawCylinderWires", "DrawCylinderWiresEx",
     "DrawCapsule", "DrawCapsuleWires", "DrawPlane", "DrawRay", "DrawGrid",
     "DrawBoundingBox"}

AudioDevice == {"InitAudioDevice", "CloseAudioDevice"}

\* With the font of a handle, or raylib's own when the handle names none.
FontCommands == {"DrawTextEx", "DrawTextPro", "DrawTextCodepoint"}

\* With a texture, or the texture of a render texture.
TextureCommands ==
    {"DrawTexture", "DrawTextureV", "DrawTextureEx", "DrawTextureRec",
     "DrawTexturePro", "DrawTextureNPatch", "SetTextureFilter",
     "SetTextureWrap"}

\* SetShaderValueTexture looks up a texture besides, and does nothing unless
\* both are there.
UniformCommands ==
    {"SetShaderValue", "SetShaderValueV", "SetShaderValueMatrix",
     "SetShaderValueTexture"}

SoundCommands ==
    {"PlaySound", "StopSound", "PauseSound", "ResumeSound",
     "SetSoundVolume", "SetSoundPitch"}

MusicCommands ==
    {"PlayMusicStream", "StopMusicStream", "PauseMusicStream",
     "ResumeMusicStream", "SetMusicVolume", "SetMusicPitch",
     "SeekMusicStream"}

\* Modes of raylib that begin with a resource and end without one.
ModeCommands ==
    {"BeginTextureMode", "EndTextureMode", "BeginShaderMode", "EndShaderMode"}

ModelCommands ==
    {"DrawModel", "DrawModelEx", "DrawModelWires", "DrawModelWiresEx"}

LoadKind ==
    [LoadTexture |-> "texture", LoadRenderTexture |-> "renderTexture",
     LoadFont |-> "font", LoadFontEx |-> "font", LoadSound |-> "sound",
     LoadMusicStream |-> "music", LoadShader |-> "shader",
     LoadModel |-> "model", UploadShader |-> "shader"]

UploadKind ==
    [UploadTexture |-> "texture", UploadTextureRaw |-> "texture",
     UploadFont |-> "font", UploadSound |-> "sound", UploadMusic |-> "music"]

\* CommitUpload makes the kind that its argument names.
CommitKinds == {"texture", "font", "sound", "music"}

UnloadKind ==
    [UnloadTexture |-> "texture", UnloadRenderTexture |-> "renderTexture",
     UnloadFont |-> "font", UnloadSound |-> "sound",
     UnloadMusicStream |-> "music", UnloadShader |-> "shader",
     UnloadModel |-> "model"]

WindowQueries ==
    {"GetScreenWidth", "GetScreenHeight", "GetRenderWidth",
     "GetRenderHeight", "GetWindowPosition", "GetWindowScaleDPI",
     "IsWindowReady", "IsWindowFullscreen", "IsWindowHidden",
     "IsWindowMinimized", "IsWindowMaximized", "IsWindowFocused",
     "IsWindowResized", "GetFPS", "GetFrameTime", "GetTime",
     "GetMonitorCount", "GetCurrentMonitor", "GetMonitorWidth",
     "GetMonitorHeight", "GetMonitorName"}

InputQueries ==
    {"IsKeyPressed", "IsKeyDown", "IsKeyReleased", "IsKeyUp",
     "GetKeyPressed", "GetCharPressed", "IsMouseButtonPressed",
     "IsMouseButtonDown", "IsMouseButtonReleased", "GetMousePosition",
     "GetMouseDelta", "GetMouseWheelMove", "GetMouseWheelMoveV",
     "IsGamepadAvailable", "IsGamepadButtonPressed", "IsGamepadButtonDown",
     "GetGamepadAxisMovement", "GetTouchPointCount", "GetTouchPosition",
     "GetGestureDetected"}

\* MeasureTextEx takes a font, or raylib's own.
ServerQueries == {"MeasureText", "MeasureTextEx", "GetServerInfo", "ListHandles"}

(***************************************************************************)
(* Handlers in the connection thread                                       *)
(***************************************************************************)

DisplayListCommands ==
    {"DisplayListBegin", "DisplayListEnd", "DisplayListClear",
     "DisplayListDelete", "DisplayListSetOrder", "GetDisplayLists",
     "GetDisplayListCommands"}

UploadCommands == {"BeginUpload", "UploadChunk", "AbortUpload", "ListUploads"}

EventCommands == {"Subscribe", "Unsubscribe"}

TimerCommands == {"TimerCreate", "TimerOnce", "TimerDelete", "ListTimers"}

\* These do not look whether there is an id before they answer.
Talkative == {"TimerCreate", "TimerOnce", "ListTimers"}

DirectCommands ==
    DisplayListCommands \cup UploadCommands \cup EventCommands
    \cup TimerCommands

\* strncmp(name, prefix, strlen(prefix)) == 0
HasPrefix(name, prefix) ==
    /\ Len(name) >= Len(prefix)
    /\ SubSeq(name, 1, Len(prefix)) = prefix

\* is_recordable: what goes into a list that is being recorded.
is_recordable(name) ==
    \/ HasPrefix(name, "Draw")
    \/ name \in PlainModes \cup
           ModeCommands \cup {"ClearBackground"}

\* The families that protocol_needs_response knows by their first letters.
InFamily(name) ==
    \E prefix \in {"Load", "Upload", "Get", "Is"} : HasPrefix(name, prefix)

\* Fault: a query that starts like none of the families is forgotten.
NeedsResponseByPrefix(name) == InFamily(name)

\* The commands whose answer has to wait for the main thread.
protocol_needs_response(name) ==
    \/ name \in {"BeginUpload", "CommitUpload", "AbortUpload", "ListUploads",
                 "MeasureText", "MeasureTextEx", "ListHandles",
                 "GetServerInfo"}
    \/ InFamily(name)

(***************************************************************************)
(* Answers                                                                 *)
(***************************************************************************)

\* Commands that look nothing up.
Plain ==
    WindowCommands \cup IgnoredCommands \cup PlainModes \cup LineCommands
    \cup RoundCommands \cup RectangleCommands \cup PolygonCommands
    \cup PointCommands \cup SolidCommands \cup AudioDevice

\* Names that the server does not know: one, and one of each family.
UnknownCommands ==
    {"Unknown", "LoadUnknown", "UploadUnknown", "GetUnknown", "IsUnknown"}

Using ==
    FontCommands \cup TextureCommands \cup UniformCommands \cup SoundCommands
    \cup MusicCommands \cup ModelCommands \cup ModeCommands

Recordable == {name \in Plain \cup Using : is_recordable(name)}

Queries == WindowQueries \cup InputQueries \cup ServerQueries

\* How the names are spelt, which is all that the proofs are told of them.
ASSUME SpellingAssumption ==
    /\ \A name \in WindowQueries \cup InputQueries
                   \cup {"GetTextureInfo", "GetFontInfo"}
                   \cup DOMAIN LoadKind \cup DOMAIN UploadKind : InFamily(name)
    /\ \A name \in Plain \cup Using \cup DOMAIN UnloadKind : ~InFamily(name)

\* The commands that go into the queue.
Queued ==
    (Plain \cup Using \cup Queries \cup {"GetTextureInfo", "GetFontInfo"}
     \cup DOMAIN LoadKind \cup DOMAIN UploadKind \cup {"CommitUpload"}
     \cup DOMAIN UnloadKind \cup UnknownCommands) \ DirectCommands

\* dispatch_cmd acknowledges the others before it pushes them.
Unacknowledged == {name \in Queued : protocol_needs_response(name)}

Acknowledged(name) == IF name \in Unacknowledged THEN <<>> ELSE <<"ok">>

Class(name) ==
    IF name \in UnknownCommands THEN "unknown"
    ELSE IF name \in Talkative THEN "talkative" ELSE "known"

\* Where a command came from ("asked" with an id, "silent" without, "replayed"
\* from a display list), what its name is, and what was sent in answer.
Outcome(origin, name, sent) ==
    [origin |-> origin, class |-> Class(name), told |-> sent]

\* What the client of one of these commands is told, when its handler in the
\* main thread sends this.  Neither the acknowledgement nor the handler's
\* response is sent without an id.
Told(names, sent) ==
    last' \in {Outcome("silent", n, <<>>) : n \in names}
             \cup {Outcome("asked", n, Acknowledged(n) \o sent) : n \in names}

(***************************************************************************)
(* Looking up resources                                                    *)
(***************************************************************************)

\* A handle as a client may send it: of any slot, and out of range both ways.
AnyHandle == 0..HandleMax + 1

\* What handle_get finds, with the kind it is used as: one pair or none.
Get(h, kind) ==
    IF handle_get(h, kind) = NULL THEN {} ELSE {<<handle_get(h, kind), kind>>}

\* Fault: a render texture is taken for a texture.
TexAnyUnchecked(h) ==
    IF h \in Handle /\ slots[h - 1].used
    THEN {<<slots[h - 1].ptr, "texture">>}
    ELSE {}

\* A texture or, failing that, the texture inside a render texture.
get_tex_any(h) ==
    IF Get(h, "texture") # {} THEN Get(h, "texture") ELSE Get(h, "renderTexture")

\* What the commands that take this handle hand to raylib.
Passed(h) ==
    [FontCommands    |-> Get(h, "font"),
     TextureCommands |-> get_tex_any(h),
     UniformCommands |-> Get(h, "shader"),
     SoundCommands   |-> Get(h, "sound"),
     MusicCommands   |-> Get(h, "music"),
     ModelCommands   |-> Get(h, "model"),
     TextureMode     |-> Get(h, "renderTexture"),
     ShaderMode      |-> Get(h, "shader")]

\* commands_update_music_streams: in every frame, what is of kind music.
UpdatedMusic == UNION {Get(h, "music") : h \in Handle}

(***************************************************************************)
(* Commands                                                                *)
(***************************************************************************)

ExecutePlain == Told(Plain, <<>>) /\ UNCHANGED <<vars, made>>

\* A command that the server does not know.  It goes through the queue like
\* any other, and the main thread logs it.
ExecuteUnknown ==
    /\ Told(UnknownCommands, <<>>)
    /\ UNCHANGED <<vars, made>>

\* What a handler in the connection thread may answer: the registries ok or
\* an error, recording a command always ok.
DirectAnswers(name) ==
    IF name \in DirectCommands THEN {<<"ok">>, <<"error">>} ELSE {<<"ok">>}

Direct == DirectCommands \cup Recordable

Outcomes(origin, names) ==
    UNION {{Outcome(origin, name, sent) : sent \in DirectAnswers(name)} :
           name \in names}

\* An id is answered; without one, only some names answer nevertheless.
DirectOutcomes ==
    Outcomes("asked", Direct) \cup Outcomes("silent", Talkative)
    \cup {Outcome("silent", name, <<>>) : name \in Direct \ Talkative}

HandledDirectly == last' \in DirectOutcomes /\ UNCHANGED <<vars, made>>

\* Executed for a display list, in every frame.  There is no socket to answer
\* on: the client was told when the command was recorded.
Replay ==
    /\ last' \in {Outcome("replayed", name, <<>>) : name \in Recordable}
    /\ UNCHANGED <<vars, made>>

\* Draw with, play, or set something of a resource.  Without the resource
\* there is only a warning, or the default font.
UseResource == Told(Using, <<>>) /\ UNCHANGED <<vars, made>>

\* GetTextureInfo, GetFontInfo: an invalid handle is an error here.
GetInfo(h) ==
    /\ \/ Told({"GetTextureInfo"},
               IF get_tex_any(h) = {} THEN <<"error">> ELSE <<"ok">>)
       \/ Told({"GetFontInfo"},
               IF Get(h, "font") = {} THEN <<"error">> ELSE <<"ok">>)
    /\ UNCHANGED <<vars, made>>

Query == Told(Queries, <<"ok">>) /\ UNCHANGED <<vars, made>>

\* A load of this kind that ends in one of its three ways, with its answer.
Loads(names, kind, handlers, succeed) ==
    /\ \/ succeed /\ Told(names, <<"ok">>)
       \/ /\ \E handler \in handlers : LoadFails(handler) \/ LoadRefused(handler)
          /\ Told(names, <<"error">>)
    /\ made' = IF reply' = "handle" THEN [made EXCEPT ![NewResource] = kind]
                                    ELSE made

Of(kind, handlers) == {handler \in handlers : kind \in handler.kinds}

ExecuteLoad(c, kind) ==
    Loads({n \in DOMAIN LoadKind : LoadKind[n] = kind}, kind,
          Of(kind, FileHandlers), LoadFile(c, kind))

\* From data in the command itself, or from an upload that is complete.
ExecuteUpload(c, kind) ==
    LET names == {n \in DOMAIN UploadKind : UploadKind[n] = kind}
                 \cup (IF kind \in CommitKinds THEN {"CommitUpload"} ELSE {}) IN
    /\ names # {}
    /\ Loads(names, kind, Of(kind, UploadHandlers), UploadInline(c, kind))

\* CommitUpload of an upload as something else.
CommitUnknownType ==
    /\ LoadFails(UnknownType)
    /\ Told({"CommitUpload"}, <<"error">>)
    /\ UNCHANGED made

ExecuteUnload(c, h, kind) ==
    /\ Told({n \in DOMAIN UnloadKind : UnloadKind[n] = kind}, <<>>)
    /\ \/ /\ Unload(c, h, kind)
          /\ made' = [made EXCEPT ![handle_get(h, kind)] = NoKind]
       \/ Get(h, kind) = {} /\ UNCHANGED <<vars, made>>

CommandsInit ==
    /\ Init
    /\ last = [origin |-> "silent", class |-> "known", told |-> <<>>]
    /\ made = [r \in Resource |-> NoKind]

CommandsNext ==
    \/ ExecutePlain
    \/ ExecuteUnknown
    \/ HandledDirectly
    \/ Replay
    \/ UseResource
    \/ \E h \in AnyHandle : GetInfo(h)
    \/ Query
    \/ \E c \in Clients, kind \in ResourceKinds :
         ExecuteLoad(c, kind) \/ ExecuteUpload(c, kind)
    \/ CommitUnknownType
    \/ \E c \in Clients, h \in AnyHandle, kind \in Kinds :
         ExecuteUnload(c, h, kind)

CommandsSpec == CommandsInit /\ [][CommandsNext]_cvars

(***************************************************************************)
(* Properties                                                              *)
(***************************************************************************)

\* A command that the server knows and that has an id is answered by exactly
\* one of the connection thread and the main thread, whatever becomes of it,
\* and an unknown one by one at most.  A command without an id is answered by
\* nobody, but for the three of the timers, and a replayed one by nobody.  The
\* names that the threads go by are in tables of three files.
AnsweredByOne ==
    Len(last.told) \in
        CASE last.origin = "asked" -> IF last.class = "unknown" THEN {0, 1} ELSE {1}
          [] last.origin = "silent" -> IF last.class = "talkative" THEN {1} ELSE {0}
          [] last.origin = "replayed" -> {0}

\* Whatever handle a command carries, stale, guessed or recorded long ago in a
\* display list, what it hands to raylib has not been freed, and is of the kind
\* that the raylib function takes.
PassedAreLive ==
    \A h \in AnyHandle :
        \A p \in UpdatedMusic \cup UNION {Passed(h)[n] : n \in DOMAIN Passed(h)} :
            Alive(p[1]) /\ made[p[1]] = p[2]
=============================================================================
