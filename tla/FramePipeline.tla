---------------------------- MODULE FramePipeline ----------------------------
(***************************************************************************)
(* How a painted frame reaches the screen in qf-client.  The FreeRDP       *)
(* thread copies painted rectangles into a staging buffer and resizes it   *)
(* (copyFrameData, resizeStagingBuffer), then asks the main thread for an  *)
(* update; a rendered frame is a sync phase (updatePaintNode), the         *)
(* beforeRendering callback (ensureTexture) and the upload                 *)
(* (commitTextureOperations).  Buffer and upload share a mutex; the two    *)
(* halves of the frame size and the dirty flag are read outside it.        *)
(*                                                                         *)
(* A frame is its number, 0 the black a resized buffer is filled with; a   *)
(* size is <<width, height>> in units of the model.  (Names are such that  *)
(* the module can be extended together with Resize.)                       *)
(***************************************************************************)
EXTENDS Integers

CONSTANTS
    FrameSizes,  \* the desktop sizes the server may set
    MaxFrames,   \* bound of the model: painted frames
    MaxResizes,  \* bound of the model: desktop resizes
    MaxFails     \* bound of the model: textures the GPU refuses

ASSUME FrameAssumption ==
    /\ FrameSizes \subseteq (Nat \ {0}) \X (Nat \ {0})
    /\ MaxFrames \in Nat /\ MaxResizes \in Nat /\ MaxFails \in Nat

VARIABLES
    rdp,        \* the FreeRDP thread: "idle", "resizing" (mutex held) or "post"
    frameSize,  \* <<m_frameWidth, m_frameHeight>>
    bufSize,    \* the size m_frameBuffer was allocated for
    bufFrame,   \* the frame m_frameBuffer holds
    dirty,      \* m_frameDirty
    upd,        \* an update() of the item is posted or pending
    render,     \* the render thread: "idle", "sync", "ensure" or "commit"
    seenWidth,  \* m_frameWidth as updatePaintNode read it
    node,       \* the item has a texture node
    texSize,    \* RdpFrameTexture::m_size
    pix,        \* pixelSize of the QRhiTexture, NoSize when there is none
    texOf,      \* the size of the buffer the texture was uploaded from
    texFrame,   \* the frame the texture holds
    screen,     \* the frame last presented
    painted, resizes, fails   \* counters of the model

frameVars == <<rdp, frameSize, bufSize, bufFrame, dirty, upd, render, seenWidth,
          node, texSize, pix, texOf, texFrame, screen, painted, resizes, fails>>

NoSize == <<0, 0>>
Black == 0
Undefined == -1      \* contents of a new texture
Blank == -2          \* no node: the window's background

\* A reader outside the mutex may see the width of one size with the height of
\* another.
Widths == {s[1] : s \in FrameSizes} \cup {0}
SeenSizes == Widths \X ({s[2] : s \in FrameSizes} \cup {0})

Area(s) == s[1] * s[2]

FrameTypeOK ==
    /\ rdp \in {"idle", "resizing", "post"}
    /\ frameSize \in SeenSizes
    /\ bufSize \in FrameSizes \cup {NoSize}
    /\ bufFrame \in 0..MaxFrames
    /\ dirty \in BOOLEAN /\ upd \in BOOLEAN /\ node \in BOOLEAN
    /\ render \in {"idle", "sync", "ensure", "commit"}
    /\ seenWidth \in Widths
    /\ texSize \in SeenSizes
    /\ pix \in SeenSizes
    /\ texOf \in FrameSizes \cup {NoSize}
    /\ texFrame \in Undefined..MaxFrames
    /\ screen \in Blank..MaxFrames
    /\ painted \in 0..MaxFrames
    /\ resizes \in 0..MaxResizes
    /\ fails \in 0..MaxFails

FrameInit ==
    /\ rdp = "idle" /\ render = "idle" /\ seenWidth = 0
    /\ frameSize = NoSize /\ bufSize = NoSize /\ bufFrame = Black
    /\ dirty = FALSE /\ upd = FALSE /\ node = FALSE
    /\ texSize = NoSize /\ pix = NoSize
    /\ texOf = NoSize /\ texFrame = Undefined
    /\ screen = Blank
    /\ painted = 0 /\ resizes = 0 /\ fails = 0

paintVars == <<rdp, frameSize, bufSize, bufFrame, painted, resizes>>
texVars == <<node, texSize, pix, texOf, texFrame>>
renderVars == <<render, seenWidth, texVars, screen, fails>>
-----------------------------------------------------------------------------
(* The FreeRDP thread.                                                     *)

\* resizeStagingBuffer, first half: the mutex is taken and the width stored.
\* A size that is already set leaves the buffer alone and only posts.
Resize(s) ==
    /\ rdp = "idle"
    /\ resizes < MaxResizes
    /\ resizes' = resizes + 1
    /\ IF s = frameSize
       THEN rdp' = "post" /\ UNCHANGED frameSize
       ELSE rdp' = "resizing" /\ frameSize' = <<s[1], frameSize[2]>>
    /\ UNCHANGED <<bufSize, bufFrame, dirty, upd, painted, renderVars>>

\* Slip: the buffer is allocated before the new height is stored.
AllocateFirst(s) ==
    /\ rdp = "resizing"
    /\ s[1] = frameSize[1]
    /\ rdp' = "post"
    /\ frameSize' = s
    /\ bufSize' = frameSize
    /\ bufFrame' = Black
    /\ UNCHANGED <<dirty, upd, painted, resizes, renderVars>>

\* Second half: height, reallocated buffer, filled with black.  The dirty flag
\* keeps the value it had for the old contents.
ResizeDone(s) ==
    /\ rdp = "resizing"
    /\ s[1] = frameSize[1]
    /\ rdp' = "post"
    /\ frameSize' = s
    /\ bufSize' = s
    /\ bufFrame' = Black
    /\ UNCHANGED <<dirty, upd, painted, resizes, renderVars>>

\* noop_end_paint: copyFrameData, under the mutex, then the dirty flag.
Paint ==
    /\ rdp = "idle"
    /\ bufSize # NoSize
    /\ painted < MaxFrames
    /\ painted' = painted + 1
    /\ bufFrame' = painted'
    /\ dirty' = TRUE
    /\ rdp' = "post"
    /\ UNCHANGED <<frameSize, bufSize, upd, resizes, renderVars>>

\* The queued call that ends in QQuickItem::update().
Post ==
    /\ rdp = "post"
    /\ rdp' = "idle"
    /\ upd' = TRUE
    /\ UNCHANGED <<frameSize, bufSize, bufFrame, dirty, painted, resizes,
                   renderVars>>
-----------------------------------------------------------------------------
(* One rendered frame: sync, ensureTexture, commit.                        *)

\* The pending update is taken and updatePaintNode reads the width.
Sync ==
    /\ render = "idle"
    /\ upd
    /\ upd' = FALSE
    /\ render' = "sync"
    /\ seenWidth' = frameSize[1]
    /\ UNCHANGED <<paintVars, dirty, texVars, screen, fails>>

SeenSize == <<seenWidth, frameSize[2]>>

\* Nothing to show yet: the node is deleted and the texture released.
DropNode ==
    /\ 0 \in {SeenSize[1], SeenSize[2]}
    /\ node' = FALSE
    /\ pix' = NoSize /\ texOf' = NoSize /\ texFrame' = Undefined
    /\ UNCHANGED texSize

\* Slip: a texture that has a size keeps it.
SwitchOnce ==
    /\ 0 \notin {SeenSize[1], SeenSize[2]}
    /\ texSize' = IF dirty /\ texSize = NoSize THEN SeenSize ELSE texSize
    /\ node' = (node \/ dirty)
    /\ UNCHANGED <<pix, texOf, texFrame>>

\* The size is switched, and the node created, only when a new frame is there.
SwitchWithFrame ==
    /\ 0 \notin {SeenSize[1], SeenSize[2]}
    /\ texSize' = IF dirty THEN SeenSize ELSE texSize
    /\ node' = (node \/ dirty)
    /\ UNCHANGED <<pix, texOf, texFrame>>

\* The rest of updatePaintNode: the height, the flag, the node.
UpdatePaintNode ==
    /\ render = "sync"
    /\ render' = "ensure"
    /\ DropNode \/ SwitchWithFrame
    /\ UNCHANGED <<paintVars, dirty, upd, seenWidth, screen, fails>>

\* The window is drawn for another reason (the toolbar): the item, which has
\* no update pending, is not synchronised.
Redraw ==
    /\ render = "idle"
    /\ node /\ ~upd
    /\ render' = "ensure"
    /\ UNCHANGED <<paintVars, dirty, upd, seenWidth, texVars, screen, fails>>

\* A new texture is undefined, so the flag is raised to force an upload.
EnsureTexture ==
    /\ render = "ensure"
    /\ render' = "commit"
    /\ IF pix = texSize \/ texSize = NoSize
       THEN UNCHANGED <<dirty, pix, texOf, texFrame>>
       ELSE /\ pix' = texSize
            /\ texOf' = NoSize /\ texFrame' = Undefined
            /\ dirty' = TRUE
    /\ UNCHANGED <<paintVars, upd, seenWidth, node, texSize, screen, fails>>

\* newTexture or create() fails: the old texture stays.
EnsureFails ==
    /\ render = "ensure"
    /\ pix # texSize /\ texSize # NoSize
    /\ fails < MaxFails
    /\ fails' = fails + 1
    /\ render' = "commit"
    /\ UNCHANGED <<paintVars, dirty, upd, seenWidth, texVars, screen>>

\* The upload and the end of the frame.  The sizes are compared in bytes.
Uploads == node /\ pix # NoSize /\ dirty /\ Area(bufSize) = Area(pix)

\* Slip: the flag is exchanged before the sizes are compared.
CommitClearsFirst ==
    /\ render = "commit"
    /\ node /\ pix # NoSize /\ dirty => rdp # "resizing"
    /\ render' = "idle"
    /\ dirty' = FALSE
    /\ IF Uploads
       THEN texOf' = bufSize /\ texFrame' = bufFrame
       ELSE UNCHANGED <<texOf, texFrame>>
    /\ screen' = IF node THEN texFrame' ELSE Blank
    /\ UNCHANGED <<paintVars, upd, seenWidth, node, texSize, pix, fails>>

Commit ==
    /\ render = "commit"
    /\ node /\ pix # NoSize /\ dirty => rdp # "resizing"    \* the mutex
    /\ render' = "idle"
    /\ IF Uploads
       THEN dirty' = FALSE /\ texOf' = bufSize /\ texFrame' = bufFrame
       ELSE UNCHANGED <<dirty, texOf, texFrame>>
    /\ screen' = IF node THEN texFrame' ELSE Blank
    /\ UNCHANGED <<paintVars, upd, seenWidth, node, texSize, pix, fails>>
-----------------------------------------------------------------------------
FrameNext ==
    \/ \E s \in FrameSizes : Resize(s) \/ ResizeDone(s)
    \/ Paint \/ Post
    \/ Sync \/ UpdatePaintNode \/ Redraw \/ EnsureTexture \/ EnsureFails \/ Commit

\* The threads finish what they began and a pending update is synchronised;
\* nothing obliges the server to paint or the toolbar to redraw.
Fairness ==
    /\ WF_frameVars(\E s \in FrameSizes : ResizeDone(s))
    /\ WF_frameVars(Post)
    /\ WF_frameVars(Sync)
    /\ WF_frameVars(UpdatePaintNode)
    /\ WF_frameVars(EnsureTexture)
    /\ WF_frameVars(Commit)

FrameSpec == FrameInit /\ [][FrameNext]_frameVars /\ Fairness
-----------------------------------------------------------------------------
(* Properties.                                                             *)

\* What the comment in commitTextureOperations says: a buffer of another size than
\* the texture's waits until updatePaintNode has switched the texture.
NeverSheared == texOf # NoSize => texOf = pix

\* A painted frame the texture does not hold is still marked dirty, whichever
\* way painting, resizing and uploading interleave. (In which layout the texture
\* holds it is another question: see NeverSheared.)
NoFrameForgotten ==
    bufFrame # Black /\ ~dirty => texFrame = bufFrame /\ texOf = bufSize

\* A frame painted last is presented, whatever the sizes before it, unless the GPU
\* refused a texture.
LastFrameShown ==
    \A n \in 1..MaxFrames :
        bufFrame = n ~> (screen = n \/ bufFrame # n \/ fails > 0)
=============================================================================
