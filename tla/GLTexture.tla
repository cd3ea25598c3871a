----------------------------- MODULE GLTexture -----------------------------
(***************************************************************************)
(* The OpenGL texture objects of src/Lumos/Source/Lumos/Platform/OpenGL/   *)
(* GLTexture.cpp (GLTexture2D, GLTextureCube, GLTextureDepth and          *)
(* GLTextureDepthArray) and the part of the GL context they act on: the   *)
(* texture names in use, each name's storage, the active texture unit and *)
(* the GL_TEXTURE_2D_ARRAY binding of each unit.                          *)
(*                                                                         *)
(* A texture object is a record; kind "none" is an object not constructed *)
(* or already destroyed.  Storage records the size of level 0, how many   *)
(* mip levels are defined and whether the minification filter samples     *)
(* mipmaps.  Pixel data, formats, wrap modes and UUIDs are left out: no   *)
(* property reads them.  The bindings of the other targets are written    *)
(* but never read by a modelled operation (each binds before it uploads), *)
(* so only the 2D-array binding is kept.                                  *)
(***************************************************************************)
EXTENDS Integers, FiniteSetsExt

CONSTANTS
  Objects,      \* texture objects the application may hold
  Kinds,        \* the texture classes whose constructors are offered
  MaxNames,     \* GL texture names available to glGenTextures
  Sizes,        \* widths and heights passed or read from files
  CubeSizes,    \* face sizes of cube maps
  CubeMips,     \* values of m_NumMips a cube may be given
  Slots         \* texture units passed to Bind

VARIABLES
  tex,       \* [Objects -> texture object]
  live,      \* the GL texture names in use
  store,     \* [name -> [w, h, levels, minMip]], read for live names
  active,    \* the active texture unit (glActiveTexture)
  arrayBound \* [unit -> name bound to GL_TEXTURE_2D_ARRAY, or 0]

vars == <<tex, live, store, active, arrayBound>>

Names == 1 .. MaxNames

\* TextureDesc as far as the filters read it: minFilter == LINEAR,
\* generateMipMaps, and the Texture_CreateMips bit of flags.
NoParams == [linear |-> FALSE, genMips |-> FALSE, createMips |-> FALSE]
Params   == [linear: BOOLEAN, genMips: BOOLEAN, createMips: BOOLEAN]

None  == [kind |-> "none", handle |-> 0, w |-> 0, h |-> 0, flags |-> FALSE,
          mipLevels |-> 0, numMips |-> 0, params |-> NoParams]

RECURSIVE Log2Floor(_)
Log2Floor(n) == IF n <= 1 THEN 0 ELSE 1 + Log2Floor(n \div 2)

\* The levels of a full mip chain from w x h down to 1 x 1.
FullChain(w, h) == Log2Floor(IF w >= h THEN w ELSE h) + 1

\* static_cast<uint32_t>(std::floor(std::log2(Maths::Max(w, h)))) + 1.
\* log2(0) is -infinity and its conversion to uint32_t is undefined: the
\* x86-64 builds produce 0 or 2^31 for it, so m_MipLevels becomes 1 or
\* 2^31 + 1.  TLC's integers stop below 2^31, so Wrapped stands for the
\* second.
Wrapped == -1
MipLevelsOf(w, h) ==
  IF w = 0 /\ h = 0 THEN {0 + 1, Wrapped} ELSE {FullChain(w, h)}

Storage(w, h, levels, minMip) == [w |-> w, h |-> h, levels |-> levels, minMip |-> minMip]

TypeOK ==
  /\ \A o \in Objects : tex[o].kind \in {"none", "2D", "Cube", "Depth", "DepthArray"}
  /\ live \subseteq Names
  /\ active \in Slots
  /\ arrayBound \in [Slots -> Names \cup {0}]

Init ==
  /\ tex = [o \in Objects |-> None]
  /\ live = {}
  /\ store = [n \in Names |-> Storage(0, 0, 0, FALSE)]
  /\ active = Min(Slots)
  /\ arrayBound = [u \in Slots |-> 0]

\* glDeleteTextures on the names D (possibly none), then glGenTextures(1,
\* &handle): the lowest name not in use becomes object o's handle, with
\* record t and storage st.  A deleted name bound to a target reverts to 0.
Regen(D, o, t, st) ==
  LET free == Names \ (live \ D)
      n    == Min(free)
  IN /\ free # {}
     /\ live' = (live \ D) \cup {n}
     /\ arrayBound' = [u \in Slots |-> IF arrayBound[u] \in D THEN 0 ELSE arrayBound[u]]
     /\ store' = [store EXCEPT ![n] = st]
     /\ tex' = [tex EXCEPT ![o] = [t EXCEPT !.handle = n]]

\* glDeleteTextures on the names D.
Delete(D) ==
  /\ live' = live \ D
  /\ arrayBound' = [u \in Slots |-> IF arrayBound[u] \in D THEN 0 ELSE arrayBound[u]]
-----------------------------------------------------------------------------
(***************************************************************************)
(* GLTexture2D                                                            *)
(***************************************************************************)

\* Load(data) after the old name (if any) is in D: LoadTexture(pixels)
\* generates a name and chooses the minification filter from m_Parameters
\* and the m_Flags of the previous load, then sets m_Flags from the
\* parameters and generates mipmaps when either asks for them; Load then
\* sets m_MipLevels from the size unconditionally.
Load2D(D, o, t, p, w, h) ==
  LET gen == p.genMips \/ p.createMips
  IN \E ml \in MipLevelsOf(w, h) :
       Regen(D, o, [t EXCEPT !.kind = "2D", !.w = w, !.h = h, !.flags = p.createMips,
                             !.mipLevels = ml, !.params = p],
             Storage(w, h, IF gen THEN FullChain(w, h) ELSE 1,
                     p.linear /\ (p.genMips \/ t.flags)))

\* GLTexture2D(parameters, width, height) and GLTexture2D(width, height,
\* data, ...): Load(data) with the given size.  m_Flags starts at 0.
New2D(o, p, w, h) ==
  /\ "2D" \in Kinds /\ tex[o].kind = "none"
  /\ Load2D({}, o, None, p, w, h)
  /\ UNCHANGED active

\* GLTexture2D(name, filename, ...): Load(nullptr) reads the file with
\* LoadTextureData, which zeroes the size first; a failed load leaves the
\* size 0 x 0.
New2DFile(o, p, loaded) ==
  /\ "2D" \in Kinds /\ tex[o].kind = "none"
  /\ \E s \in IF loaded THEN Sizes \X Sizes ELSE {<<0, 0>>} :
       Load2D({}, o, None, p, s[1], s[2])
  /\ UNCHANGED active

\* Mutant: Resize builds the new texture without deleting the old name.
Resize2DNoDelete(o, w, h) ==
  LET t == tex[o]
      gen == t.params.genMips \/ t.flags
  IN /\ t.kind = "2D"
     /\ Regen({}, o, [t EXCEPT !.w = w, !.h = h,
                        !.mipLevels = IF gen THEN FullChain(w, h) ELSE @],
              Storage(w, h, IF gen THEN FullChain(w, h) ELSE 1, t.params.linear /\ gen))
     /\ UNCHANGED active

\* Resize(width, height): set the size, delete the name, BuildTexture():
\* a new name, filters from the current m_Parameters and m_Flags, and
\* m_MipLevels only when mipmaps are generated.
Resize2D(o, w, h) ==
  LET t == tex[o]
      gen == t.params.genMips \/ t.flags
  IN /\ t.kind = "2D"
     /\ Regen({t.handle}, o, [t EXCEPT !.w = w, !.h = h,
                                !.mipLevels = IF gen THEN FullChain(w, h) ELSE @],
              Storage(w, h, IF gen THEN FullChain(w, h) ELSE 1, t.params.linear /\ gen))
     /\ UNCHANGED active

\* Load(width, height, data, parameters, loadOptions): delete the name,
\* take the new parameters and size, and Load(data).
Reload2D(o, p, w, h) ==
  /\ tex[o].kind = "2D"
  /\ Load2D({tex[o].handle}, o, tex[o], p, w, h)
  /\ UNCHANGED active

\* SetData(pixels): upload level 0 and glGenerateMipmap.
SetData(o) ==
  /\ tex[o].kind = "2D"
  /\ store' = [store EXCEPT ![tex[o].handle].levels =
                FullChain(store[tex[o].handle].w, store[tex[o].handle].h)]
  /\ UNCHANGED <<tex, live, active, arrayBound>>

\* ~GLTexture2D(): glDeleteTextures(1, &m_Handle).
Destroy2D(o) ==
  /\ tex[o].kind = "2D"
  /\ Delete({tex[o].handle})
  /\ tex' = [tex EXCEPT ![o] = None]
  /\ UNCHANGED <<store, active>>
-----------------------------------------------------------------------------
(***************************************************************************)
(* GLTextureCube                                                          *)
(***************************************************************************)

CubeObject(w, numMips) == [None EXCEPT !.kind = "Cube", !.w = w, !.h = w, !.numMips = numMips]

\* GLTextureCube(size, data, hdr): m_NumMips = CalculateMipMapCount(size,
\* size), a name with six size x size faces, linear filtering and
\* glGenerateMipmap.
NewCubeSize(o, size) ==
  /\ "Cube" \in Kinds /\ tex[o].kind = "none"
  /\ Regen({}, o, CubeObject(size, FullChain(size, size)),
           Storage(size, size, FullChain(size, size), FALSE))
  /\ UNCHANGED active

\* GLTextureCube(filepath): LoadFromSingleFile() is unimplemented and
\* returns 0; no name is generated and m_NumMips stays 0.
NewCubeFile(o) ==
  /\ "Cube" \in Kinds /\ tex[o].kind = "none"
  /\ tex' = [tex EXCEPT ![o] = CubeObject(0, 0)]
  /\ UNCHANGED <<live, store, active, arrayBound>>

\* GLTextureCube(files): LoadFromMultipleFiles() uploads six faces of the
\* size read from the files with a mipmap filter and glGenerateMipmap.
\* This constructor never sets m_NumMips; the model lets it hold any value
\* of CubeMips.
NewCubeFiles(o, size) ==
  /\ "Cube" \in Kinds /\ tex[o].kind = "none"
  /\ \E m \in CubeMips :
       Regen({}, o, CubeObject(size, m), Storage(size, size, FullChain(size, size), TRUE))
  /\ UNCHANGED active

\* GLTextureCube(files, mips, params, loadOptions): m_NumMips = mips and
\* LoadFromVCross(mips): one vertical-cross file per level, uploaded as
\* levels 0 .. mips - 1 with a mipmap minification filter and no
\* glGenerateMipmap.  size is the face size of level 0.
NewCubeVCross(o, mips, size) ==
  /\ "Cube" \in Kinds /\ tex[o].kind = "none"
  /\ Regen({}, o, CubeObject(size, mips), Storage(size, size, mips, TRUE))
  /\ UNCHANGED active

\* GenerateMipMaps(commandBuffer): glGenerateMipmap on the cube's name.
CubeGenerateMipMaps(o) ==
  /\ tex[o].kind = "Cube" /\ tex[o].handle \in live
  /\ store' = [store EXCEPT ![tex[o].handle].levels =
                FullChain(store[tex[o].handle].w, store[tex[o].handle].h)]
  /\ UNCHANGED <<tex, live, active, arrayBound>>

\* ~GLTextureCube(): glDeleteTextures(m_NumMips, &m_Handle).  The call
\* reads m_NumMips names starting at the one member m_Handle: for 0 it
\* deletes nothing, and past the first it reads the members that follow,
\* undefined behaviour, modelled as any further live names being deleted.
DestroyCube(o) ==
  LET t == tex[o] IN
  /\ t.kind = "Cube"
  /\ \E X \in SUBSET live :
       /\ Cardinality(X) < t.numMips
       /\ Delete(IF t.numMips = 0 THEN {} ELSE {t.handle} \cup X)
  /\ tex' = [tex EXCEPT ![o] = None]
  /\ UNCHANGED <<store, active>>
-----------------------------------------------------------------------------
(***************************************************************************)
(* GLTextureDepth and GLTextureDepthArray                                 *)
(***************************************************************************)

DepthObject(kind, w, h) == [None EXCEPT !.kind = kind, !.w = w, !.h = h]

\* GLTextureDepth(width, height): glGenTextures, then Init(): bind the
\* name, glTexImage2D of the size, linear filters, unbind.
NewDepth(o, w, h) ==
  /\ "Depth" \in Kinds /\ tex[o].kind = "none"
  /\ Regen({}, o, DepthObject("Depth", w, h), Storage(w, h, 1, FALSE))
  /\ UNCHANGED active

\* GLTextureDepth::Resize(width, height): the new size, then Init() on the
\* same name, which binds it before the upload.
ResizeDepth(o, w, h) ==
  /\ tex[o].kind = "Depth"
  /\ tex' = [tex EXCEPT ![o].w = w, ![o].h = h]
  /\ store' = [store EXCEPT ![tex[o].handle] = Storage(w, h, 1, FALSE)]
  /\ UNCHANGED <<live, active, arrayBound>>

\* GLTextureDepthArray(width, height, count): Init() generates a name,
\* binds it to GL_TEXTURE_2D_ARRAY of the active unit, uploads the layers,
\* and binds 0 again.
NewDepthArray(o, w, h) ==
  /\ "DepthArray" \in Kinds /\ tex[o].kind = "none"
  /\ LET n == Min(Names \ live) IN
     /\ live # Names
     /\ live' = live \cup {n}
     /\ store' = [store EXCEPT ![n] = Storage(w, h, 1, FALSE)]
     /\ tex' = [tex EXCEPT ![o] = [DepthObject("DepthArray", w, h) EXCEPT !.handle = n]]
     /\ arrayBound' = [arrayBound EXCEPT ![active] = 0]
  /\ UNCHANGED active

\* GLTextureDepthArray::Resize(width, height, count): the new size, then
\* glTexImage3D on GL_TEXTURE_2D_ARRAY without binding the array first, so
\* the upload goes to whatever name the active unit has bound there (none:
\* a GL error, no upload), and bind 0.
ResizeDepthArray(o, w, h) ==
  LET target == arrayBound[active] IN
  /\ tex[o].kind = "DepthArray"
  /\ tex' = [tex EXCEPT ![o].w = w, ![o].h = h]
  /\ store' = IF target = 0 THEN store ELSE [store EXCEPT ![target] = Storage(w, h, 1, FALSE)]
  /\ arrayBound' = [arrayBound EXCEPT ![active] = 0]
  /\ UNCHANGED <<live, active>>

\* ~GLTextureDepth() and ~GLTextureDepthArray(): glDeleteTextures(1, ...).
DestroyDepth(o) ==
  /\ tex[o].kind \in {"Depth", "DepthArray"}
  /\ Delete({tex[o].handle})
  /\ tex' = [tex EXCEPT ![o] = None]
  /\ UNCHANGED <<store, active>>
-----------------------------------------------------------------------------
\* Bind(slot) / Unbind(slot) of every class: glActiveTexture(GL_TEXTURE0 +
\* slot), then bind the name (or 0) to the class's target.
Bind(o, slot, on) ==
  /\ tex[o].kind # "none"
  /\ active' = slot
  /\ arrayBound' = IF tex[o].kind = "DepthArray"
                     THEN [arrayBound EXCEPT ![slot] = IF on THEN tex[o].handle ELSE 0]
                     ELSE arrayBound
  /\ UNCHANGED <<tex, live, store>>

Next ==
  \E o \in Objects :
    \/ \E p \in Params, w, h \in Sizes : New2D(o, p, w, h) \/ Reload2D(o, p, w, h)
    \/ \E p \in Params, loaded \in BOOLEAN : New2DFile(o, p, loaded)
    \/ \E w, h \in Sizes : Resize2D(o, w, h) \/ NewDepth(o, w, h) \/ ResizeDepth(o, w, h)
                           \/ NewDepthArray(o, w, h) \/ ResizeDepthArray(o, w, h)
    \/ \E size \in CubeSizes : NewCubeSize(o, size) \/ NewCubeFiles(o, size)
    \/ \E mips \in CubeMips, size \in CubeSizes : NewCubeVCross(o, mips, size)
    \/ NewCubeFile(o) \/ CubeGenerateMipMaps(o) \/ SetData(o)
    \/ Destroy2D(o) \/ DestroyCube(o) \/ DestroyDepth(o)
    \/ \E slot \in Slots, on \in BOOLEAN : Bind(o, slot, on)

Spec == Init /\ [][Next]_vars

-----------------------------------------------------------------------------
(***************************************************************************)
(* Properties                                                             *)
(***************************************************************************)

Held == {o \in Objects : tex[o].kind # "none"}

\* The GL names in use are exactly the handles of the texture objects
\* alive, one each: no destructor, Resize or Load leaks a name or deletes
\* one another object still holds.
GLNamesOwned ==
  /\ live = {tex[o].handle : o \in Held} \ {0}
  /\ \A o1, o2 \in Held : o1 # o2 /\ tex[o1].handle # 0 => tex[o1].handle # tex[o2].handle

\* The GL storage of a 2D, depth or depth-array texture has the size its
\* object reports (m_Width, m_Height) after every Resize.
StorageMatches ==
  \A o \in Held :
    tex[o].kind \in {"2D", "Depth", "DepthArray"} =>
      store[tex[o].handle].w = tex[o].w /\ store[tex[o].handle].h = tex[o].h

\* A texture whose minification filter samples mipmaps has every level of
\* its chain defined; otherwise it is incomplete and samples as black.
MipmapComplete ==
  \A n \in live : store[n].minMip => store[n].levels = FullChain(store[n].w, store[n].h)

\* m_MipLevels of a 2D texture is the length of the mip chain of its size.
MipLevelsMatchSize ==
  \A o \in Held : tex[o].kind = "2D" => tex[o].mipLevels = FullChain(tex[o].w, tex[o].h)
=============================================================================
