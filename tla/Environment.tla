---------------------------- MODULE Environment ----------------------------
(***************************************************************************)
(* Graphics::Environment::Load (src/Lumos/Source/Lumos/Graphics/           *)
(* Environment.cpp): the environment and irradiance cube maps of a scene, *)
(* either generated (mode 1, or mode 0 with an .hdr file) or built from   *)
(* vertical-cross files, one per mip, found by halving the base size and  *)
(* asking the VFS whether each file name resolves.                        *)
(*                                                                         *)
(* A file name "<path>_Env_<i>_<w>x<h><type>" is determined by the mip    *)
(* index i once the call's arguments are fixed, so a name is abstracted   *)
(* to i, and the empty std::string of an unassigned array slot to Empty.  *)
(* Which mip files exist on disk is an input of each call.  A cube built  *)
(* from files records them, with the mips that existed when it was built. *)
(***************************************************************************)
EXTENDS Integers, SequencesExt

CONSTANTS
  Sizes,        \* widths and heights a caller may pass
  MipCounts,    \* values of numMip
  IrrDivisors,  \* irrSizeFactor = 1 / d for d in IrrDivisors
  FileTypes     \* values of fileType

VARIABLES
  m_Environmnet,   \* the environment cube map, or Null
  m_IrradianceMap, \* the irradiance cube map, or Null
  leaked           \* some Load returned without delete[] of its arrays

vars == <<m_Environmnet, m_IrradianceMap, leaked>>

Null  == [from |-> "nullptr"]
Empty == -1      \* a default-constructed std::string

\* A cube map from RenderPasses::CreateCubeMap (an .hdr file or a
\* generated sky) and one from TextureCube::CreateFromVCross(files, mips).
Generated == [from |-> "CubeMap"]
VCross(files, mips, present) ==
  [from |-> "VCross", files |-> SubSeq(files, 1, mips), present |-> present]

Cube(n) == {Null, Generated} \cup
  [from: {"VCross"}, files: Seq({Empty} \cup (0 .. n - 1)), present: SUBSET (0 .. n - 1)]

TypeOK ==
  LET n == Max(MipCounts) IN
  /\ m_Environmnet \in Cube(n)
  /\ m_IrradianceMap \in Cube(n)
  /\ leaked \in BOOLEAN

Init ==
  /\ m_Environmnet = Null
  /\ m_IrradianceMap = Null
  /\ leaked = FALSE

-----------------------------------------------------------------------------
(***************************************************************************)
(* One iteration of a mip search loop over files[i]: name the file for    *)
(* the current size, halve the size, stop when it reaches zero, stop and  *)
(* fail when the VFS cannot resolve the name, else count it.  present is  *)
(* the set of mip files that exist.                                       *)
(***************************************************************************)

\* Mutant: the file is counted before the size test.
MipStepCountEarly(acc, i, present) ==
  IF acc.done THEN acc
  ELSE LET a == [acc EXCEPT !.files[i + 1] = i, !.w = @ \div 2, !.h = @ \div 2,
                            !.count = @ + 1]
       IN IF a.h < 1 \/ a.w < 1 THEN [a EXCEPT !.done = TRUE]
          ELSE IF i \notin present THEN [a EXCEPT !.failed = TRUE, !.done = TRUE]
          ELSE a

MipStep(acc, i, present) ==
  IF acc.done THEN acc
  ELSE LET a == [acc EXCEPT !.files[i + 1] = i, !.w = @ \div 2, !.h = @ \div 2]
       IN IF a.h < 1 \/ a.w < 1 THEN [a EXCEPT !.done = TRUE]
          ELSE IF i \notin present THEN [a EXCEPT !.failed = TRUE, !.done = TRUE]
          ELSE [a EXCEPT !.count = @ + 1]

\* The loop "for(i = 0; i < m_NumMips; i++)" over a fresh
\* new std::string[m_NumMips], from the size w x h.
MipSearch(n, w, h, present) ==
  FoldLeft(LAMBDA acc, i : MipStep(acc, i, present),
           [files |-> [k \in 1..n |-> Empty], w |-> w, h |-> h,
            failed |-> FALSE, done |-> FALSE, count |-> 0],
           [k \in 1..n |-> k - 1])

\* Load(): mode 0 with an .hdr file hands it to CreateCubeMap and returns
\* before delete[] of the two name arrays.
LoadHdr(mode, fileType) ==
  /\ mode = 0 /\ fileType = ".hdr"
  /\ m_Environmnet' = Generated
  /\ m_IrradianceMap' = Generated
  /\ leaked' = TRUE

\* Load(): mode 0 with mip files.  The irradiance search starts from
\* m_Width * m_IrrFactor and runs even when the first one failed; the cubes
\* are replaced only when neither failed, the environment with all
\* m_NumMips names and the irradiance map with numMipsIrr of them.
LoadVCross(mode, fileType, n, w, h, d, envPresent, irrPresent) ==
  LET env == MipSearch(n, w, h, envPresent)
      irr == MipSearch(n, w \div d, h \div d, irrPresent)
  IN /\ mode = 0 /\ fileType # ".hdr"
     /\ IF env.failed \/ irr.failed
          THEN UNCHANGED <<m_Environmnet, m_IrradianceMap>>
          ELSE /\ m_Environmnet' = VCross(env.files, n, envPresent)
               /\ m_IrradianceMap' = VCross(irr.files, irr.count, irrPresent)
     /\ UNCHANGED leaked

\* Load(): mode 1 generates the cube maps; the name arrays allocated at
\* the top of Load are never deleted on this path.
LoadGenerated(mode) ==
  /\ mode = 1
  /\ m_Environmnet' = Generated
  /\ m_IrradianceMap' = Generated
  /\ leaked' = TRUE

\* Environment(name, numMip, ...) and Load(name, numMip, ...): store the
\* arguments, then Load().  m_Mode is whatever the caller set.
Load(n, w, h, d, fileType) ==
  \E mode \in {0, 1} :
    \/ LoadHdr(mode, fileType)
    \/ \E envPresent, irrPresent \in SUBSET (0 .. n - 1) :
         LoadVCross(mode, fileType, n, w, h, d, envPresent, irrPresent)
    \/ LoadGenerated(mode)

Next ==
  \E n \in MipCounts, w, h \in Sizes, d \in IrrDivisors, ft \in FileTypes :
    Load(n, w, h, d, ft)

Spec == Init /\ [][Next]_vars

-----------------------------------------------------------------------------
(***************************************************************************)
(* Properties                                                             *)
(***************************************************************************)

\* Every file handed to CreateFromVCross for the irradiance map was
\* resolved by the search loop: numMipsIrr counts only resolved names.
IrrFilesExist ==
  m_IrradianceMap.from = "VCross" =>
    \A k \in DOMAIN m_IrradianceMap.files :
      m_IrradianceMap.files[k] \in m_IrradianceMap.present

\* The same for the environment map, which is handed all m_NumMips names
\* whether or not the search reached and resolved them.
EnvFilesExist ==
  m_Environmnet.from = "VCross" =>
    \A k \in DOMAIN m_Environmnet.files :
      m_Environmnet.files[k] \in m_Environmnet.present

\* Load frees the two name arrays it allocates on every path.
NoLeak == ~leaked
=============================================================================
