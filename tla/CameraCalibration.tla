--------------------------- MODULE CameraCalibration ---------------------------
(* Calibration of cameras: from the samples to the cameras, as far as it is *)
(* linear.                                                                  *)
(*                                                                          *)
(* Projective coordinates are computed modulo a prime.  The solvers of the  *)
(* library, of homographies, projections and factors, are given the exact   *)
(* solutions among other candidates, so that they find any solution there   *)
(* is.                                                                      *)
EXTENDS Filters
LOCAL INSTANCE FiniteSetsExt
LOCAL INSTANCE SequencesExt

MProduct(A, B, m) ==
  [i \in DOMAIN A |-> [j \in DOMAIN B[1] |->
    MapThenSumSet(LAMBDA k : A[i][k] * B[k][j], DOMAIN B) % m]]
MTransposed(A) == [j \in DOMAIN A[1] |-> [i \in DOMAIN A |-> A[i][j]]]

\* The image of a point, none if that is at infinity.
Imaged(M, x, m) ==
  LET X == MProduct(M, [i \in 1 .. Len(x) + 1 |-> <<IF i > Len(x) THEN 1 ELSE x[i]>>], m) IN
  IF X[3][1] = 0 THEN <<>> ELSE <<Over(X[1][1], X[3][1], m), Over(X[2][1], X[3][1], m)>>

\* TU::Normalize: its matrix moves the centre of the points to the origin.
CentreOf(points, m) ==
  [n |-> Len(points) % m,
   c |-> FoldSeq(LAMBDA x, s : <<(s[1] + x[1]) % m, (s[2] + x[2]) % m>>, <<0, 0>>, points)]
NormT(norm, m) == <<<<norm.n, 0, m - norm.c[1]>>, <<0, norm.n, m - norm.c[2]>>, <<0, 0, 1>>>>
NormTinv(norm, m) == <<<<Over(1, norm.n, m), 0, Over(norm.c[1], norm.n, m)>>,
                       <<0, Over(1, norm.n, m), Over(norm.c[2], norm.n, m)>>, <<0, 0, 1>>>>

-----------------------------------------------------------------------------
(* Correspondences: sets[j][i] are those of plane j and camera i.          *)

\* Nothing if it throws.
ComputeHomographies(sets, candidates, m) ==
  IF Len(sets) < 2 \/ \E j \in DOMAIN sets : Len(sets[j]) # Len(sets[1]) THEN <<>>
  ELSE [i \in DOMAIN sets[1] |-> [j \in DOMAIN sets |->
         CHOOSE H \in candidates : \A k \in DOMAIN sets[j][i] :
           Imaged(H, sets[j][i][k][1], m) = sets[j][i][k][2]]]

AllOf(corres, side) == [k \in DOMAIN corres |-> corres[k][side]]
CameraNormalizations(sets, m) ==
  [i \in DOMAIN sets[1] |-> CentreOf(FlattenSeq([j \in DOMAIN sets |-> AllOf(sets[j][i], 2)]), m)]
PlaneNormalizations(sets, m) ==
  [j \in DOMAIN sets |-> CentreOf(FlattenSeq([i \in DOMAIN sets[j] |-> AllOf(sets[j][i], 1)]), m)]

\* The factorisation for two cameras or more knows how planes were scaled.
Factored(W, scales, factors, m) ==
  {f \in factors :
     /\ \A i \in DOMAIN W, j \in DOMAIN W[1] : MProduct(f.P[i], MTransposed(f.Qt[j]), m) = W[i][j]
     /\ Len(W) > 1 => \A j \in DOMAIN W[1] :
          MapThenSumSet(LAMBDA k : (scales[j] * f.Qt[j][1][k])^2, 1 .. 3) % m = 1}

\* planeCalib, up to the refinement.  Every result it may have; none if it throws.
PlaneCalib(sets, candidates, factors, m) ==
  LET W == ComputeHomographies(sets, candidates, m)
      S == CameraNormalizations(sets, m)
      T == PlaneNormalizations(sets, m)
      Wn == [i \in DOMAIN S |-> [j \in DOMAIN T |->
               MProduct(MProduct(NormT(S[i], m), W[i][j], m), NormTinv(T[j], m), m)]]
      scales == [j \in DOMAIN T |-> NormT(T[j], m)[1][1]]
  IN  IF W = <<>> THEN {}
      ELSE {[P |-> [i \in DOMAIN S |-> MProduct(NormTinv(S[i], m), f.P[i], m)],
             Qt |-> [j \in DOMAIN T |-> MProduct(MTransposed(NormT(T[j], m)), f.Qt[j], m)]] :
              f \in Factored(Wn, scales, factors, m)}

VolumeCalib(corres, candidates, m) ==
  {P \in candidates : \A k \in DOMAIN corres : Imaged(P, corres[k][1], m) = corres[k][2]}

-----------------------------------------------------------------------------
(* The calibrator.  A sample is of every camera its name and frame, the    *)
(* frame of reference and the correspondences.                             *)

\* corres_cb takes no notice of any other.
TakesNotice(sample) == sample # <<>> /\ \A i \in DOMAIN sample : sample[i].corres # <<>>

\* A planar marker has no frame of its own: the first camera's is taken.
WithReferences(sample) ==
  [i \in DOMAIN sample |-> [sample[i] EXCEPT !.reference = IF @ = <<>> THEN sample[1].frame ELSE @]]

\* By marker position and camera, in the coordinates of the plane.
ConvertCorrespondences(samples) ==
  [j \in DOMAIN samples |-> [i \in DOMAIN samples[j] |->
    [k \in DOMAIN samples[j][i].corres |->
      LET c == samples[j][i].corres[k] IN <<<<c[1][1], c[1][2]>>, c[2]>>]]]

\* By camera, over all positions of the marker.
RearrangeCorrespondences(samples) ==
  [i \in DOMAIN samples[1] |-> FlattenSeq([j \in DOMAIN samples |-> samples[j][i].corres])]

ComputeFromSamples(samples, homographies, factors, projections, m) ==
  LET first == samples[1]
      Answers(Ps) == [i \in DOMAIN first |-> [name |-> first[i].name, reference |-> first[i].reference, P |-> Ps[i]]]
      corres == RearrangeCorrespondences(samples)
      OfVolume == {Ps \in [DOMAIN first -> projections] :
                     \A i \in DOMAIN first : Ps[i] \in VolumeCalib(corres[i], projections, m)}
      OfPlanes == {f.P : f \in PlaneCalib(ConvertCorrespondences(samples), homographies, factors, m)}
  IN  IF samples = <<>> THEN {}
      ELSE {Answers(Ps) : Ps \in IF first[1].reference = first[1].frame THEN OfPlanes ELSE OfVolume}

-----------------------------------------------------------------------------
(* Checks.                                                                 *)

\* Samples of cameras P that see the points of planes Qt, or of one volume.
SampleOf(P, Project(_, _), refs, reference, m) ==
  [i \in DOMAIN P |-> [name |-> i, frame |-> <<"optical", i>>, reference |-> reference,
                       corres |-> [k \in DOMAIN refs |-> <<refs[k], Project(i, refs[k])>>]]]

\* Two or more planes give cameras and planes that together map each plane as
\* it was seen by each camera, with axes of unit length if there are several
\* cameras, although all this is computed from normalised coordinates and some
\* observations are incomplete; one plane gives none.
PlanesCalibrated(P, Qt, refs, incomplete, m) ==
  LET H == [i \in DOMAIN P |-> [j \in DOMAIN Qt |-> MProduct(P[i], MTransposed(Qt[j]), m)]]
      Seen(j) == SampleOf(P, LAMBDA i, x : Imaged(H[i][j], <<x[1], x[2]>>, m), refs[j], <<>>, m)
      Hidden(j) == [Seen(j) EXCEPT ![1].corres = <<>>]
      samples == [j \in DOMAIN Qt |-> WithReferences(Seen(j))]
      received == SelectSeq(FlattenSeq([j \in DOMAIN Qt |->
                    IF j = incomplete THEN <<Hidden(j), Seen(j)>> ELSE <<Seen(j)>>]), TakesNotice)
      taken == [j \in DOMAIN received |-> WithReferences(received[j])]
      sets == ConvertCorrespondences(taken)
      homographies == {H[i][j] : i \in DOMAIN P, j \in DOMAIN Qt}
      norm(points) == CentreOf(points, m)
      S == [i \in DOMAIN P |-> norm(FlattenSeq([j \in DOMAIN Qt |-> [k \in DOMAIN refs[j] |-> Imaged(H[i][j], <<refs[j][k][1], refs[j][k][2]>>, m)]]))]
      T == [j \in DOMAIN Qt |-> norm(FlattenSeq([i \in DOMAIN P |-> refs[j]]))]
      Scaled3(A, c) == [i \in DOMAIN A |-> [j \in DOMAIN A[i] |-> (c * A[i][j]) % m]]
      factors == {[P |-> [i \in DOMAIN P |-> Scaled3(MProduct(NormT(S[i], m), P[i], m), Over(1, c, m))],
                   Qt |-> [j \in DOMAIN Qt |->
                            Scaled3(MProduct(MTransposed(NormTinv(T[j], m)), Qt[j], m), c)]] : c \in {1, 3}}
      found == PlaneCalib(sets, homographies, factors, m)
  IN  (\A i \in DOMAIN P, j \in DOMAIN Qt : \A k \in DOMAIN refs[j] : samples[j][i].corres[k][2] # <<>>) =>
        /\ found = {} <=> Len(Qt) < 2
        /\ \A f \in found :
             /\ \A i \in DOMAIN P, j \in DOMAIN Qt : MProduct(f.P[i], MTransposed(f.Qt[j]), m) = H[i][j]
             /\ Len(P) > 1 => \A j \in DOMAIN Qt, a \in 1 .. 2 :
                  MapThenSumSet(LAMBDA k : f.Qt[j][a][k]^2, 1 .. 3) % m = 1
        /\ {[i \in DOMAIN a |-> a[i].P] : a \in ComputeFromSamples(taken, homographies, factors, {}, m)}
             = {f.P : f \in found}

\* With a marker that has its own frame each camera gets the projection that
\* it was seen with, wherever the marker was, under its own name.
VolumeCalibrated(P, refs, candidates, m) ==
  LET samples == [j \in DOMAIN refs |->
                    WithReferences(SampleOf(P, LAMBDA i, x : Imaged(P[i], x, m), refs[j], <<"marker">>, m))]
  IN  (\A i \in DOMAIN P, j \in DOMAIN refs : \A k \in DOMAIN refs[j] : samples[j][i].corres[k][2] # <<>>) =>
        ComputeFromSamples(samples, {}, {}, candidates, m)
          = {[i \in DOMAIN P |-> [name |-> i, reference |-> <<"marker">>, P |-> P[i]]]}
=============================================================================
