----------------------------- MODULE MCCarousel -----------------------------
(***************************************************************************)
(* Instances of Carousel.  One unit of the model stands for many units of  *)
(* the token, so that a relayer fee of a few units is legal.               *)
(***************************************************************************)
EXTENDS CarouselProperties

\* A second epoch's deposit window opens after the first epoch's begin.
OneEpoch    == {<<3, 4>>}
TwoEpochs   == {<<2, 3>>, <<5, 6>>}
ThreeEpochs == {<<2, 3>>, <<5, 6>>, <<8, 9>>}

NoApproval     == {}
NoCleanUp      == {}
SingleCleanUps == {<<u>> : u \in Users}

\* Holders are interchangeable.
UserSymmetry == Permutations(Users)
=============================================================================
