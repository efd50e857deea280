\* Width 5: a digest wider than the rate, one narrower, and a shape whose
\* digest does not fill the capacity.  Inputs of up to two and a half blocks
\* over zero and one other element, so that zero padding can collide.
CONSTANTS
  Width = 5
  Shapes <- MCShapes
  Elements = {z, a}
  Zero = z
  z = z
  a = a
  MaxLength = 5
SPECIFICATION FSSpec
INVARIANTS
  FSTypeOK
  HashesLikeReference
  CollidesOnlyOnPadding
