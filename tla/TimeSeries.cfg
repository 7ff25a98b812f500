CONSTANTS
  Times = {104}
  Precise = 100
  Shapes = {"Triangle", "Tetrahedron"}
  NoMesh = nomesh
  Names = {"velocity", "vorticity"}
  MaxSteps = 2
  MaxFields = 2
SPECIFICATION Spec
VIEW Live
INVARIANTS ReadBack
